---------------------------- MODULE OrganizeProofs ----------------------------
(***************************************************************************)
(* Invariants of Organize for any sources, settings, findings and faults.  *)
(* One inductive invariant: the types, with the keys and leases a job      *)
(* holds, where the files are that it works on, and what rows and jobs     *)
(* say of paths.                                                           *)
(***************************************************************************)
EXTENDS Organize, WellFoundedInduction, TLAPS

Busy == {"lease", "transfer", "tag", "aim", "move"}
Placing == {"tag", "aim", "move"}
Elsewhere == {n \in Name : n[1] # "source"}

(* A job has the key of its file until the result is known, and a task for *)
(* files of downloads those of all its files.                              *)
Keyed(j) ==
  /\ job[j].pc \in Busy \cup {"report"} => job[j].cur \in Source
  /\ job[j].pc \in Busy => /\ keyed[job[j].cur] = j
                           /\ cfg.placed => job[j].place \in Places[job[j].cur]
  /\ job[j].kind = "auto" /\ job[j].pc \in Busy \cup {"next", "report"}
       => \A s \in job[j].todo : keyed[s] = j

(* It has the lease of the album from before the transfer to after the move. *)
Leased(j) ==
  job[j].leased => job[j].pc \in Placing \cup {"transfer"} /\ lease[Album[job[j].cur]] = j

(* Where its files are: the one it works on is below the mapped directory  *)
(* at a path of the source, and is no hard link when tags are written; or  *)
(* it is the source. The final name is one the metadata can give.          *)
Filed(j) ==
  /\ job[j].pc \in Placing /\ Mapped =>
       /\ \E k \in 1..Numbers : job[j].work = <<"mapped", job[j].cur, k>>
       /\ cfg.placed => job[j].made = "new"
  /\ job[j].pc \in Placing /\ ~ Mapped =>
       job[j].work = Src(job[j].cur) /\ job[j].made = "nothing"
  /\ job[j].pc = "tag" /\ job[j].writes /\ Mapped /\ fs[job[j].work] # None
       => ~ fs[job[j].work].seed
  /\ job[j].pc = "move" =>
       cfg.placed /\ \E k \in 1..Numbers : job[j].aim = <<"final", job[j].place, k>>

(* What a result or a row can name: a source file only as the result of an *)
(* organisation in place that neither classifies nor renames.              *)
Says(status, path, mention) ==
  /\ status = "success" => path \in Name
  /\ Mapped \/ cfg.placed => path \in Elsewhere \cup {None}
  /\ Mapped => mention \in Elsewhere \cup {None}

Told ==
  /\ \A j \in Job : /\ Says(job[j].verdict, job[j].path, job[j].mention)
                    /\ Mapped => \A x \in job[j].known : x.path \in Elsewhere
  /\ \A i \in Id : rows[i] # None => Says(rows[i].status, rows[i].path, rows[i].mention)

(* The file at a source's path is its own; organised in place it moves.    *)
Sources ==
  /\ \A s \in Source : fs[Src(s)] # None => fs[Src(s)].of = s
  /\ ~ Mapped => \A n \in Elsewhere : fs[n] # None => fs[Src(fs[n].of)] = None

TypeInv ==
  TypeOK /\ (\A j \in Job : Keyed(j) /\ Leased(j) /\ Filed(j)) /\ Told /\ Sources

-----------------------------------------------------------------------------
(* Names *)

LEMMA Names ==
  /\ \A s \in Source : Src(s) \in Name /\ Src(s)[1] = "source" /\ Src(s) \notin Elsewhere
  /\ \A s \in Source : \A k \in 1..Numbers : <<"mapped", s, k>> \in Elsewhere
  /\ \A p \in Place : \A k \in 1..Numbers : <<"final", p, k>> \in Elsewhere
  /\ \A s \in Source : <<"mapped", s, 1>> \in Elsewhere
  /\ \A n \in Name \ Elsewhere : \E s \in Source : n = Src(s)
  /\ \A n \in Elsewhere : \A s \in Source : n # Src(s)
  /\ Elsewhere \subseteq Name /\ None \notin Name /\ None \notin File
  /\ \A s, t \in Source : s # t => Src(s) # Src(t)
  /\ \A s, t \in Source : \A k, l \in 1..Numbers :
       s # t => <<"mapped", s, k>> # <<"mapped", t, l>>
  /\ \A s \in Source : \A p \in Place : \A k, l \in 1..Numbers :
       <<"mapped", s, k>> # <<"final", p, l>>
BY OrganizeAssumption, NoneAssumption DEF Name, Elsewhere, Src

(* A set of numbers has a least one. *)
LEMMA Minimum ==
  ASSUME NEW R \in SUBSET Nat, R # {}
  PROVE  \E k \in R : \A l \in R : k <= l
<1> DEFINE Below == OpToRel(<, Nat)
<1>1. IsWellFoundedOn(Below, Nat)
  BY NatLessThanWellFounded
<1>2. \A i, k \in Nat : k < i => <<k, i>> \in Below
  BY DEF OpToRel
<1> HIDE DEF Below
<1>3. PICK i \in R : \A k \in R : ~ (<<k, i>> \in Below)
  BY <1>1, WFMin, Zenon
<1>4. \A k \in R : i <= k
  <2> TAKE k \in R
  <2>1. i \in Nat /\ k \in Nat
    OBVIOUS
  <2>2. ~ (k < i)
    BY <2>1, <1>2, <1>3, Zenon
  <2> QED
    BY <2>1, <2>2
<1> QED
  BY <1>4

LEMMA Constants ==
  /\ Numbers \in Nat \ {0} /\ Jobs \in Nat \ {0} /\ None \notin Nat
  /\ None \notin Job /\ None \notin Name /\ None \notin File
  /\ Places \in [Source -> SUBSET Place]
BY OrganizeAssumption, NoneAssumption DEF Job

LEMMA UniqueFree ==
  ASSUME NEW dir, NEW base, Room(dir, base)
  PROVE  \E k \in 1..Numbers : Unique(dir, base) = <<dir, base, k>> /\ fs[<<dir, base, k>>] = None
<1> DEFINE free == {k \in 1..Numbers : fs[<<dir, base, k>>] = None}
<1>1. free \in SUBSET Nat /\ free # {}
  BY Constants DEF Room
<1>2. \E k \in free : \A l \in free : k <= l
  BY <1>1, Minimum
<1>3. (CHOOSE k \in free : \A l \in free : k <= l) \in free
  BY <1>2
<1> QED
  BY <1>3 DEF Unique

(* Writing tags creates no file, removes none and changes none's data. *)
LEMMA WrittenSame ==
  ASSUME TypeOK, NEW n \in Name, fs[n] # None
  PROVE  /\ Written(n) \in [Name -> File \cup {None}]
         /\ \A m \in Name : Written(n)[m] = None <=> fs[m] = None
         /\ \A m \in Name : fs[m] # None =>
              /\ Written(n)[m].of = fs[m].of /\ Written(n)[m].seed = fs[m].seed
              /\ Written(n)[m].leased = fs[m].leased
         /\ \A m \in Name : Written(n)[m] = fs[m] \/ m = n \/ SameFile(m, n)
<1> USE Names DEF TypeOK, Written, File
<1>1. \A m \in Name : m = n \/ SameFile(m, n) => fs[m] \in File
  BY DEF SameFile
<1>2. \A m \in Name : m = n \/ SameFile(m, n) =>
        /\ Written(n)[m] \in File
        /\ Written(n)[m].of = fs[m].of /\ Written(n)[m].seed = fs[m].seed
        /\ Written(n)[m].leased = fs[m].leased
  BY <1>1, ZenonT(60)
<1>3. \A m \in Name : ~ (m = n \/ SameFile(m, n)) => Written(n)[m] = fs[m]
  OBVIOUS
<1> QED
  BY <1>1, <1>2, <1>3, ZenonT(60)

-----------------------------------------------------------------------------
(* Types *)

LEMMA TypeInit == Init => TypeInv
<1> SUFFICES ASSUME Init PROVE TypeInv
  OBVIOUS
<1> USE Constants, Names
<1>1. PICK c \in Scope : /\ cfg = c.cfg /\ faults = c.faults /\ starts = c.starts
                         /\ rows = [i \in Id |-> IF i \in DOMAIN c.failed
                                       THEN [source |-> c.failed[i], status |-> "failed",
                                             path |-> None, mention |-> None]
                                       ELSE None]
  BY DEF Init
<1>2. c.failed \in Seq(Source) /\ c.starts \in Nat
  BY OrganizeAssumption
<1>3. rows \in [Id -> Row \cup {None}]
  BY <1>1, <1>2 DEF Row
<1>4. job \in [Job -> Run] /\ NoJob \in Run
  BY DEF Init, NoJob, Run, PC
<1>5. fs \in [Name -> File \cup {None}]
  <2>1. \A n \in Name : n[1] = "source" => n[2] \in Source
    BY DEF Name
  <2> QED
    BY <2>1 DEF Init, Seed, File
<1>6. TypeOK
  BY <1>1, <1>2, <1>3, <1>4, <1>5 DEF TypeOK, Init
<1>7. \A j \in Job : Keyed(j) /\ Leased(j) /\ Filed(j)
  BY DEF Init, NoJob, Keyed, Leased, Filed, Busy, Placing
<1>8. \A i \in Id : rows[i] # None => rows[i].status = "failed" /\ rows[i].path = None /\ rows[i].mention = None
  BY <1>1
<1>9. Told
  BY <1>8 DEF Init, NoJob, Told, Says
<1>10. Sources
  <2>1. \A s \in Source : fs[Src(s)] = Seed(s) /\ Seed(s).of = s
    BY DEF Init, Src, Seed
  <2>2. \A n \in Elsewhere : fs[n] = None
    BY DEF Init, Elsewhere
  <2> QED
    BY <2>1, <2>2 DEF Sources
<1> QED
  BY <1>6, <1>7, <1>9, <1>10 DEF TypeInv

(* What the parts of TypeInv say of a job that works on a file. *)
LEMMA AtWork ==
  ASSUME TypeInv, NEW j \in Job
  PROVE  /\ job[j] \in Run /\ NoJob \in Run
         /\ job[j].pc \in Busy \cup {"report"} => job[j].cur \in Source
         /\ job[j].pc \in Busy /\ cfg.placed => job[j].place \in Place
         /\ job[j].pc \in Placing => job[j].work \in Name
         /\ job[j].pc = "move" => job[j].aim \in Elsewhere /\ cfg.placed
         /\ job[j].pc = "move" => job[j].place \in Place
<1> USE Constants, Names
<1>1. job[j] \in Run /\ NoJob \in Run
  BY DEF TypeInv, TypeOK, NoJob, Run, PC
<1>2. /\ job[j].pc \in Busy \cup {"report"} => job[j].cur \in Source
      /\ job[j].pc \in Busy /\ cfg.placed => job[j].place \in Places[job[j].cur]
  BY DEF TypeInv, Keyed
<1>3. job[j].pc \in Busy /\ cfg.placed => job[j].place \in Place
  BY <1>2
<1>4. ASSUME job[j].pc \in Placing PROVE job[j].work \in Name
  <2>1. job[j].cur \in Source
    BY <1>2, <1>4 DEF Placing, Busy
  <2>2. CASE Mapped
    <3>1. PICK k \in 1..Numbers : job[j].work = <<"mapped", job[j].cur, k>>
      BY <1>4, <2>2 DEF TypeInv, Filed
    <3> QED
      BY <2>1, <3>1
  <2>3. CASE ~ Mapped
    <3>1. job[j].work = Src(job[j].cur)
      BY <1>4, <2>3 DEF TypeInv, Filed
    <3> QED
      BY <2>1, <3>1
  <2> QED
    BY <2>2, <2>3
<1>5. job[j].pc = "move" => cfg.placed /\ \E k \in 1..Numbers : job[j].aim = <<"final", job[j].place, k>>
  BY DEF TypeInv, Filed
<1>6. ASSUME job[j].pc = "move" PROVE job[j].aim \in Elsewhere /\ cfg.placed
  <2>1. job[j].place \in Place
    BY <1>3, <1>5, <1>6 DEF Busy
  <2>2. PICK k \in 1..Numbers : job[j].aim = <<"final", job[j].place, k>>
    BY <1>5, <1>6
  <2> QED
    BY <1>5, <1>6, <2>1, <2>2
<1> QED
  BY <1>1, <1>2, <1>3, <1>4, <1>5, <1>6 DEF Busy

(* Where a file is transferred to. *)
LEMMA Target ==
  ASSUME TypeInv, NEW j \in Job, job[j].pc = "transfer", NEW target,
         target = (IF cfg.placed THEN Unique("mapped", job[j].cur) ELSE <<"mapped", job[j].cur, 1>>),
         cfg.placed => Room("mapped", job[j].cur)
  PROVE  /\ \E k \in 1..Numbers : target = <<"mapped", job[j].cur, k>>
         /\ cfg.placed => fs[target] = None
         /\ target \in Elsewhere
<1>1. job[j].cur \in Source
  BY AtWork DEF Busy
<1>2. CASE cfg.placed
  <2>1. PICK k \in 1..Numbers :
          Unique("mapped", job[j].cur) = <<"mapped", job[j].cur, k>> /\ fs[<<"mapped", job[j].cur, k>>] = None
    BY <1>2, UniqueFree
  <2> QED
    BY <1>1, <1>2, <2>1, Names
<1>3. CASE ~ cfg.placed
  BY <1>1, <1>3, Names, Constants
<1> QED
  BY <1>2, <1>3

(* The final name. *)
FinalName(r) ==
  IF ~ cfg.placed THEN r.work
  ELSE IF ~ cfg.vc \/ r.over THEN <<"final", r.place, 1>> ELSE Unique("final", r.place)

LEMMA Aimed ==
  ASSUME TypeInv, NEW j \in Job, job[j].pc = "aim",
         cfg.placed /\ ~ Overwrites(j) => Room("final", job[j].place)
  PROVE  /\ cfg.placed => \E k \in 1..Numbers : FinalName(job[j]) = <<"final", job[j].place, k>>
         /\ cfg.placed => FinalName(job[j]) \in Elsewhere
         /\ cfg.placed /\ ~ Overwrites(j) => fs[FinalName(job[j])] = None
         /\ FinalName(job[j]) \in Name
<1> USE Constants, Names
<1>1. job[j].work \in Name /\ (cfg.placed => job[j].place \in Place)
  BY AtWork DEF Busy, Placing
<1>2. CASE ~ cfg.placed
  BY <1>1, <1>2 DEF FinalName
<1>3. CASE cfg.placed /\ Overwrites(j)
  BY <1>1, <1>3 DEF FinalName, Overwrites
<1>4. CASE cfg.placed /\ ~ Overwrites(j)
  <2>1. FinalName(job[j]) = Unique("final", job[j].place) /\ Room("final", job[j].place)
    BY <1>4 DEF FinalName, Overwrites
  <2>2. PICK k \in 1..Numbers :
          Unique("final", job[j].place) = <<"final", job[j].place, k>> /\ fs[<<"final", job[j].place, k>>] = None
    BY <2>1, UniqueFree
  <2> QED
    BY <1>1, <1>4, <2>1, <2>2
<1> QED
  BY <1>2, <1>3, <1>4

LEMMA WithoutType ==
  ASSUME TypeOK, NEW names, NEW f \in [Name -> File \cup {None}]
  PROVE  Without(f, names) \in [Name -> File \cup {None}]
BY DEF Without

(* The fields of a job that steps set one after another. *)
LEMMA RunWith ==
  ASSUME NEW q \in Run
  PROVE  /\ \A x \in PC : [q EXCEPT !.pc = x] \in Run
         /\ \A x \in {"auto", "redo"} : [q EXCEPT !.kind = x] \in Run
         /\ \A x \in SUBSET Source : [q EXCEPT !.files = x] \in Run
         /\ \A x \in SUBSET Source : [q EXCEPT !.todo = x] \in Run
         /\ \A x \in SUBSET Name : [q EXCEPT !.avoid = x] \in Run
         /\ \A x \in SUBSET [of : Source, path : Name] : [q EXCEPT !.known = x] \in Run
         /\ \A x \in Source \cup {None} : [q EXCEPT !.cur = x] \in Run
         /\ \A x \in Place \cup {None} : [q EXCEPT !.place = x] \in Run
         /\ \A x \in BOOLEAN : [q EXCEPT !.over = x] \in Run
         /\ \A x \in BOOLEAN : [q EXCEPT !.leased = x] \in Run
         /\ \A x \in Name \cup {None} : [q EXCEPT !.work = x] \in Run
         /\ \A x \in {"nothing", "already", "over", "new"} : [q EXCEPT !.made = x] \in Run
         /\ \A x \in Name \cup {None} : [q EXCEPT !.aim = x] \in Run
         /\ \A x \in {"success", "skipped", "failed"} : [q EXCEPT !.verdict = x] \in Run
         /\ \A x \in Name \cup {None} : [q EXCEPT !.path = x] \in Run
         /\ \A x \in Name \cup {None} : [q EXCEPT !.mention = x] \in Run
<1>1. \A x \in PC : [q EXCEPT !.pc = x] \in Run
  BY DEF Run
<1>2. \A x \in {"auto", "redo"} : [q EXCEPT !.kind = x] \in Run
  BY DEF Run
<1>3. \A x \in SUBSET Source : [q EXCEPT !.files = x] \in Run
  BY DEF Run
<1>4. \A x \in SUBSET Source : [q EXCEPT !.todo = x] \in Run
  BY DEF Run
<1>5. \A x \in SUBSET Name : [q EXCEPT !.avoid = x] \in Run
  BY DEF Run
<1>6. \A x \in SUBSET [of : Source, path : Name] : [q EXCEPT !.known = x] \in Run
  BY DEF Run
<1>7. \A x \in Source \cup {None} : [q EXCEPT !.cur = x] \in Run
  BY DEF Run
<1>8. \A x \in Place \cup {None} : [q EXCEPT !.place = x] \in Run
  BY DEF Run
<1>9. \A x \in BOOLEAN : [q EXCEPT !.over = x] \in Run
  BY DEF Run
<1>10. \A x \in BOOLEAN : [q EXCEPT !.leased = x] \in Run
  BY DEF Run
<1>11. \A x \in Name \cup {None} : [q EXCEPT !.work = x] \in Run
  BY DEF Run
<1>12. \A x \in {"nothing", "already", "over", "new"} : [q EXCEPT !.made = x] \in Run
  BY DEF Run
<1>13. \A x \in Name \cup {None} : [q EXCEPT !.aim = x] \in Run
  BY DEF Run
<1>14. \A x \in {"success", "skipped", "failed"} : [q EXCEPT !.verdict = x] \in Run
  BY DEF Run
<1>15. \A x \in Name \cup {None} : [q EXCEPT !.path = x] \in Run
  BY DEF Run
<1>16. \A x \in Name \cup {None} : [q EXCEPT !.mention = x] \in Run
  BY DEF Run
<1> QED
  BY <1>1, <1>2, <1>3, <1>4, <1>5, <1>6, <1>7, <1>8, <1>9, <1>10, <1>11, <1>12, <1>13, <1>14, <1>15, <1>16, Zenon

(* A job whose file has its result. *)
LEMMA OutcomeFields ==
  ASSUME NEW r, NEW verdict, NEW path, NEW mention
  PROVE  /\ Outcome(r, verdict, path, mention).pc = "report"
         /\ Outcome(r, verdict, path, mention).kind = r.kind
         /\ Outcome(r, verdict, path, mention).todo = r.todo
         /\ Outcome(r, verdict, path, mention).known = r.known
         /\ Outcome(r, verdict, path, mention).cur = r.cur
         /\ ~ Outcome(r, verdict, path, mention).leased
         /\ Outcome(r, verdict, path, mention).verdict = verdict
         /\ Outcome(r, verdict, path, mention).path = path
         /\ Outcome(r, verdict, path, mention).mention = mention
BY DEF Outcome, NoJob

LEMMA OutcomeRun ==
  ASSUME NoJob \in Run, NEW r \in Run, NEW verdict \in {"success", "skipped", "failed"},
         NEW path \in Name \cup {None}, NEW mention \in Name \cup {None}
  PROVE  Outcome(r, verdict, path, mention) \in Run
<1> DEFINE q1 == [NoJob EXCEPT !.pc = "report"]
           q2 == [q1 EXCEPT !.kind = r.kind]
           q3 == [q2 EXCEPT !.files = r.files]
           q4 == [q3 EXCEPT !.todo = r.todo]
           q5 == [q4 EXCEPT !.known = r.known]
           q6 == [q5 EXCEPT !.cur = r.cur]
           q7 == [q6 EXCEPT !.verdict = verdict]
           q8 == [q7 EXCEPT !.path = path]
<1>0. /\ r.kind \in {"auto", "redo"} /\ r.files \in SUBSET Source /\ r.todo \in SUBSET Source
      /\ r.known \in SUBSET [of : Source, path : Name] /\ r.cur \in Source \cup {None}
      /\ "report" \in PC
  BY DEF Run, PC
<1>1. q1 \in Run
  BY <1>0, RunWith
<1> HIDE DEF q1
<1>2. q2 \in Run
  BY <1>0, <1>1, RunWith
<1> HIDE DEF q2
<1>3. q3 \in Run
  BY <1>0, <1>2, RunWith
<1> HIDE DEF q3
<1>4. q4 \in Run
  BY <1>0, <1>3, RunWith
<1> HIDE DEF q4
<1>5. q5 \in Run
  BY <1>0, <1>4, RunWith
<1> HIDE DEF q5
<1>6. q6 \in Run
  BY <1>0, <1>5, RunWith
<1> HIDE DEF q6
<1>7. q7 \in Run
  BY <1>0, <1>6, RunWith
<1> HIDE DEF q7
<1>8. q8 \in Run
  BY <1>0, <1>7, RunWith
<1> HIDE DEF q8
<1>9. [q8 EXCEPT !.mention = mention] \in Run
  BY <1>8, RunWith
<1> QED
  BY <1>9 DEF Outcome, q1, q2, q3, q4, q5, q6, q7, q8

(* Results leave the job's keys, one file's or all, and its leases free. *)
LEMMA EndedType ==
  ASSUME TypeInv, NEW j \in Job, NEW r \in Run, NEW verdict \in {"success", "skipped", "failed"},
         NEW path \in Name \cup {None}, NEW mention \in Name \cup {None},
         Ended(j, r, verdict, path, mention)
  PROVE  job' \in [Job -> Run] /\ keyed' \in [Source -> Job \cup {None}]
<1>1. Outcome(r, verdict, path, mention) \in Run
  BY AtWork, OutcomeRun
<1>2. job \in [Job -> Run] /\ keyed \in [Source -> Job \cup {None}]
  BY DEF TypeInv, TypeOK
<1> QED
  BY <1>1, <1>2 DEF Ended, Set

LEMMA FreedType ==
  ASSUME NEW j \in Job, NEW S, NEW f \in [S -> Job \cup {None}]
  PROVE  Freed(j, f) \in [S -> Job \cup {None}]
BY DEF Freed

LEMMA SetType ==
  ASSUME TypeOK, NEW j \in Job, NEW r \in Run, Set(j, r)
  PROVE  job' \in [Job -> Run]
BY DEF TypeOK, Set

LEMMA FilesTyped ==
  ASSUME TypeInv, [Next]_vars
  PROVE  fs' \in [Name -> File \cup {None}]
<1> USE Constants, Names, WithoutType
<1>0. TypeOK /\ fs \in [Name -> File \cup {None}]
  BY DEF TypeInv, TypeOK
<1>1. ASSUME NEW j \in Job, Transfer(j) PROVE fs' \in [Name -> File \cup {None}]
  <2> DEFINE target == IF cfg.placed THEN Unique("mapped", job[j].cur) ELSE <<"mapped", job[j].cur, 1>>
  <2>1. fs[Src(job[j].cur)] # None /\ job[j].cur \in Source
    BY <1>1, AtWork DEF Transfer, Busy
  <2>2. \A b \in BOOLEAN : [fs[Src(job[j].cur)] EXCEPT !.seed = b] \in File
    BY <1>0, <2>1 DEF File
  <2>3. \/ UNCHANGED fs
        \/ \E b \in BOOLEAN : fs' = [fs EXCEPT ![target] = [fs[Src(job[j].cur)] EXCEPT !.seed = b]]
        \/ fs' = Without(fs, {target})
    BY <1>1, Zenon DEF Transfer
  <2> HIDE DEF target
  <2>4. ASSUME NEW b \in BOOLEAN, fs' = [fs EXCEPT ![target] = [fs[Src(job[j].cur)] EXCEPT !.seed = b]]
        PROVE  fs' \in [Name -> File \cup {None}]
    <3>1. [fs[Src(job[j].cur)] EXCEPT !.seed = b] \in File
      BY <2>2
    <3> QED
      BY <1>0, <2>4, <3>1
  <2> QED
    BY <1>0, <2>3, <2>4
<1>2. ASSUME NEW j \in Job, Tag(j) PROVE fs' \in [Name -> File \cup {None}]
  <2>1. job[j].work \in Name
    BY <1>2, AtWork DEF Tag, Placing
  <2>2. \/ UNCHANGED fs
        \/ fs' = Without(fs, RolledBack(job[j]))
        \/ fs[job[j].work] # None
           /\ \/ fs' = Written(job[j].work)
              \/ fs' = Without(Written(job[j].work), RolledBack(job[j]))
    BY <1>2 DEF Tag, Without
  <2> QED
    BY <1>0, <2>1, <2>2, WrittenSame
<1>3. ASSUME NEW j \in Job, Move(j) PROVE fs' \in [Name -> File \cup {None}]
  <2>1. job[j].work \in Name /\ job[j].aim \in Name
    BY <1>3, AtWork DEF Move, Placing
  <2>2. fs[job[j].work] # None => [fs[job[j].work] EXCEPT !.leased = job[j].leased] \in File
    BY <1>0, <2>1, AtWork DEF File, Run
  <2>3. \/ fs[job[j].work] # None
           /\ fs' = [fs EXCEPT ![job[j].aim] = [fs[job[j].work] EXCEPT !.leased = job[j].leased],
                               ![job[j].work] = None]
        \/ \E names : fs' = Without(fs, names)
    BY <1>3 DEF Move
  <2> QED
    BY <1>0, <2>1, <2>2, <2>3
<1>4. ASSUME NEW j \in Job, NEW s \in Source, Prepare(j, s) PROVE fs' \in [Name -> File \cup {None}]
  BY <1>0, <1>4 DEF Prepare
<1>5. ASSUME NEW i \in Id, NEW mode, DeleteRecord(i, mode) PROVE fs' \in [Name -> File \cup {None}]
  BY <1>0, <1>5 DEF DeleteRecord
<1>6. ASSUME NEW j \in Job, NEW s \in Source, Submit(j, s) \/ Begin(j, s)
      PROVE  fs' = fs
  BY <1>6 DEF Submit, Begin
<1>7. ASSUME NEW j \in Job,
             \/ Enqueue(j) \/ Claim(j) \/ Lease(j) \/ Skip(j) \/ Vanished(j) \/ Aim(j) \/ Report(j)
      PROVE  fs' = fs
  BY <1>7 DEF Enqueue, Claim, Lease, Skip, Vanished, Aim, Report
<1>8. CASE Crash \/ UNCHANGED vars
  BY <1>0, <1>8 DEF Crash, vars
<1>9. ASSUME NEW j \in Job, NEW files \in SUBSET Source, Redo(j, files)
      PROVE  fs' = fs
  BY <1>9 DEF Redo
<1> QED
  BY <1>0, <1>1, <1>2, <1>3, <1>4, <1>5, <1>6, <1>7, <1>8, <1>9 DEF Next, Works, Organizes

LEMMA JobsTyped ==
  ASSUME TypeInv, [Next]_vars
  PROVE  job' \in [Job -> Run] /\ keyed' \in [Source -> Job \cup {None}]
<1> DEFINE Goal == job' \in [Job -> Run] /\ keyed' \in [Source -> Job \cup {None}]
<1>a. \A j \in Job : job[j] \in Run /\ NoJob \in Run
  BY AtWork
<1>0. /\ TypeOK /\ job \in [Job -> Run] /\ keyed \in [Source -> Job \cup {None}]
      /\ fs \in [Name -> File \cup {None}]
  BY DEF TypeInv, TypeOK
<1>1. ASSUME NEW j \in Job, NEW s \in Source, Submit(j, s) PROVE Goal
  <2>1. [NoJob EXCEPT !.pc = "queued", !.files = {s}, !.todo = {s}] \in Run
    <3>1. NoJob \in Run /\ "queued" \in PC
      BY AtWork DEF PC
    <3> QED
      BY <3>1 DEF Run
  <2> QED
    BY <1>0, <1>1, <2>1, SetType DEF Submit
<1>2. ASSUME NEW j \in Job, NEW files \in SUBSET Source, Redo(j, files) PROVE Goal
  <2>1. [NoJob EXCEPT !.pc = "prepare", !.kind = "redo", !.files = files, !.todo = files] \in Run
    <3>1. NoJob \in Run /\ "prepare" \in PC
      BY AtWork DEF PC
    <3> QED
      BY <3>1 DEF Run
  <2> QED
    BY <1>0, <1>2, <2>1, SetType DEF Redo
<1>3. ASSUME NEW j \in Job, NEW s \in Source, Prepare(j, s) PROVE Goal
  <2> DEFINE names == UNION {Result(r) : r \in {rows[i] : i \in RowsOf(s)}}
  <2>1. names \subseteq Name
    BY <1>0 DEF Result, RowsOf, TypeOK, Row
  <2> HIDE DEF names
  <2>2. [job[j] EXCEPT !.todo = @ \ {s}, !.avoid = @ \cup names] \in Run
    <3>1. job[j].todo \ {s} \in SUBSET Source /\ job[j].avoid \cup names \in SUBSET Name
      BY <1>a, <2>1 DEF Run
    <3>2. [job[j] EXCEPT !.todo = job[j].todo \ {s}] \in Run
      BY <1>a, <3>1, RunWith
    <3>3. [[job[j] EXCEPT !.todo = job[j].todo \ {s}] EXCEPT !.avoid = job[j].avoid \cup names] \in Run
      BY <3>1, <3>2, RunWith
    <3> QED
      BY <3>3
  <2>3. Set(j, [job[j] EXCEPT !.todo = @ \ {s}, !.avoid = @ \cup names])
    BY <1>3 DEF Prepare, names
  <2> QED
    BY <1>0, <1>3, <2>2, <2>3, SetType DEF Prepare
<1>4. ASSUME NEW j \in Job, Enqueue(j) PROVE Goal
  <2>1. [job[j] EXCEPT !.pc = "queued", !.todo = job[j].files] \in Run
    <3>1. [job[j] EXCEPT !.pc = "queued"] \in Run /\ job[j].files \in SUBSET Source
      BY <1>a DEF Run, PC
    <3> QED
      BY <3>1, RunWith
  <2> QED
    BY <1>0, <1>4, <2>1, SetType DEF Enqueue
<1>5. ASSUME NEW j \in Job, Claim(j) PROVE Goal
  <2> DEFINE there == {s \in job[j].files : fs[Src(s)] # None}
  <2>1. there \in SUBSET Source
    BY <1>a DEF Run
  <2>2. ASSUME NEW seen \in {{}, Library}
        PROVE  Snapshot(seen, job[j].avoid) \in SUBSET [of : Source, path : Name]
    <3>1. \A r \in Past : r.source \in Source /\ r.path \in Name
      BY <1>0 DEF Past, TypeInv, Told, Says, TypeOK, Row
    <3>2. \A n \in seen : n \in Name /\ fs[n].of \in Source
      BY <1>0 DEF Library, File
    <3> QED
      BY <3>1, <3>2 DEF Snapshot
  <2>3. ASSUME NEW known \in SUBSET [of : Source, path : Name]
        PROVE  [job[j] EXCEPT !.pc = "next", !.todo = there, !.avoid = {}, !.known = known] \in Run
    <3>1. job[j] \in Run /\ "next" \in PC
      BY AtWork DEF PC
    <3> HIDE DEF there
    <3> QED
      BY <2>1, <3>1 DEF Run
  <2>4. \/ Set(j, NoJob)
        \/ \E known \in SUBSET [of : Source, path : Name] :
             Set(j, [job[j] EXCEPT !.pc = "next", !.todo = there, !.avoid = {}, !.known = known])
    BY <1>5, <2>2, Zenon DEF Claim
  <2>5. keyed' \in [Source -> Job \cup {None}]
    BY <1>0, <1>5, Zenon DEF Claim
  <2> QED
    BY <1>a, <1>0, <2>3, <2>4, <2>5, SetType
<1>6. ASSUME NEW j \in Job, NEW s \in Source, Begin(j, s) PROVE Goal
  <2>1. ASSUME NEW w \in BOOLEAN
        PROVE  [job[j] EXCEPT !.cur = s, !.writes = w] \in Run
    BY <1>a, ZenonT(60) DEF Run
  <2>2. PICK x \in Finding :
          LET r == [job[j] EXCEPT !.cur = s, !.writes = Metadata(x).writes]
          IN \/ /\ \E p \in Places[s] :
                     Set(j, [r EXCEPT !.place = IF cfg.placed THEN p ELSE None,
                                      !.pc = IF r.writes THEN "lease" ELSE "transfer"])
                /\ keyed' = [keyed EXCEPT ![s] = j]
             \/ Fails(j, r)
    BY <1>6, Zenon DEF Begin
  <2>3. Metadata(x).writes \in BOOLEAN
    BY DEF Metadata, Forced, Verified, Scraped, Settled
  <2> DEFINE r == [job[j] EXCEPT !.cur = s, !.writes = Metadata(x).writes]
  <2>4. r \in Run
    BY <2>1, <2>3
  <2> HIDE DEF r
  <2>5. ASSUME NEW p \in Places[s]
        PROVE  [r EXCEPT !.place = IF cfg.placed THEN p ELSE None,
                         !.pc = IF r.writes THEN "lease" ELSE "transfer"] \in Run
    <3>1. p \in Place /\ "lease" \in PC /\ "transfer" \in PC
      BY Constants DEF PC
    <3>2. [r EXCEPT !.place = IF cfg.placed THEN p ELSE None] \in Run
      BY <2>4, <3>1 DEF Run
    <3> DEFINE q == [r EXCEPT !.place = IF cfg.placed THEN p ELSE None]
    <3>3. (IF r.writes THEN "lease" ELSE "transfer") \in PC
      BY <3>1
    <3>4. q \in Run
      BY <3>2
    <3> HIDE DEF q
    <3>5. [q EXCEPT !.pc = IF r.writes THEN "lease" ELSE "transfer"] \in Run
      BY <3>3, <3>4, RunWith
    <3> QED
      BY <3>5 DEF q
  <2>6. CASE Fails(j, r)
    BY <2>4, <2>6, EndedType DEF Fails
  <2>7. ASSUME NEW p \in Places[s], keyed' = [keyed EXCEPT ![s] = j],
               Set(j, [r EXCEPT !.place = IF cfg.placed THEN p ELSE None,
                                !.pc = IF r.writes THEN "lease" ELSE "transfer"])
        PROVE  Goal
    BY <1>0, <2>5, <2>7, SetType
  <2> QED
    BY <2>2, <2>6, <2>7 DEF r
<1>7. ASSUME NEW j \in Job, Lease(j) PROVE Goal
  <2>1. [[job[j] EXCEPT !.leased = TRUE] EXCEPT !.pc = "transfer"] \in Run
    <3>1. [job[j] EXCEPT !.leased = TRUE] \in Run /\ "transfer" \in PC
      BY <1>a, RunWith DEF PC
    <3> QED
      BY <3>1, RunWith
  <2>2. CASE Fails(j, job[j])
    BY <1>a, <2>2, EndedType DEF Fails
  <2>3. CASE Goes(j, "transfer", [job[j] EXCEPT !.leased = TRUE])
    BY <1>0, <2>1, <2>3, SetType DEF Goes
  <2> QED
    BY <1>7, <2>2, <2>3 DEF Lease
<1>8. ASSUME NEW j \in Job, Skip(j) PROVE Goal
  <2>1. PICK x \in job[j].known : Ended(j, job[j], "skipped", None, IF fs[x.path] # None THEN x.path ELSE None)
    BY <1>8 DEF Skip, Duplicates
  <2>2. x.path \in Name
    BY AtWork DEF Run
  <2> QED
    BY <1>a, <2>1, <2>2, EndedType
<1>9. ASSUME NEW j \in Job, Vanished(j) PROVE Goal
  BY <1>a, <1>9, EndedType DEF Vanished, Fails
<1>10. ASSUME NEW j \in Job, Transfer(j) PROVE Goal
  <2> DEFINE target == IF cfg.placed THEN Unique("mapped", job[j].cur) ELSE <<"mapped", job[j].cur, 1>>
             made == IF fs[target] # None THEN "over" ELSE "new"
             With(w, m) == [job[j] EXCEPT !.over = Duplicates(j) # {}, !.work = w, !.made = m]
  <2>1. /\ job[j].pc = "transfer" /\ (Mapped /\ cfg.placed => Room("mapped", job[j].cur))
        /\ \/ ~ Mapped /\ Goes(j, "tag", With(Src(job[j].cur), "nothing"))
           \/ Mapped /\ Goes(j, "tag", With(target, "already"))
           \/ Mapped /\ Goes(j, "tag", With(target, made))
           \/ Fails(j, job[j])
    BY <1>10, Zenon DEF Transfer
  <2>2. Mapped => target \in Name
    BY <2>1, Target, Names
  <2>3. job[j].cur \in Source /\ Src(job[j].cur) \in Name
    BY <2>1, AtWork, Names DEF Busy
  <2>4. ASSUME NEW w \in Name, NEW m \in {"nothing", "already", "over", "new"}, Goes(j, "tag", With(w, m))
        PROVE  Goal
    <3>1. [job[j] EXCEPT !.over = Duplicates(j) # {}] \in Run
      BY <1>a, RunWith
    <3>2. [[job[j] EXCEPT !.over = Duplicates(j) # {}] EXCEPT !.work = w] \in Run
      BY <3>1, RunWith
    <3>3. With(w, m) \in Run
      BY <3>2, RunWith
    <3> HIDE DEF With
    <3>4. [With(w, m) EXCEPT !.pc = "tag"] \in Run
      BY <3>3, RunWith DEF PC
    <3> QED
      BY <1>0, <2>4, <3>4, SetType DEF Goes
  <2>5. CASE Fails(j, job[j])
    BY <1>a, <2>5, EndedType DEF Fails
  <2> HIDE DEF target, With
  <2>6. made \in {"nothing", "already", "over", "new"}
    OBVIOUS
  <2> HIDE DEF made
  <2> QED
    BY <2>1, <2>2, <2>3, <2>4, <2>5, <2>6
<1>11. ASSUME NEW j \in Job, Tag(j) PROVE Goal
  <2>1. [job[j] EXCEPT !.pc = "aim"] \in Run
    BY <1>a, RunWith DEF PC
  <2>2. CASE Goes(j, "aim", job[j])
    BY <1>0, <2>1, <2>2, SetType DEF Goes
  <2>3. CASE Fails(j, job[j])
    BY <1>a, <2>3, EndedType DEF Fails
  <2> QED
    BY <1>11, <2>2, <2>3 DEF Tag
<1>12. ASSUME NEW j \in Job, Aim(j) PROVE Goal
  <2>1. FinalName(job[j]) \in Name /\ job[j].work \in Name
    BY <1>12, Aimed, AtWork DEF Aim, Placing
  <2>2. \/ Ended(j, job[j], "success", job[j].work, None)
        \/ Goes(j, "move", [job[j] EXCEPT !.aim = FinalName(job[j])])
    BY <1>12 DEF Aim, FinalName, Overwrites
  <2>3. CASE Ended(j, job[j], "success", job[j].work, None)
    BY <1>a, <2>1, <2>3, EndedType
  <2>4. CASE Goes(j, "move", [job[j] EXCEPT !.aim = FinalName(job[j])])
    <3>1. [job[j] EXCEPT !.aim = FinalName(job[j])] \in Run
      BY <1>a, <2>1, RunWith
    <3>2. [[job[j] EXCEPT !.aim = FinalName(job[j])] EXCEPT !.pc = "move"] \in Run
      BY <3>1, RunWith DEF PC
    <3> QED
      BY <1>0, <2>4, <3>2, SetType DEF Goes
  <2> QED
    BY <2>2, <2>3, <2>4
<1>13. ASSUME NEW j \in Job, Move(j) PROVE Goal
  <2>1. job[j].aim \in Name
    BY <1>13, AtWork, Names DEF Move
  <2> QED
    BY <1>a, <1>13, <2>1, EndedType DEF Move, Fails
<1>14. ASSUME NEW j \in Job, Report(j) PROVE Goal
  <2>1. [NoJob EXCEPT !.pc = "next", !.kind = job[j].kind, !.files = job[j].files,
                      !.todo = job[j].todo \ {job[j].cur}, !.known = job[j].known] \in Run
    <3> DEFINE n == [NoJob EXCEPT !.pc = "next", !.kind = job[j].kind, !.files = job[j].files]
               o == [n EXCEPT !.todo = job[j].todo \ {job[j].cur}]
    <3>1. /\ job[j].kind \in {"auto", "redo"} /\ job[j].files \in SUBSET Source
          /\ job[j].todo \ {job[j].cur} \in SUBSET Source
          /\ job[j].known \in SUBSET [of : Source, path : Name] /\ "next" \in PC
      BY <1>a DEF Run, PC
    <3>2. n \in Run
      BY <1>a, <3>1, ZenonT(60) DEF Run
    <3> HIDE DEF n
    <3>3. o \in Run
      BY <3>1, <3>2, RunWith
    <3> HIDE DEF o
    <3>4. [o EXCEPT !.known = job[j].known] \in Run
      BY <3>1, <3>3 DEF Run
    <3> QED
      BY <3>4 DEF n, o
  <2>2. keyed' \in [Source -> Job \cup {None}]
    BY <1>0, <1>14, FreedType DEF Report, Released
  <2> QED
    BY <1>a, <1>0, <1>14, <2>1, <2>2, SetType DEF Report
<1>15. ASSUME NEW i \in Id, NEW mode, DeleteRecord(i, mode) PROVE Goal
  BY <1>0, <1>15 DEF DeleteRecord
<1>16. CASE Crash
  BY <1>a, <1>0, <1>16 DEF Crash
<1>17. CASE UNCHANGED vars
  BY <1>0, <1>17 DEF vars
<1>18. ASSUME NEW j \in Job, Works(j) PROVE Goal
  BY <1>3, <1>4, <1>5, <1>6, <1>7, <1>8, <1>9, <1>10, <1>11, <1>12, <1>13, <1>14, <1>18
  DEF Works, Organizes
<1> QED
  BY <1>1, <1>2, <1>15, <1>16, <1>17, <1>18 DEF Next

LEMMA Settings == ASSUME [Next]_vars PROVE cfg' = cfg /\ faults' = faults /\ (starts' = starts \/ Count)
<1>1. ASSUME NEW j \in Job, NEW s \in Source, Submit(j, s) \/ Begin(j, s) \/ Prepare(j, s)
      PROVE  cfg' = cfg /\ faults' = faults /\ (starts' = starts \/ Count)
  BY <1>1 DEF Submit, Begin, Prepare
<1>2. ASSUME NEW j \in Job, NEW files \in SUBSET Source, Redo(j, files)
      PROVE  cfg' = cfg /\ faults' = faults /\ (starts' = starts \/ Count)
  BY <1>2 DEF Redo
<1>3. ASSUME NEW j \in Job,
             \/ Enqueue(j) \/ Claim(j) \/ Lease(j) \/ Skip(j) \/ Vanished(j) \/ Transfer(j) \/ Tag(j)
             \/ Aim(j) \/ Move(j) \/ Report(j)
      PROVE  cfg' = cfg /\ faults' = faults /\ starts' = starts
  BY <1>3 DEF Enqueue, Claim, Lease, Skip, Vanished, Transfer, Tag, Aim, Move, Report
<1>4. ASSUME NEW i \in Id, NEW mode, DeleteRecord(i, mode)
      PROVE  cfg' = cfg /\ faults' = faults /\ (starts' = starts \/ Count)
  BY <1>4 DEF DeleteRecord
<1>5. CASE Crash \/ UNCHANGED vars
  BY <1>5 DEF Crash, vars
<1> QED
  BY <1>1, <1>2, <1>3, <1>4, <1>5 DEF Next, Works, Organizes

LEMMA RowsTyped ==
  ASSUME TypeInv, [Next]_vars
  PROVE  rows' \in [Id -> Row \cup {None}]
<1>0. rows \in [Id -> Row \cup {None}] /\ \A j \in Job : job[j] \in Run
  BY DEF TypeInv, TypeOK
<1>1. ASSUME NEW j \in Job, NEW s \in Source, Submit(j, s) \/ Begin(j, s) \/ Prepare(j, s)
      PROVE  rows' \in [Id -> Row \cup {None}]
  BY <1>0, <1>1 DEF Submit, Begin, Prepare
<1>2. ASSUME NEW j \in Job, NEW files \in SUBSET Source, Redo(j, files)
      PROVE  rows' = rows
  BY <1>2 DEF Redo
<1>3. ASSUME NEW j \in Job,
             \/ Enqueue(j) \/ Claim(j) \/ Lease(j) \/ Skip(j) \/ Vanished(j) \/ Transfer(j) \/ Tag(j)
             \/ Aim(j) \/ Move(j)
      PROVE  rows' = rows
  BY <1>3 DEF Enqueue, Claim, Lease, Skip, Vanished, Transfer, Tag, Aim, Move
<1>4. ASSUME NEW j \in Job, Report(j)
      PROVE  rows' \in [Id -> Row \cup {None}]
  <2>1. [source |-> job[j].cur, status |-> job[j].verdict, path |-> job[j].path,
         mention |-> job[j].mention] \in Row
    <3>1. job[j].cur \in Source
      BY <1>4, AtWork DEF Report
    <3>2. /\ job[j].verdict \in {"success", "skipped", "failed"}
          /\ job[j].path \in Name \cup {None} /\ job[j].mention \in Name \cup {None}
      BY <1>0 DEF Run
    <3> QED
      BY <3>1, <3>2 DEF Row
  <2>2. \/ \E i : rows' = [rows EXCEPT ![i] = [source |-> job[j].cur, status |-> job[j].verdict,
                                              path |-> job[j].path, mention |-> job[j].mention]]
        \/ UNCHANGED rows
    BY <1>4 DEF Report
  <2> QED
    BY <1>0, <2>1, <2>2
<1>5. ASSUME NEW i \in Id, NEW mode, DeleteRecord(i, mode)
      PROVE  rows' \in [Id -> Row \cup {None}]
  BY <1>0, <1>5 DEF DeleteRecord
<1>6. CASE Crash \/ UNCHANGED vars
  BY <1>0, <1>6 DEF Crash, vars
<1> QED
  BY <1>0, <1>1, <1>2, <1>3, <1>4, <1>5, <1>6 DEF Next, Works, Organizes

LEMMA LeasesTyped ==
  ASSUME TypeInv, [Next]_vars
  PROVE  lease' \in [{Album[s] : s \in Source} -> Job \cup {None}]
<1> DEFINE Albums == {Album[s] : s \in Source}
<1>0. lease \in [Albums -> Job \cup {None}]
  BY DEF TypeInv, TypeOK
<1>1. ASSUME NEW j \in Job, NEW s \in Source, Submit(j, s) \/ Begin(j, s) \/ Prepare(j, s)
      PROVE  lease' = lease
  BY <1>1 DEF Submit, Begin, Prepare
<1>2. ASSUME NEW j \in Job, NEW files \in SUBSET Source, Redo(j, files)
      PROVE  lease' = lease
  BY <1>2 DEF Redo
<1>3. ASSUME NEW j \in Job,
             \/ Enqueue(j) \/ Claim(j) \/ Skip(j) \/ Vanished(j) \/ Transfer(j) \/ Tag(j)
             \/ Aim(j) \/ Move(j)
      PROVE  lease' = lease
  BY <1>3 DEF Enqueue, Claim, Skip, Vanished, Transfer, Tag, Aim, Move
<1>4. ASSUME NEW j \in Job, Report(j) \/ Lease(j) PROVE lease' \in [Albums -> Job \cup {None}]
  <2>1. \/ lease' = [lease EXCEPT ![Album[job[j].cur]] = j]
        \/ lease' = Freed(j, lease) \/ lease' = lease
    BY <1>4 DEF Report, Lease, Released
  <2> QED
    BY <1>0, <2>1, FreedType
<1>5. ASSUME NEW i \in Id, NEW mode, DeleteRecord(i, mode) PROVE lease' = lease
  BY <1>5 DEF DeleteRecord
<1>6. CASE Crash \/ UNCHANGED vars
  BY <1>0, <1>6 DEF Crash, vars
<1> HIDE DEF Albums
<1>7. lease' \in [Albums -> Job \cup {None}]
  BY <1>0, <1>1, <1>2, <1>3, <1>4, <1>5, <1>6 DEF Next, Works, Organizes, Albums
<1> QED
  BY <1>7 DEF Albums

LEMMA TypesKept ==
  ASSUME TypeInv, [Next]_vars
  PROVE  TypeOK'
<1>1. PICK c \in Scope : cfg = c.cfg /\ faults = c.faults /\ starts \in 0..c.starts /\ c.starts \in Nat
  BY OrganizeAssumption DEF TypeInv, TypeOK
<1>2. cfg' = c.cfg /\ faults' = c.faults /\ starts' \in 0..c.starts
  BY <1>1, Settings DEF Count
<1> QED
  BY <1>2, FilesTyped, RowsTyped, JobsTyped, LeasesTyped DEF TypeOK

-----------------------------------------------------------------------------
(* What steps do to jobs *)

Others(j) == \A k \in Job \ {j} : job'[k] = job[k]

(* What a job keeps while it works on a file. *)
Kept(j) ==
  /\ job'[j].kind = job[j].kind /\ job'[j].todo = job[j].todo /\ job'[j].known = job[j].known
  /\ job'[j].verdict = job[j].verdict /\ job'[j].path = job[j].path
  /\ job'[j].mention = job[j].mention

(* The file s has its result. *)
Reported(j, s, verdict, path, mention) ==
  /\ job'[j].pc = "report" /\ job'[j].kind = job[j].kind /\ job'[j].todo = job[j].todo
  /\ job'[j].known = job[j].known /\ job'[j].cur = s /\ ~ job'[j].leased
  /\ job'[j].verdict = verdict /\ job'[j].path = path /\ job'[j].mention = mention
  /\ keyed' = IF job[j].kind = "redo" THEN [keyed EXCEPT ![s] = None] ELSE keyed

(* It is at work on the file it was at work on, with or without the lease. *)
Continued(j) ==
  /\ Kept(j) /\ job'[j].cur = job[j].cur /\ job'[j].place = job[j].place
  /\ job'[j].writes = job[j].writes /\ keyed' = keyed

LEMMA EndedStep ==
  ASSUME TypeInv, NEW j \in Job, NEW r \in Run, NEW verdict \in {"success", "skipped", "failed"},
         NEW path \in Name \cup {None}, NEW mention \in Name \cup {None},
         Ended(j, r, verdict, path, mention),
         r.kind = job[j].kind, r.todo = job[j].todo, r.known = job[j].known
  PROVE  Others(j) /\ Reported(j, r.cur, verdict, path, mention)
<1>1. job \in [Job -> Run] /\ NoJob \in Run
  BY AtWork DEF TypeInv, TypeOK
<1>2. job'[j] = Outcome(r, verdict, path, mention) /\ Others(j)
  BY <1>1 DEF Ended, Set, Others
<1>3. keyed' = IF r.kind = "redo" THEN [keyed EXCEPT ![r.cur] = None] ELSE keyed
  BY DEF Ended
<1>4. /\ job'[j].pc = "report" /\ job'[j].kind = r.kind /\ job'[j].todo = r.todo
      /\ job'[j].known = r.known /\ job'[j].cur = r.cur /\ ~ job'[j].leased
      /\ job'[j].verdict = verdict /\ job'[j].path = path /\ job'[j].mention = mention
  BY <1>2, OutcomeFields
<1> QED
  BY <1>2, <1>3, <1>4 DEF Reported

LEMMA FailsStep ==
  ASSUME TypeInv, NEW j \in Job, Fails(j, job[j])
  PROVE  Others(j) /\ Reported(j, job[j].cur, "failed", None, None)
BY AtWork, EndedStep DEF Fails

LEMMA GoesStep ==
  ASSUME TypeInv, NEW j \in Job, NEW r \in Run, NEW pc \in PC, Goes(j, pc, r)
  PROVE  /\ Others(j) /\ keyed' = keyed
         /\ job'[j].pc = pc
         /\ job'[j].kind = r.kind /\ job'[j].todo = r.todo /\ job'[j].known = r.known
         /\ job'[j].verdict = r.verdict /\ job'[j].path = r.path /\ job'[j].mention = r.mention
         /\ job'[j].cur = r.cur /\ job'[j].place = r.place /\ job'[j].writes = r.writes
         /\ job'[j].leased = r.leased /\ job'[j].work = r.work /\ job'[j].made = r.made
         /\ job'[j].aim = r.aim /\ job'[j].over = r.over
<1>1. job \in [Job -> Run]
  BY DEF TypeInv, TypeOK
<1>2. job'[j] = [r EXCEPT !.pc = pc] /\ Others(j) /\ keyed' = keyed
  BY <1>1 DEF Goes, Set, Others
<1> QED
  BY <1>2 DEF Run

LEMMA BeginStep ==
  ASSUME TypeInv, NEW j \in Job, NEW s \in Source, Begin(j, s)
  PROVE  /\ Others(j) /\ job[j].pc = "next" /\ s \in job[j].todo
         /\ job[j].kind = "redo" => keyed[s] = None
         /\ \/ Reported(j, s, "failed", None, None)
            \/ /\ Kept(j) /\ job'[j].pc \in {"lease", "transfer"} /\ job'[j].cur = s
               /\ job'[j].leased = job[j].leased
               /\ cfg.placed => job'[j].place \in Places[s]
               /\ keyed' = [keyed EXCEPT ![s] = j]
<1>a. job \in [Job -> Run] /\ job[j] \in Run /\ NoJob \in Run
  BY AtWork DEF TypeInv, TypeOK
<1>1. PICK x \in Finding :
        LET r == [job[j] EXCEPT !.cur = s, !.writes = Metadata(x).writes]
        IN \/ /\ \E p \in Places[s] :
                   Set(j, [r EXCEPT !.place = IF cfg.placed THEN p ELSE None,
                                    !.pc = IF r.writes THEN "lease" ELSE "transfer"])
              /\ keyed' = [keyed EXCEPT ![s] = j]
           \/ Fails(j, r)
  BY Zenon DEF Begin
<1>2. Metadata(x).writes \in BOOLEAN
  BY DEF Metadata, Forced, Verified, Scraped, Settled
<1> DEFINE r == [job[j] EXCEPT !.cur = s, !.writes = Metadata(x).writes]
<1>3. /\ r \in Run /\ r.cur = s /\ r.kind = job[j].kind /\ r.todo = job[j].todo
      /\ r.known = job[j].known /\ r.verdict = job[j].verdict /\ r.path = job[j].path
      /\ r.mention = job[j].mention /\ r.leased = job[j].leased
  <2>1. r \in Run
    BY <1>a, <1>2 DEF Run
  <2> QED
    BY <1>a, <2>1 DEF Run
<1> HIDE DEF r
<1>4. CASE Fails(j, r)
  BY <1>3, <1>4, EndedStep DEF Fails, Begin
<1>5. ASSUME NEW p \in Places[s], keyed' = [keyed EXCEPT ![s] = j],
             Set(j, [r EXCEPT !.place = IF cfg.placed THEN p ELSE None,
                              !.pc = IF r.writes THEN "lease" ELSE "transfer"])
      PROVE  /\ Others(j) /\ Kept(j) /\ job'[j].pc \in {"lease", "transfer"} /\ job'[j].cur = s
             /\ job'[j].leased = job[j].leased /\ (cfg.placed => job'[j].place \in Places[s])
  <2>1. job'[j] = [r EXCEPT !.place = IF cfg.placed THEN p ELSE None,
                            !.pc = IF r.writes THEN "lease" ELSE "transfer"] /\ Others(j)
    BY <1>a, <1>5 DEF Set, Others
  <2>2. /\ job'[j].kind = r.kind /\ job'[j].todo = r.todo /\ job'[j].known = r.known
        /\ job'[j].verdict = r.verdict /\ job'[j].path = r.path /\ job'[j].mention = r.mention
        /\ job'[j].cur = r.cur /\ job'[j].leased = r.leased
    BY <1>3, <2>1 DEF Run
  <2>3. job'[j].place = (IF cfg.placed THEN p ELSE None)
    BY <1>3, <2>1 DEF Run
  <2>4. job'[j].pc = IF r.writes THEN "lease" ELSE "transfer"
    BY <1>3, <2>1 DEF Run
  <2> QED
    BY <1>3, <2>1, <2>2, <2>3, <2>4 DEF Kept
<1>6. job[j].pc = "next" /\ s \in job[j].todo /\ (job[j].kind = "redo" => keyed[s] = None)
  BY DEF Begin
<1> QED
  BY <1>1, <1>4, <1>5, <1>6 DEF r

LEMMA LeaseStep ==
  ASSUME TypeInv, NEW j \in Job, Lease(j)
  PROVE  /\ Others(j) /\ job[j].pc = "lease" /\ lease[Album[job[j].cur]] = None
         /\ \/ /\ Continued(j) /\ job'[j].pc = "transfer"
               /\ lease' = [lease EXCEPT ![Album[job[j].cur]] = j]
            \/ Reported(j, job[j].cur, "failed", None, None) /\ lease' = lease
<1>a. job[j] \in Run
  BY AtWork
<1> DEFINE r == [job[j] EXCEPT !.leased = TRUE]
<1>1. /\ r \in Run /\ r.cur = job[j].cur /\ r.kind = job[j].kind /\ r.todo = job[j].todo
      /\ r.known = job[j].known /\ r.verdict = job[j].verdict /\ r.path = job[j].path
      /\ r.mention = job[j].mention /\ r.place = job[j].place /\ r.writes = job[j].writes
  <2>1. r \in Run
    BY <1>a, RunWith
  <2> QED
    BY <1>a, <2>1 DEF Run
<1>2. /\ job[j].pc = "lease" /\ lease[Album[job[j].cur]] = None
      /\ \/ Goes(j, "transfer", r) /\ lease' = [lease EXCEPT ![Album[job[j].cur]] = j]
         \/ Fails(j, job[j]) /\ lease' = lease
  BY DEF Lease
<1> HIDE DEF r
<1>3. CASE Fails(j, job[j]) /\ lease' = lease
  BY <1>2, <1>3, FailsStep
<1>4. CASE Goes(j, "transfer", r) /\ lease' = [lease EXCEPT ![Album[job[j].cur]] = j]
  <2>1. /\ Others(j) /\ keyed' = keyed /\ job'[j].pc = "transfer"
        /\ job'[j].kind = r.kind /\ job'[j].todo = r.todo /\ job'[j].known = r.known
        /\ job'[j].verdict = r.verdict /\ job'[j].path = r.path /\ job'[j].mention = r.mention
        /\ job'[j].cur = r.cur /\ job'[j].place = r.place /\ job'[j].writes = r.writes
    <3>1. "transfer" \in PC
      BY DEF PC
    <3> QED
      BY <1>1, <1>4, <3>1, GoesStep
  <2> QED
    BY <1>1, <1>2, <1>4, <2>1 DEF Continued, Kept
<1> QED
  BY <1>2, <1>3, <1>4

LEMMA SkipStep ==
  ASSUME TypeInv, NEW j \in Job, Skip(j) \/ Vanished(j)
  PROVE  /\ Others(j) /\ job[j].pc = "transfer"
         /\ \E m \in {x.path : x \in job[j].known} \cup {None}, v \in {"skipped", "failed"} :
              Reported(j, job[j].cur, v, None, m)
<1>1. CASE Vanished(j)
  BY <1>1, FailsStep DEF Vanished
<1>2. CASE Skip(j)
  <2>1. PICK x \in job[j].known : Ended(j, job[j], "skipped", None, IF fs[x.path] # None THEN x.path ELSE None)
    BY <1>2 DEF Skip, Duplicates
  <2>2. x.path \in Name /\ job[j] \in Run
    BY AtWork DEF Run
  <2> DEFINE m == IF fs[x.path] # None THEN x.path ELSE None
  <2>3. m \in Name \cup {None} /\ m \in {y.path : y \in job[j].known} \cup {None}
    BY <2>2
  <2>4. Ended(j, job[j], "skipped", None, m)
    BY <2>1
  <2> HIDE DEF m
  <2>5. Others(j) /\ Reported(j, job[j].cur, "skipped", None, m)
    BY <2>2, <2>3, <2>4, EndedStep
  <2> QED
    BY <1>2, <2>3, <2>5 DEF Skip
<1> QED
  BY <1>1, <1>2

LEMMA TransferStep ==
  ASSUME TypeInv, NEW j \in Job, Transfer(j)
  PROVE  /\ Others(j) /\ job[j].pc = "transfer" /\ job[j].cur \in Source
         /\ \/ Reported(j, job[j].cur, "failed", None, None)
            \/ /\ Continued(j) /\ job'[j].pc = "tag" /\ job'[j].leased = job[j].leased
               /\ IF Mapped
                  THEN /\ \E k \in 1..Numbers : job'[j].work = <<"mapped", job[j].cur, k>>
                       /\ cfg.placed => job'[j].made = "new" /\ fs[job'[j].work] = None
                  ELSE job'[j].work = Src(job[j].cur) /\ job'[j].made = "nothing"
<1>a. job[j] \in Run
  BY AtWork
<1> DEFINE target == IF cfg.placed THEN Unique("mapped", job[j].cur) ELSE <<"mapped", job[j].cur, 1>>
           made == IF fs[target] # None THEN "over" ELSE "new"
           With(w, m) == [job[j] EXCEPT !.over = Duplicates(j) # {}, !.work = w, !.made = m]
<1>1. /\ job[j].pc = "transfer" /\ (Mapped /\ cfg.placed => Room("mapped", job[j].cur))
      /\ \/ ~ Mapped /\ Goes(j, "tag", With(Src(job[j].cur), "nothing"))
         \/ Mapped /\ SameFile(Src(job[j].cur), target) /\ Goes(j, "tag", With(target, "already"))
         \/ Mapped /\ Goes(j, "tag", With(target, made))
         \/ Fails(j, job[j])
  BY Zenon DEF Transfer
<1>2. job[j].cur \in Source /\ Src(job[j].cur) \in Name
  BY <1>1, AtWork, Names DEF Busy
<1>3. Mapped => /\ \E k \in 1..Numbers : target = <<"mapped", job[j].cur, k>>
                /\ target \in Name /\ (cfg.placed => fs[target] = None)
  BY <1>1, Target, Names
<1>4. ASSUME NEW w \in Name, NEW m \in {"nothing", "already", "over", "new"}, Goes(j, "tag", With(w, m))
      PROVE  /\ Others(j) /\ Continued(j) /\ job'[j].pc = "tag" /\ job'[j].leased = job[j].leased
             /\ job'[j].work = w /\ job'[j].made = m
  <2> DEFINE q == [job[j] EXCEPT !.over = Duplicates(j) # {}]
             o == [q EXCEPT !.work = w]
  <2>1. /\ q \in Run /\ q.cur = job[j].cur /\ q.kind = job[j].kind /\ q.todo = job[j].todo
        /\ q.known = job[j].known /\ q.verdict = job[j].verdict /\ q.path = job[j].path
        /\ q.mention = job[j].mention /\ q.place = job[j].place /\ q.writes = job[j].writes
        /\ q.leased = job[j].leased
    <3>1. q \in Run
      BY <1>a, RunWith
    <3> QED
      BY <1>a, <3>1 DEF Run
  <2> HIDE DEF q
  <2>2. /\ o \in Run /\ o.cur = q.cur /\ o.kind = q.kind /\ o.todo = q.todo
        /\ o.known = q.known /\ o.verdict = q.verdict /\ o.path = q.path
        /\ o.mention = q.mention /\ o.place = q.place /\ o.writes = q.writes
        /\ o.leased = q.leased /\ o.work = w
    <3>1. o \in Run
      BY <2>1, RunWith
    <3> QED
      BY <2>1, <3>1 DEF Run
  <2> HIDE DEF o
  <2>3. With(w, m) = [o EXCEPT !.made = m]
    BY DEF q, o
  <2> HIDE DEF With
  <2>4. /\ With(w, m) \in Run /\ With(w, m).cur = o.cur /\ With(w, m).kind = o.kind
        /\ With(w, m).todo = o.todo /\ With(w, m).known = o.known /\ With(w, m).verdict = o.verdict
        /\ With(w, m).path = o.path /\ With(w, m).mention = o.mention
        /\ With(w, m).place = o.place /\ With(w, m).writes = o.writes
        /\ With(w, m).leased = o.leased /\ With(w, m).work = o.work /\ With(w, m).made = m
    <3>1. With(w, m) \in Run
      <4>1. m \in {"nothing", "already", "over", "new"} /\ o \in Run
        BY <2>2
      <4>2. [o EXCEPT !.made = m] \in Run
        BY <4>1, RunWith
      <4> QED
        BY <2>3, <4>2
    <3> QED
      BY <2>2, <2>3, <3>1 DEF Run
  <2> DEFINE r == With(w, m)
  <2>5. Goes(j, "tag", r) /\ r \in Run
    BY <1>4, <2>4
  <2>6. r = With(w, m)
    OBVIOUS
  <2> HIDE DEF r
  <2>7. /\ Others(j) /\ keyed' = keyed /\ job'[j].pc = "tag"
        /\ job'[j].kind = r.kind /\ job'[j].todo = r.todo /\ job'[j].known = r.known
        /\ job'[j].verdict = r.verdict /\ job'[j].path = r.path /\ job'[j].mention = r.mention
        /\ job'[j].cur = r.cur /\ job'[j].place = r.place /\ job'[j].writes = r.writes
        /\ job'[j].leased = r.leased /\ job'[j].work = r.work /\ job'[j].made = r.made
    <3>1. "tag" \in PC
      BY DEF PC
    <3> QED
      BY <2>5, <3>1, GoesStep
  <2> QED
    BY <2>1, <2>2, <2>4, <2>6, <2>7 DEF Continued, Kept
<1>5. CASE Fails(j, job[j])
  BY <1>1, <1>2, <1>5, FailsStep
<1>6. Mapped /\ SameFile(Src(job[j].cur), target) => ~ cfg.placed
  BY <1>3 DEF SameFile
<1>7. made \in {"nothing", "already", "over", "new"} /\ (fs[target] = None => made = "new")
  OBVIOUS
<1> HIDE DEF target, With, made
<1>8. CASE ~ Mapped /\ Goes(j, "tag", With(Src(job[j].cur), "nothing"))
  BY <1>1, <1>2, <1>4, <1>8
<1>9. CASE Mapped /\ SameFile(Src(job[j].cur), target) /\ Goes(j, "tag", With(target, "already"))
  BY <1>1, <1>2, <1>3, <1>4, <1>6, <1>9
<1>10. CASE Mapped /\ Goes(j, "tag", With(target, made))
  BY <1>1, <1>2, <1>3, <1>4, <1>7, <1>10
<1> QED
  BY <1>1, <1>5, <1>8, <1>9, <1>10

LEMMA TagStep ==
  ASSUME TypeInv, NEW j \in Job, Tag(j)
  PROVE  /\ Others(j) /\ job[j].pc = "tag"
         /\ \/ Reported(j, job[j].cur, "failed", None, None)
            \/ /\ Continued(j) /\ job'[j].pc = "aim" /\ job'[j].leased = job[j].leased
               /\ job'[j].work = job[j].work /\ job'[j].made = job[j].made
<1>1. Goes(j, "aim", job[j]) \/ Fails(j, job[j])
  BY DEF Tag
<1>2. CASE Goes(j, "aim", job[j])
  BY <1>2, AtWork, GoesStep DEF Tag, Continued, Kept, PC
<1>3. CASE Fails(j, job[j])
  BY <1>3, FailsStep DEF Tag
<1> QED
  BY <1>1, <1>2, <1>3

LEMMA AimStep ==
  ASSUME TypeInv, NEW j \in Job, Aim(j)
  PROVE  /\ Others(j) /\ job[j].pc = "aim"
         /\ \/ /\ Reported(j, job[j].cur, "success", job[j].work, None)
               /\ job[j].work = FinalName(job[j]) \/ SameFile(job[j].work, FinalName(job[j]))
            \/ /\ Continued(j) /\ job'[j].pc = "move" /\ job'[j].leased = job[j].leased
               /\ job'[j].work = job[j].work /\ job'[j].made = job[j].made
               /\ job'[j].over = job[j].over
               /\ job'[j].aim = FinalName(job[j]) /\ job[j].work # FinalName(job[j])
<1>a. job[j] \in Run
  BY AtWork
<1> DEFINE final == FinalName(job[j])
<1>1. final \in Name /\ job[j].work \in Name
  BY Aimed, AtWork DEF Aim, Placing
<1>2. /\ job[j].pc = "aim"
      /\ \/ /\ Ended(j, job[j], "success", job[j].work, None)
            /\ job[j].work = final \/ SameFile(job[j].work, final)
         \/ Goes(j, "move", [job[j] EXCEPT !.aim = final]) /\ job[j].work # final
  BY DEF Aim, FinalName, Overwrites
<1> HIDE DEF final
<1>3. CASE Ended(j, job[j], "success", job[j].work, None)
  <2>1. Others(j) /\ Reported(j, job[j].cur, "success", job[j].work, None)
    BY <1>a, <1>1, <1>3, EndedStep
  <2>2. job[j].work = final \/ SameFile(job[j].work, final)
    <3>1. ~ Goes(j, "move", [job[j] EXCEPT !.aim = final])
      <4>1. job \in [Job -> Run]
        BY DEF TypeInv, TypeOK
      <4>2. [job[j] EXCEPT !.aim = final] \in Run
        BY <1>a, <1>1, RunWith
      <4> QED
        BY <2>1, <4>1, <4>2, GoesStep DEF Reported, PC
    <3> QED
      BY <1>2, <3>1
  <2> QED
    BY <1>2, <2>1, <2>2 DEF final
<1>4. CASE Goes(j, "move", [job[j] EXCEPT !.aim = final]) /\ job[j].work # final
  <2> DEFINE r == [job[j] EXCEPT !.aim = final]
  <2>1. r \in Run
    BY <1>a, <1>1, RunWith
  <2>2. /\ r.cur = job[j].cur /\ r.kind = job[j].kind /\ r.todo = job[j].todo
        /\ r.known = job[j].known /\ r.verdict = job[j].verdict /\ r.path = job[j].path
        /\ r.mention = job[j].mention /\ r.place = job[j].place /\ r.writes = job[j].writes
        /\ r.leased = job[j].leased /\ r.work = job[j].work /\ r.made = job[j].made
        /\ r.over = job[j].over /\ r.aim = final
    BY <1>a, <2>1 DEF Run
  <2>3. Goes(j, "move", r) /\ "move" \in PC
    BY <1>4 DEF PC
  <2> HIDE DEF r
  <2>4. /\ Others(j) /\ keyed' = keyed /\ job'[j].pc = "move"
        /\ job'[j].kind = r.kind /\ job'[j].todo = r.todo /\ job'[j].known = r.known
        /\ job'[j].verdict = r.verdict /\ job'[j].path = r.path /\ job'[j].mention = r.mention
        /\ job'[j].cur = r.cur /\ job'[j].place = r.place /\ job'[j].writes = r.writes
        /\ job'[j].leased = r.leased /\ job'[j].work = r.work /\ job'[j].made = r.made
        /\ job'[j].aim = r.aim /\ job'[j].over = r.over
    BY <2>1, <2>3, GoesStep
  <2> QED
    BY <1>2, <1>4, <2>2, <2>4 DEF Continued, Kept, final
<1> QED
  BY <1>2, <1>3, <1>4

LEMMA MoveStep ==
  ASSUME TypeInv, NEW j \in Job, Move(j)
  PROVE  /\ Others(j) /\ job[j].pc = "move"
         /\ \/ Reported(j, job[j].cur, "success", job[j].aim, None)
            \/ Reported(j, job[j].cur, "failed", None, None)
<1>1. job[j].aim \in Name /\ job[j] \in Run
  BY AtWork, Names DEF Move
<1> QED
  BY <1>1, EndedStep DEF Move, Fails

(* A job that has no file yet or no longer one. *)
Unbusy(j) ==
  /\ job'[j].pc \in {"idle", "prepare", "queued", "next"} /\ ~ job'[j].leased
  /\ job'[j].verdict = "failed" /\ job'[j].path = None /\ job'[j].mention = None

LEMMA ReportStep ==
  ASSUME TypeInv, NEW j \in Job, Report(j)
  PROVE  /\ Others(j) /\ Unbusy(j) /\ job[j].pc = "report"
         /\ lease' = Freed(j, lease)
         /\ \/ job'[j] = NoJob /\ keyed' = Freed(j, keyed)
            \/ /\ job'[j].pc = "next" /\ keyed' = keyed /\ job'[j].kind = job[j].kind
               /\ job'[j].todo \subseteq job[j].todo /\ job'[j].known = job[j].known
<1>1. job \in [Job -> Run]
  BY DEF TypeInv, TypeOK
<1> DEFINE n == [NoJob EXCEPT !.pc = "next", !.kind = job[j].kind, !.files = job[j].files,
                              !.todo = job[j].todo \ {job[j].cur}, !.known = job[j].known]
<1>2. /\ n.pc = "next" /\ ~ n.leased /\ n.verdict = "failed" /\ n.path = None /\ n.mention = None
      /\ n.kind = job[j].kind /\ n.todo = job[j].todo \ {job[j].cur} /\ n.known = job[j].known
  BY DEF NoJob
<1>3. /\ job[j].pc = "report" /\ lease' = Freed(j, lease)
      /\ \/ Set(j, NoJob) /\ keyed' = Freed(j, keyed)
         \/ Set(j, n) /\ keyed' = keyed
  BY DEF Report, Released
<1> HIDE DEF n
<1>4. CASE Set(j, NoJob) /\ keyed' = Freed(j, keyed)
  BY <1>1, <1>3, <1>4 DEF Set, Others, Unbusy, NoJob
<1>5. CASE Set(j, n) /\ keyed' = keyed
  BY <1>1, <1>2, <1>3, <1>5 DEF Set, Others, Unbusy
<1> QED
  BY <1>3, <1>4, <1>5

(* Requests, their preparation and the start of tasks. *)
Asks(j) ==
  \/ \E s \in Source : Submit(j, s) \/ Prepare(j, s)
  \/ \E files \in SUBSET Source : Redo(j, files)
  \/ Enqueue(j) \/ Claim(j)

LEMMA AsksStep ==
  ASSUME TypeInv, NEW j \in Job, Asks(j)
  PROVE  /\ Others(j) /\ lease' = lease
         /\ job'[j].pc \in {"idle", "prepare", "queued", "next"} /\ ~ job'[j].leased
         /\ \/ /\ job'[j].verdict = job[j].verdict /\ job'[j].path = job[j].path
               /\ job'[j].mention = job[j].mention
            \/ job'[j].verdict = "failed" /\ job'[j].path = None /\ job'[j].mention = None
         /\ \/ job'[j].known \in {{}, job[j].known}
            \/ \E seen \in {{}, Library} : job'[j].known = Snapshot(seen, job[j].avoid)
         /\ job'[j].pc = "next" /\ job'[j].kind = "auto"
              => \A s \in job'[j].todo : keyed'[s] = j
         /\ \A s \in Source : keyed'[s] = keyed[s] \/ (keyed[s] = None /\ keyed'[s] = j)
<1>a. job \in [Job -> Run] /\ job[j] \in Run /\ keyed \in [Source -> Job \cup {None}]
  BY AtWork DEF TypeInv, TypeOK
<1>b. job[j].pc \in {"prepare", "queued"} => ~ job[j].leased
  BY DEF TypeInv, Leased, Placing
<1>1. ASSUME NEW s \in Source, Submit(j, s)
      PROVE  job'[j] = [NoJob EXCEPT !.pc = "queued", !.files = {s}, !.todo = {s}]
             /\ Others(j) /\ keyed' = keyed /\ lease' = lease
  BY <1>a, <1>1 DEF Submit, Set, Others
<1>2. ASSUME NEW files \in SUBSET Source, Redo(j, files)
      PROVE  job'[j] = [NoJob EXCEPT !.pc = "prepare", !.kind = "redo", !.files = files, !.todo = files]
             /\ Others(j) /\ keyed' = keyed /\ lease' = lease
  BY <1>a, <1>2 DEF Redo, Set, Others
<1>3. ASSUME NEW s \in Source, Prepare(j, s)
      PROVE  /\ \E todo, avoid : job'[j] = [job[j] EXCEPT !.todo = todo, !.avoid = avoid]
             /\ job[j].pc = "prepare" /\ Others(j) /\ keyed' = keyed /\ lease' = lease
  BY <1>a, <1>3 DEF Prepare, Set, Others
<1>4. ASSUME Enqueue(j)
      PROVE  /\ job'[j] = [job[j] EXCEPT !.pc = "queued", !.todo = job[j].files]
             /\ job[j].pc = "prepare" /\ Others(j) /\ keyed' = keyed /\ lease' = lease
  BY <1>a, <1>4 DEF Enqueue, Set, Others
<1>5. CASE Claim(j)
  <2> DEFINE there == {s \in job[j].files : fs[Src(s)] # None}
             Started(known) == [job[j] EXCEPT !.pc = "next", !.todo = there, !.avoid = {}, !.known = known]
  <2>1. /\ job[j].pc = "queued" /\ lease' = lease
        /\ \/ /\ job[j].kind = "auto" /\ \A s \in there : keyed[s] = None
              /\ keyed' = [s \in Source |-> IF s \in there THEN j ELSE keyed[s]]
           \/ job[j].kind = "redo" /\ keyed' = keyed
        /\ \E seen \in {{}, Library} :
             Set(j, IF there = {} THEN NoJob ELSE Started(Snapshot(seen, job[j].avoid)))
    BY <1>5, Zenon DEF Claim
  <2>2. there \in SUBSET Source
    BY <1>a DEF Run
  <2> HIDE DEF there
  <2>3. PICK seen \in {{}, Library} :
          Set(j, IF there = {} THEN NoJob ELSE Started(Snapshot(seen, job[j].avoid)))
    BY <2>1
  <2> DEFINE known == Snapshot(seen, job[j].avoid)
  <2> HIDE DEF known
  <2>4. \A s \in Source : keyed'[s] = keyed[s] \/ (keyed[s] = None /\ keyed'[s] = j)
    BY <1>a, <2>1, <2>2
  <2>5. Set(j, NoJob) \/ Set(j, Started(known))
    BY <2>3 DEF known
  <2>6. CASE Set(j, NoJob)
    BY <1>a, <2>1, <2>4, <2>6 DEF Set, Others, NoJob
  <2>7. CASE Set(j, Started(known))
    <3>1. job'[j] = Started(known) /\ Others(j)
      BY <1>a, <2>7 DEF Set, Others
    <3>2. /\ Started(known).pc = "next" /\ Started(known).kind = job[j].kind
          /\ Started(known).todo = there /\ Started(known).known = known
          /\ Started(known).verdict = job[j].verdict /\ Started(known).path = job[j].path
          /\ Started(known).mention = job[j].mention /\ Started(known).leased = job[j].leased
      BY <1>a DEF Run
    <3> HIDE DEF Started
    <3>3. job[j].kind = "auto" => \A s \in there : keyed'[s] = j
      BY <2>1, <2>2
    <3>4. \E seen1 \in {{}, Library} : job'[j].known = Snapshot(seen1, job[j].avoid)
      BY <3>1, <3>2 DEF known
    <3> QED
      BY <1>b, <2>1, <2>4, <3>1, <3>2, <3>3, <3>4
  <2> QED
    BY <2>5, <2>6, <2>7
<1>6. ASSUME NEW s \in Source, Submit(j, s)
      PROVE  /\ job'[j].pc = "queued" /\ ~ job'[j].leased /\ job'[j].known = {}
             /\ job'[j].verdict = "failed" /\ job'[j].path = None /\ job'[j].mention = None
  BY <1>1, <1>6, ZenonT(60) DEF NoJob
<1>7. ASSUME NEW files \in SUBSET Source, Redo(j, files)
      PROVE  /\ job'[j].pc = "prepare" /\ ~ job'[j].leased /\ job'[j].known = {}
             /\ job'[j].verdict = "failed" /\ job'[j].path = None /\ job'[j].mention = None
  BY <1>2, <1>7, ZenonT(60) DEF NoJob
<1>8. ASSUME NEW s \in Source, Prepare(j, s)
      PROVE  /\ job'[j].pc = "prepare" /\ ~ job'[j].leased /\ job'[j].known = job[j].known
             /\ job'[j].verdict = job[j].verdict /\ job'[j].path = job[j].path
             /\ job'[j].mention = job[j].mention
  BY <1>a, <1>b, <1>3, <1>8 DEF Run
<1>9. ASSUME Enqueue(j)
      PROVE  /\ job'[j].pc = "queued" /\ ~ job'[j].leased /\ job'[j].known = job[j].known
             /\ job'[j].verdict = job[j].verdict /\ job'[j].path = job[j].path
             /\ job'[j].mention = job[j].mention
  BY <1>a, <1>b, <1>4, <1>9 DEF Run
<1> QED
  BY <1>1, <1>2, <1>3, <1>4, <1>5, <1>6, <1>7, <1>8, <1>9 DEF Asks

-----------------------------------------------------------------------------
(* Keys, leases and places *)

(* A step of a request, of a job, of a user or of the process. *)
LEMMA Cases ==
  ASSUME [Next]_vars
  PROVE  \/ \E j \in Job : \/ Asks(j) \/ (\E s \in Source : Begin(j, s))
                           \/ Lease(j) \/ Skip(j) \/ Vanished(j)
                           \/ Transfer(j) \/ Tag(j) \/ Aim(j) \/ Move(j) \/ Report(j)
         \/ (\E i \in Id : \E mode \in {"record_only", "media_file", "all"} : DeleteRecord(i, mode))
         \/ Crash \/ UNCHANGED vars
BY DEF Next, Works, Organizes, Asks

(* The steps of a job that is at work on a file, for its key. *)
Advances(j) ==
  Others(j) /\ job[j].pc \in Busy
  /\ \/ \E v, p, m : Reported(j, job[j].cur, v, p, m)
     \/ Continued(j) /\ job'[j].pc \in Busy

LEMMA AtWorkStep ==
  ASSUME TypeInv, NEW j \in Job,
         Lease(j) \/ Skip(j) \/ Vanished(j) \/ Transfer(j) \/ Tag(j) \/ Aim(j) \/ Move(j)
  PROVE  Advances(j)
<1>1. CASE Lease(j)
  BY <1>1, LeaseStep DEF Advances, Busy
<1>2. CASE Skip(j) \/ Vanished(j)
  BY <1>2, SkipStep DEF Advances, Busy
<1>3. CASE Transfer(j)
  BY <1>3, TransferStep DEF Advances, Busy
<1>4. CASE Tag(j)
  BY <1>4, TagStep DEF Advances, Busy
<1>5. CASE Aim(j)
  BY <1>5, AimStep DEF Advances, Busy
<1>6. CASE Move(j)
  BY <1>6, MoveStep DEF Advances, Busy
<1> QED
  BY <1>1, <1>2, <1>3, <1>4, <1>5, <1>6

LEMMA KeyedKept ==
  ASSUME TypeInv, [Next]_vars
  PROVE  \A k \in Job : Keyed(k)'
<1> SUFFICES ASSUME NEW k \in Job PROVE Keyed(k)'
  OBVIOUS
<1>0. /\ keyed \in [Source -> Job \cup {None}] /\ None \notin Job /\ Keyed(k) /\ cfg' = cfg
      /\ job[k] \in Run /\ job[k].todo \subseteq Source /\ job \in [Job -> Run]
      /\ job[k].kind \in {"auto", "redo"}
  <2>1. job[k] \in Run
    BY AtWork
  <2> QED
    BY <2>1, Constants, Settings DEF TypeInv, TypeOK, Run
<1> USE DEF Keyed, Busy
(* The keys of another job. *)
<1>1. ASSUME NEW j \in Job, j # k, Others(j),
             \A s \in Source : keyed'[s] = keyed[s] \/ keyed[s] = None \/ keyed[s] = j
      PROVE  Keyed(k)'
  <2>1. job'[k] = job[k]
    BY <1>1 DEF Others
  <2>2. \A s \in Source : keyed[s] = k => keyed'[s] = k
    BY <1>0, <1>1
  <2> QED
    BY <1>0, <2>1, <2>2
<1>2. ASSUME NEW j \in Job, Asks(j) PROVE Keyed(k)'
  <2>1. CASE j = k
    BY <1>2, <2>1, AsksStep
  <2>2. CASE j # k
    BY <1>0, <1>1, <1>2, <2>2, AsksStep
  <2> QED
    BY <2>1, <2>2
<1>3. ASSUME NEW j \in Job, NEW s \in Source, NEW v, NEW p, NEW m, Reported(j, s, v, p, m), Others(j),
             job[j].kind \in {"auto", "redo"}, job[j].kind = "redo" => keyed[s] \in {j, None},
             job[j].kind = "auto" => \A t \in job[j].todo : keyed[t] = j
      PROVE  Keyed(k)'
  <2>1. CASE j = k
    BY <1>3, <2>1 DEF Reported
  <2>2. CASE j # k
    <3>1. \A t \in Source : keyed'[t] = keyed[t] \/ keyed[t] = None \/ keyed[t] = j
      BY <1>0, <1>3 DEF Reported
    <3> QED
      BY <1>1, <1>3, <2>2, <3>1
  <2> QED
    BY <2>1, <2>2
<1>4. ASSUME NEW j \in Job, NEW s \in Source, Begin(j, s) PROVE Keyed(k)'
  <2>1. /\ job[j].kind \in {"auto", "redo"} /\ (job[j].kind = "redo" => keyed[s] = None)
        /\ job[j].kind = "auto" => \A t \in job[j].todo : keyed[t] = j
        /\ s \in job[j].todo /\ Others(j)
    BY <1>4, BeginStep, AtWork DEF TypeInv, Run
  <2>2. CASE Reported(j, s, "failed", None, None)
    BY <1>3, <2>1, <2>2
  <2>3. CASE /\ Kept(j) /\ job'[j].pc \in {"lease", "transfer"} /\ job'[j].cur = s
             /\ cfg.placed => job'[j].place \in Places[s]
             /\ keyed' = [keyed EXCEPT ![s] = j]
    <3>1. keyed[s] \in {j, None}
      BY <2>1
    <3>2. CASE j = k
      BY <1>0, <2>1, <2>3, <3>2 DEF Kept
    <3>3. CASE j # k
      BY <1>0, <1>1, <2>1, <2>3, <3>1, <3>3
    <3> QED
      BY <3>2, <3>3
  <2> QED
    BY <1>4, <2>2, <2>3, BeginStep
<1>5. ASSUME NEW j \in Job, Advances(j) PROVE Keyed(k)'
  <2>1. /\ job[j].kind \in {"auto", "redo"} /\ job[j].cur \in Source /\ keyed[job[j].cur] = j
        /\ job[j].kind = "auto" => \A t \in job[j].todo : keyed[t] = j
        /\ Others(j) /\ (cfg.placed => job[j].place \in Places[job[j].cur])
    BY <1>5, AtWork DEF TypeInv, Run, Advances
  <2>2. ASSUME NEW v, NEW p, NEW m, Reported(j, job[j].cur, v, p, m) PROVE Keyed(k)'
    BY <1>3, <2>1, <2>2
  <2>3. CASE Continued(j) /\ job'[j].pc \in Busy
    <3>1. CASE j = k
      BY <1>0, <2>1, <2>3, <3>1 DEF Continued, Kept
    <3>2. CASE j # k
      BY <1>1, <2>1, <2>3, <3>2 DEF Continued
    <3> QED
      BY <3>1, <3>2
  <2> QED
    BY <1>5, <2>2, <2>3 DEF Advances
<1>6. ASSUME NEW j \in Job, Report(j) PROVE Keyed(k)'
  <2>1. \A s \in Source : keyed'[s] = keyed[s] \/ keyed[s] = j
    BY <1>0, <1>6, ReportStep DEF Freed
  <2>2. CASE j = k
    <3>1. CASE job'[j] = NoJob
      BY <2>2, <3>1 DEF NoJob
    <3>2. CASE job'[j] # NoJob
      BY <1>0, <1>6, <2>2, <3>2, ReportStep
    <3> QED
      BY <3>1, <3>2
  <2>3. CASE j # k
    BY <1>1, <1>6, <2>1, <2>3, ReportStep
  <2> QED
    BY <2>2, <2>3
<1>7. ASSUME job' = job, keyed' = keyed PROVE Keyed(k)'
  BY <1>0, <1>7
<1>8. CASE Crash
  BY <1>8 DEF Crash, NoJob
<1>9. ASSUME NEW i \in Id, NEW mode, DeleteRecord(i, mode) PROVE Keyed(k)'
  BY <1>7, <1>9 DEF DeleteRecord
<1>10. CASE UNCHANGED vars
  BY <1>7, <1>10 DEF vars
<1> QED
  BY <1>2, <1>4, <1>5, <1>6, <1>8, <1>9, <1>10, Cases, AtWorkStep

(* Steps of other jobs take no lease that a job has. *)
LEMMA LeasedKept ==
  ASSUME TypeInv, [Next]_vars
  PROVE  \A k \in Job : Leased(k)'
<1> SUFFICES ASSUME NEW k \in Job PROVE Leased(k)'
  OBVIOUS
<1>0. /\ lease \in [{Album[s] : s \in Source} -> Job \cup {None}] /\ None \notin Job /\ Leased(k)
      /\ job[k].leased => job[k].cur \in Source
  <2>1. job[k].leased => job[k].pc \in Busy
    BY DEF TypeInv, Leased, Placing, Busy
  <2> QED
    BY <2>1, AtWork, Constants DEF TypeInv, TypeOK
<1> USE DEF Leased, Placing
<1>1. ASSUME NEW j \in Job, j # k, Others(j),
             \A s \in Source : \/ lease'[Album[s]] = lease[Album[s]]
                               \/ lease[Album[s]] \in {j, None}
      PROVE  Leased(k)'
  <2>1. job'[k] = job[k]
    BY <1>1 DEF Others
  <2>2. \A s \in Source : lease[Album[s]] = k => lease'[Album[s]] = k
    BY <1>0, <1>1
  <2> QED
    BY <1>0, <2>1, <2>2
<1>2. ASSUME NEW j \in Job, Asks(j) PROVE Leased(k)'
  <2>1. Others(j) /\ lease' = lease /\ ~ job'[j].leased
    BY <1>2, AsksStep
  <2> QED
    BY <1>1, <2>1
<1>3. ASSUME NEW j \in Job, Others(j), lease' = lease, ~ job'[j].leased PROVE Leased(k)'
  BY <1>1, <1>3
<1>4. ASSUME NEW j \in Job, NEW s \in Source, Begin(j, s) PROVE Leased(k)'
  <2>1. ~ job[j].leased
    BY <1>4, BeginStep DEF TypeInv
  <2>2. lease' = lease
    BY <1>4 DEF Begin
  <2> QED
    BY <1>3, <1>4, <2>1, <2>2, BeginStep DEF Reported
<1>5. ASSUME NEW j \in Job, Lease(j) PROVE Leased(k)'
  <2>1. job[j].cur \in Source /\ Others(j)
    BY <1>5, AtWork, LeaseStep DEF Busy
  <2>2. CASE Reported(j, job[j].cur, "failed", None, None) /\ lease' = lease
    BY <1>3, <2>1, <2>2 DEF Reported
  <2>3. CASE /\ Continued(j) /\ job'[j].pc = "transfer"
             /\ lease' = [lease EXCEPT ![Album[job[j].cur]] = j]
    <3>1. lease'[Album[job[j].cur]] = j
      BY <1>0, <2>1, <2>3
    <3>2. CASE j = k
      BY <2>3, <3>1, <3>2 DEF Continued
    <3>3. CASE j # k
      <4>1. lease[Album[job[j].cur]] = None
        BY <1>5, LeaseStep
      <4>2. \A s \in Source : lease'[Album[s]] = lease[Album[s]] \/ lease[Album[s]] = None
        BY <1>0, <2>1, <2>3, <4>1
      <4> QED
        BY <1>1, <2>1, <3>3, <4>2
    <3> QED
      BY <3>2, <3>3
  <2> QED
    BY <1>5, <2>2, <2>3, LeaseStep
(* A job keeps its lease while it goes on, and has no more of it in the end. *)
<1>6. ASSUME NEW j \in Job, Others(j), lease' = lease,
             \/ ~ job'[j].leased
             \/ /\ job'[j].leased = job[j].leased /\ job'[j].cur = job[j].cur
                /\ job'[j].pc \in Placing \cup {"transfer"}
      PROVE  Leased(k)'
  <2>1. CASE j = k
    BY <1>0, <1>6, <2>1
  <2>2. CASE j # k
    BY <1>1, <1>6, <2>2
  <2> QED
    BY <2>1, <2>2
<1>7. ASSUME NEW j \in Job, Skip(j) \/ Vanished(j) PROVE Leased(k)'
  <2>1. lease' = lease
    BY <1>7 DEF Skip, Vanished
  <2> QED
    BY <1>6, <1>7, <2>1, SkipStep DEF Reported
<1>8. ASSUME NEW j \in Job, Transfer(j) \/ Tag(j) \/ Aim(j) \/ Move(j) PROVE Leased(k)'
  <2>1. lease' = lease
    BY <1>8 DEF Transfer, Tag, Aim, Move
  <2>2. CASE Transfer(j)
    BY <1>6, <2>1, <2>2, TransferStep DEF Reported, Continued
  <2>3. CASE Tag(j)
    BY <1>6, <2>1, <2>3, TagStep DEF Reported, Continued
  <2>4. CASE Aim(j)
    BY <1>6, <2>1, <2>4, AimStep DEF Reported, Continued
  <2>5. CASE Move(j)
    BY <1>6, <2>1, <2>5, MoveStep DEF Reported
  <2> QED
    BY <1>8, <2>2, <2>3, <2>4, <2>5
<1>9. ASSUME NEW j \in Job, Report(j) PROVE Leased(k)'
  <2>1. Others(j) /\ ~ job'[j].leased /\ lease' = Freed(j, lease)
    BY <1>9, ReportStep DEF Unbusy
  <2>2. \A s \in Source : lease'[Album[s]] = lease[Album[s]] \/ lease[Album[s]] = j
    BY <1>0, <2>1 DEF Freed
  <2> QED
    BY <1>1, <2>1, <2>2
<1>10. CASE Crash
  BY <1>10 DEF Crash, NoJob
<1>11. ASSUME job' = job, lease' = lease PROVE Leased(k)'
  BY <1>0, <1>11
<1>12. ASSUME NEW i \in Id, NEW mode, DeleteRecord(i, mode) PROVE Leased(k)'
  BY <1>11, <1>12 DEF DeleteRecord
<1>13. CASE UNCHANGED vars
  BY <1>11, <1>13 DEF vars
<1> QED
  BY <1>2, <1>4, <1>5, <1>7, <1>8, <1>9, <1>10, <1>12, <1>13, Cases

-----------------------------------------------------------------------------
(* What steps do to files *)

Destination(j) ==
  IF cfg.placed THEN Unique("mapped", job[j].cur) ELSE <<"mapped", job[j].cur, 1>>

LEMMA TransferFiles ==
  ASSUME TypeInv, NEW j \in Job, Transfer(j)
  PROVE  /\ ~ Mapped => fs' = fs
         /\ Mapped =>
              /\ \E i \in 1..Numbers : Destination(j) = <<"mapped", job[j].cur, i>>
              /\ Destination(j) \in Elsewhere /\ (cfg.placed => fs[Destination(j)] = None)
              /\ \/ fs' = fs /\ ~ job[j].writes
                 \/ fs' = Without(fs, {Destination(j)}) /\ job'[j].pc = "report"
                 \/ \E b \in BOOLEAN :
                      /\ fs' = [fs EXCEPT ![Destination(j)] = [fs[Src(job[j].cur)] EXCEPT !.seed = b]]
                      /\ job[j].writes => ~ b
                      /\ fs[Src(job[j].cur)] # None /\ job'[j].work = Destination(j)
<1>1. job[j].pc = "transfer" /\ (Mapped /\ cfg.placed => Room("mapped", job[j].cur))
  BY DEF Transfer
<1>2. Mapped => /\ \E i \in 1..Numbers : Destination(j) = <<"mapped", job[j].cur, i>>
                /\ Destination(j) \in Elsewhere /\ (cfg.placed => fs[Destination(j)] = None)
  BY <1>1, Target DEF Destination
<1> DEFINE With(w, m) == [job[j] EXCEPT !.over = Duplicates(j) # {}, !.work = w, !.made = m]
           Filing(b) == fs' = [fs EXCEPT ![Destination(j)] = [fs[Src(job[j].cur)] EXCEPT !.seed = b]]
<1>3. /\ fs[Src(job[j].cur)] # None
      /\ \/ ~ Mapped /\ UNCHANGED fs
         \/ Mapped /\ LinkedFor(j) /\ UNCHANGED fs
         \/ /\ Mapped /\ \E m : Goes(j, "tag", With(Destination(j), m))
            /\ (LinkedFor(j) /\ Filing(TRUE)) \/ Filing(FALSE)
         \/ Mapped /\ Fails(j, job[j]) /\ fs' = Without(fs, {Destination(j)})
  BY Zenon DEF Transfer, Destination
<1>4. LinkedFor(j) => ~ job[j].writes
  BY DEF LinkedFor
<1>5. ASSUME NEW m, Goes(j, "tag", With(Destination(j), m)) PROVE job'[j].work = Destination(j)
  <2>1. job \in [Job -> Run] /\ job[j] \in Run
    BY AtWork DEF TypeInv, TypeOK
  <2>2. job'[j] = [With(Destination(j), m) EXCEPT !.pc = "tag"]
    BY <1>5, <2>1 DEF Goes, Set
  <2>3. With(Destination(j), m).work = Destination(j)
    BY <2>1 DEF Run
  <2>4. [With(Destination(j), m) EXCEPT !.pc = "tag"].work = Destination(j)
    BY <2>1 DEF Run
  <2> QED
    BY <2>2, <2>4
<1>6. Fails(j, job[j]) => job'[j].pc = "report"
  BY FailsStep DEF Reported
<1> HIDE DEF With
<1> QED
  BY <1>2, <1>3, <1>4, <1>5, <1>6

(* A file that is there was there, with the same data, or a transfer put   *)
(* it at a path of its source, or a move took it to its final name.        *)
Stays(n) ==
  fs[n] # None /\ fs'[n].of = fs[n].of /\ fs'[n].seed = fs[n].seed /\ fs'[n].leased = fs[n].leased
Comes(n, j) ==
  /\ Transfer(j) /\ Mapped /\ \E i \in 1..Numbers : n = <<"mapped", job[j].cur, i>>
  /\ fs[Src(job[j].cur)] # None /\ fs'[n].of = fs[Src(job[j].cur)].of
  /\ job[j].writes => ~ fs'[n].seed
Arrives(n, j) ==
  /\ Move(j) /\ n = job[j].aim /\ fs[job[j].work] # None
  /\ fs'[n].of = fs[job[j].work].of /\ fs'[n].leased = job[j].leased
  /\ job[j].work # n => fs'[job[j].work] = None

LEMMA WithoutStays ==
  ASSUME NEW names, NEW f, NEW n \in Name, fs' = Without(f, names), fs'[n] # None
  PROVE  fs'[n] = f[n]
BY DEF Without

LEMMA FilesStep ==
  ASSUME TypeInv, [Next]_vars, NEW n \in Name, fs'[n] # None
  PROVE  \/ Stays(n)
         \/ \E j \in Job : Comes(n, j) \/ Arrives(n, j)
<1>0. TypeOK /\ fs \in [Name -> File \cup {None}]
  BY DEF TypeInv, TypeOK
<1>1. ASSUME fs' = fs \/ \E names : fs' = Without(fs, names) PROVE Stays(n)
  BY <1>1, WithoutStays DEF Stays
<1>2. ASSUME NEW j \in Job, Transfer(j) PROVE Stays(n) \/ Comes(n, j)
  <2>1. CASE fs' = fs \/ fs' = Without(fs, {Destination(j)})
    BY <1>1, <2>1, WithoutStays DEF Stays
  <2>2. CASE /\ Mapped /\ \E i \in 1..Numbers : Destination(j) = <<"mapped", job[j].cur, i>>
             /\ Destination(j) \in Elsewhere
             /\ \E b \in BOOLEAN :
                      /\ fs' = [fs EXCEPT ![Destination(j)] = [fs[Src(job[j].cur)] EXCEPT !.seed = b]]
                      /\ job[j].writes => ~ b
                      /\ fs[Src(job[j].cur)] # None
    <3>1. PICK b \in BOOLEAN :
                 /\ fs' = [fs EXCEPT ![Destination(j)] = [fs[Src(job[j].cur)] EXCEPT !.seed = b]]
                 /\ job[j].writes => ~ b
                 /\ fs[Src(job[j].cur)] # None
      BY <2>2
    <3>2. CASE n # Destination(j)
      BY <1>0, <3>1, <3>2 DEF Stays
    <3>3. CASE n = Destination(j)
      <4>1. fs[Src(job[j].cur)] \in File
        <5>1. job[j].cur \in Source
          BY <1>2, TransferStep
        <5> QED
          BY <1>0, <3>1, <5>1, Names
      <4>2. fs'[n] = [fs[Src(job[j].cur)] EXCEPT !.seed = b]
        BY <1>0, <3>1, <3>3
      <4>3. fs'[n].of = fs[Src(job[j].cur)].of /\ fs'[n].seed = b
        BY <4>1, <4>2 DEF File
      <4> QED
        BY <1>2, <2>2, <3>1, <3>3, <4>3 DEF Comes
    <3> QED
      BY <3>2, <3>3
  <2> QED
    BY <1>2, <2>1, <2>2, TransferFiles
<1>3. ASSUME NEW j \in Job, Tag(j) PROVE Stays(n)
  <2>1. job[j].work \in Name
    BY <1>3, AtWork DEF Tag, Placing
  <2>2. \/ fs' = fs
        \/ fs' = Without(fs, RolledBack(job[j]))
        \/ fs[job[j].work] # None
           /\ \/ fs' = Written(job[j].work)
              \/ fs' = Without(Written(job[j].work), RolledBack(job[j]))
    BY <1>3 DEF Tag, Without
  <2>3. ASSUME fs[job[j].work] # None, fs'[n] = Written(job[j].work)[n] PROVE Stays(n)
    BY <1>0, <2>1, <2>3, WrittenSame DEF Stays
  <2> QED
    BY <1>0, <1>1, <2>2, <2>3, WithoutStays
<1>4. ASSUME NEW j \in Job, Move(j) PROVE Stays(n) \/ Arrives(n, j)
  <2>1. job[j].work \in Name /\ job[j].aim \in Name
    BY <1>4, AtWork, Names DEF Move, Placing
  <2>2. \/ /\ fs[job[j].work] # None
           /\ fs' = [fs EXCEPT ![job[j].aim] = [fs[job[j].work] EXCEPT !.leased = job[j].leased],
                               ![job[j].work] = None]
        \/ \E names : fs' = Without(fs, names)
    BY <1>4 DEF Move
  <2>3. CASE /\ fs[job[j].work] # None
             /\ fs' = [fs EXCEPT ![job[j].aim] = [fs[job[j].work] EXCEPT !.leased = job[j].leased],
                                 ![job[j].work] = None]
    <3>1. n # job[j].work
      BY <1>0, <2>1, <2>3
    <3>2. CASE n # job[j].aim
      BY <1>0, <2>1, <2>3, <3>1, <3>2 DEF Stays
    <3>3. CASE n = job[j].aim
      <4>1. fs[job[j].work] \in File
        BY <1>0, <2>1, <2>3
      <4>2. fs'[n] = [fs[job[j].work] EXCEPT !.leased = job[j].leased] /\ fs'[job[j].work] = None
        BY <1>0, <2>1, <2>3, <3>1, <3>3
      <4>3. fs'[n].of = fs[job[j].work].of /\ fs'[n].leased = job[j].leased
        BY <4>1, <4>2 DEF File
      <4> QED
        BY <1>4, <2>3, <3>3, <4>2, <4>3 DEF Arrives
    <3> QED
      BY <3>2, <3>3
  <2> QED
    BY <1>1, <2>2, <2>3
<1>5. ASSUME NEW j \in Job, NEW s \in Source, Submit(j, s) \/ Prepare(j, s) \/ Begin(j, s) PROVE Stays(n)
  BY <1>1, <1>5 DEF Submit, Prepare, Begin
<1>6. ASSUME NEW j \in Job, NEW files \in SUBSET Source, Redo(j, files) PROVE Stays(n)
  BY <1>1, <1>6 DEF Redo
<1>7. ASSUME NEW j \in Job,
             \/ Enqueue(j) \/ Claim(j) \/ Lease(j) \/ Skip(j) \/ Vanished(j) \/ Aim(j) \/ Report(j)
      PROVE  Stays(n)
  BY <1>1, <1>7 DEF Enqueue, Claim, Lease, Skip, Vanished, Aim, Report
<1>8. ASSUME NEW i \in Id, NEW mode, DeleteRecord(i, mode) PROVE Stays(n)
  BY <1>1, <1>8 DEF DeleteRecord
<1>9. CASE Crash \/ UNCHANGED vars
  BY <1>1, <1>9 DEF Crash, vars
<1> QED
  BY <1>2, <1>3, <1>4, <1>5, <1>6, <1>7, <1>8, <1>9 DEF Next, Works, Organizes

LEMMA FiledKept ==
  ASSUME TypeInv, [Next]_vars
  PROVE  \A k \in Job : Filed(k)'
<1> SUFFICES ASSUME NEW k \in Job PROVE Filed(k)'
  OBVIOUS
<1>0. cfg' = cfg /\ Mapped' = Mapped /\ Filed(k) /\ fs \in [Name -> File \cup {None}]
  BY Settings DEF Mapped, TypeInv, TypeOK
<1>1. ASSUME job'[k].pc \notin Placing PROVE Filed(k)'
  BY <1>1 DEF Filed, Placing
(* Only a transfer of the same source could put a hard link at the path,  *)
(* and the job has the key of the source.                                 *)
<1>2. ASSUME job[k].pc = "tag", job[k].writes, Mapped, fs'[job[k].work] # None
      PROVE  ~ fs'[job[k].work].seed
  <2> DEFINE n == job[k].work
  <2>1. job[k].cur \in Source /\ keyed[job[k].cur] = k /\ n \in Name
    BY <1>2, AtWork DEF TypeInv, Keyed, Busy, Placing
  <2>2. PICK i \in 1..Numbers : n = <<"mapped", job[k].cur, i>>
    BY <1>0, <1>2 DEF Filed, Placing
  <2>3. CASE Stays(n)
    BY <1>0, <1>2, <2>3 DEF Filed, Stays
  <2>4. ASSUME NEW j \in Job, Comes(n, j) PROVE FALSE
    <3>1. job[j].pc = "transfer" /\ job[j].cur \in Source /\ keyed[job[j].cur] = j
      BY <2>4, TransferStep DEF Comes, TypeInv, Keyed, Busy
    <3>2. PICK l \in 1..Numbers : n = <<"mapped", job[j].cur, l>>
      BY <2>4 DEF Comes
    <3>3. job[j].cur = job[k].cur
      BY <2>2, <3>2
    <3> QED
      BY <1>2, <2>1, <3>1, <3>3
  <2>5. ASSUME NEW j \in Job, Arrives(n, j) PROVE FALSE
    <3>1. job[j].pc = "move" /\ n = job[j].aim
      BY <2>5 DEF Arrives, Move
    <3>2. PICK l \in 1..Numbers : n = <<"final", job[j].place, l>>
      BY <3>1 DEF TypeInv, Filed
    <3> QED
      BY <2>2, <3>2
  <2>6. fs'[n] # None
    BY <1>2
  <2> HIDE DEF n
  <2>7. Stays(n)
    BY <2>1, <2>4, <2>5, <2>6, FilesStep
  <2> QED
    BY <2>3, <2>7 DEF n
<1>3. ASSUME job'[k] = job[k] PROVE Filed(k)'
  BY <1>0, <1>2, <1>3 DEF Filed
<1>4. ASSUME NEW j \in Job, Others(j), j # k PROVE Filed(k)'
  BY <1>3, <1>4 DEF Others
<1>5. ASSUME NEW j \in Job, Others(j), job'[j].pc \notin Placing PROVE Filed(k)'
  BY <1>1, <1>4, <1>5
<1>6. ASSUME NEW j \in Job,
             Asks(j) \/ (\E s \in Source : Begin(j, s)) \/ Lease(j) \/ Skip(j) \/ Vanished(j)
             \/ Move(j) \/ Report(j)
      PROVE  Filed(k)'
  <2>1. ASSUME Asks(j) PROVE Filed(k)'
    BY <1>5, <2>1, AsksStep DEF Placing
  <2>2. ASSUME NEW s \in Source, Begin(j, s) PROVE Filed(k)'
    BY <1>5, <2>2, BeginStep DEF Placing, Reported
  <2>3. ASSUME Lease(j) PROVE Filed(k)'
    BY <1>5, <2>3, LeaseStep DEF Placing, Reported
  <2>4. ASSUME Skip(j) \/ Vanished(j) PROVE Filed(k)'
    BY <1>5, <2>4, SkipStep DEF Placing, Reported
  <2>5. ASSUME Move(j) PROVE Filed(k)'
    BY <1>5, <2>5, MoveStep DEF Placing, Reported
  <2>6. ASSUME Report(j) PROVE Filed(k)'
    BY <1>5, <2>6, ReportStep DEF Placing, Unbusy
  <2> QED
    BY <1>6, <2>1, <2>2, <2>3, <2>4, <2>5, <2>6
<1>7. ASSUME NEW j \in Job, Transfer(j) PROVE Filed(k)'
  <2>1. CASE j # k \/ job'[j].pc # "tag"
    <3>1. Others(j) /\ job'[j].pc \in {"report", "tag"}
      BY <1>7, TransferStep DEF Reported
    <3> QED
      BY <1>4, <1>5, <2>1, <3>1 DEF Placing
  <2>2. CASE j = k /\ job'[j].pc = "tag"
    <3>1. /\ job'[k].writes = job[k].writes /\ job'[k].cur = job[k].cur /\ job[k].cur \in Source
          /\ IF Mapped
             THEN /\ \E i \in 1..Numbers : job'[k].work = <<"mapped", job[k].cur, i>>
                  /\ cfg.placed => job'[k].made = "new"
             ELSE job'[k].work = Src(job[k].cur) /\ job'[k].made = "nothing"
      BY <1>7, <2>2, TransferStep DEF Reported, Continued
    <3>2. ASSUME Mapped, job[k].writes PROVE ~ fs'[job'[k].work].seed
      <4>1. PICK b \in BOOLEAN :
              /\ fs' = [fs EXCEPT ![Destination(k)] = [fs[Src(job[k].cur)] EXCEPT !.seed = b]]
              /\ ~ b
              /\ fs[Src(job[k].cur)] # None /\ job'[k].work = Destination(k)
        BY <1>7, <2>2, <3>2, TransferFiles
      <4>2. Destination(k) \in Name
        BY <1>7, <2>2, <3>2, TransferFiles, Names
      <4>3. fs[Src(job[k].cur)] \in File
        BY <1>0, <3>1, <4>1, Names
      <4>4. fs'[job'[k].work] = [fs[Src(job[k].cur)] EXCEPT !.seed = b]
        BY <1>0, <4>1, <4>2
      <4> QED
        BY <4>1, <4>3, <4>4 DEF File
    <3> QED
      BY <1>0, <2>2, <3>1, <3>2 DEF Filed, Placing
  <2> QED
    BY <2>1, <2>2
<1>8. ASSUME NEW j \in Job, Tag(j) PROVE Filed(k)'
  <2>1. CASE j # k \/ job'[j].pc # "aim"
    <3>1. Others(j) /\ job'[j].pc \in {"report", "aim"}
      BY <1>8, TagStep DEF Reported
    <3> QED
      BY <1>4, <1>5, <2>1, <3>1 DEF Placing
  <2>2. CASE j = k /\ job'[j].pc = "aim"
    BY <1>0, <1>8, <2>2, TagStep DEF Reported, Continued, Filed, Placing
  <2> QED
    BY <2>1, <2>2
<1>9. ASSUME NEW j \in Job, Aim(j) PROVE Filed(k)'
  <2>1. CASE j # k \/ job'[j].pc # "move"
    <3>1. Others(j) /\ job'[j].pc \in {"report", "move"}
      BY <1>9, AimStep DEF Reported
    <3> QED
      BY <1>4, <1>5, <2>1, <3>1 DEF Placing
  <2>2. CASE j = k /\ job'[j].pc = "move"
    <3>1. /\ job'[k].cur = job[k].cur /\ job'[k].place = job[k].place /\ job[k].pc = "aim"
          /\ job'[k].work = job[k].work /\ job'[k].made = job[k].made
          /\ job'[k].aim = FinalName(job[k]) /\ job[k].work # FinalName(job[k])
      BY <1>9, <2>2, AimStep DEF Reported, Continued
    <3>2. cfg.placed
      BY <3>1 DEF FinalName
    <3>3. \E i \in 1..Numbers : FinalName(job[k]) = <<"final", job[k].place, i>>
      BY <1>9, <2>2, <3>1, <3>2, Aimed DEF Aim
    <3> QED
      BY <1>0, <2>2, <3>1, <3>2, <3>3 DEF Filed, Placing
  <2> QED
    BY <2>1, <2>2
<1>10. CASE Crash
  BY <1>1, <1>10 DEF Crash, NoJob, Placing
<1>11. ASSUME NEW i \in Id, NEW mode, DeleteRecord(i, mode) PROVE Filed(k)'
  BY <1>3, <1>11 DEF DeleteRecord
<1>12. CASE UNCHANGED vars
  BY <1>3, <1>12 DEF vars
<1> QED
  BY <1>6, <1>7, <1>8, <1>9, <1>10, <1>11, <1>12, Cases

(* No step puts a file at the path of a source. *)
LEMMA NoneNew ==
  ASSUME TypeInv, [Next]_vars, NEW n \in Name \ Elsewhere, fs'[n] # None
  PROVE  Stays(n)
<1>1. ASSUME NEW j \in Job, Comes(n, j) PROVE FALSE
  <2>1. job[j].cur \in Source
    BY <1>1, TransferStep DEF Comes
  <2> QED
    BY <1>1, <2>1, Names DEF Comes
<1>2. ASSUME NEW j \in Job, Arrives(n, j) PROVE FALSE
  BY <1>2, AtWork DEF Arrives, Move
<1> QED
  BY <1>1, <1>2, FilesStep

LEMMA SourcesHold ==
  ASSUME TypeInv, [Next]_vars
  PROVE  Sources'
<1>0. /\ Mapped' = Mapped /\ fs \in [Name -> File \cup {None}]
      /\ \A s \in Source : fs[Src(s)] # None => fs[Src(s)].of = s
      /\ ~ Mapped => \A n \in Elsewhere : fs[n] # None => fs[Src(fs[n].of)] = None
  BY Settings DEF Mapped, TypeInv, TypeOK, Sources
<1>a. \A s \in Source : Src(s) \in Name \ Elsewhere
  BY Names
<1>1. ASSUME NEW s \in Source, fs'[Src(s)] # None PROVE fs[Src(s)] # None /\ fs'[Src(s)].of = s
  <2>1. Stays(Src(s))
    BY <1>1, <1>a, NoneNew
  <2> QED
    BY <1>0, <2>1 DEF Stays
<1>2. ASSUME ~ Mapped, NEW n \in Elsewhere, fs'[n] # None PROVE fs'[Src(fs'[n].of)] = None
  <2>1. CASE Stays(n)
    <3>1. fs[n].of \in Source /\ fs'[n].of = fs[n].of /\ fs[Src(fs[n].of)] = None
      BY <1>0, <1>2, <2>1, Names DEF Stays, File
    <3> QED
      BY <1>1, <3>1
  <2>2. ASSUME NEW j \in Job, Arrives(n, j) PROVE fs'[Src(fs'[n].of)] = None
    <3>1. job[j].cur \in Source /\ job[j].pc \in Placing /\ job[j].pc = "move"
      BY <2>2, AtWork DEF Arrives, Move, Busy, Placing
    <3>2. job[j].work = Src(job[j].cur)
      BY <1>2, <3>1 DEF TypeInv, Filed
    <3>3. fs'[n].of = job[j].cur
      BY <1>0, <2>2, <3>1, <3>2 DEF Arrives
    <3>4. job[j].work # n
      BY <1>a, <3>1, <3>2
    <3> QED
      BY <2>2, <3>2, <3>3, <3>4 DEF Arrives
  <2>3. n \in Name
    BY Names
  <2> QED
    BY <1>2, <2>1, <2>2, <2>3, FilesStep DEF Comes
<1> QED
  BY <1>0, <1>1, <1>2 DEF Sources, Src

(* A row stays as it is, goes, or is what a job reports. *)
LEMMA RowsStep ==
  ASSUME TypeInv, [Next]_vars, NEW i \in Id, rows'[i] # None
  PROVE  \/ rows'[i] = rows[i]
         \/ \E j \in Job : /\ Report(j) /\ rows'[i].status = job[j].verdict
                           /\ rows'[i].path = job[j].path /\ rows'[i].mention = job[j].mention
<1>0. rows \in [Id -> Row \cup {None}]
  BY DEF TypeInv, TypeOK
<1>1. ASSUME NEW j \in Job, NEW s \in Source, Submit(j, s) \/ Begin(j, s) \/ Prepare(j, s)
      PROVE  rows'[i] = rows[i]
  BY <1>0, <1>1 DEF Submit, Begin, Prepare
<1>2. ASSUME NEW j \in Job, NEW files \in SUBSET Source, Redo(j, files)
      PROVE  rows' = rows
  BY <1>2 DEF Redo
<1>3. ASSUME NEW j \in Job,
             \/ Enqueue(j) \/ Claim(j) \/ Lease(j) \/ Skip(j) \/ Vanished(j) \/ Transfer(j) \/ Tag(j)
             \/ Aim(j) \/ Move(j)
      PROVE  rows' = rows
  BY <1>3 DEF Enqueue, Claim, Lease, Skip, Vanished, Transfer, Tag, Aim, Move
<1>4. ASSUME NEW j \in Job, Report(j)
      PROVE  \/ rows'[i] = rows[i]
             \/ /\ rows'[i].status = job[j].verdict
                /\ rows'[i].path = job[j].path /\ rows'[i].mention = job[j].mention
  <2>1. \/ \E k : rows' = [rows EXCEPT ![k] = [source |-> job[j].cur, status |-> job[j].verdict,
                                              path |-> job[j].path, mention |-> job[j].mention]]
        \/ UNCHANGED rows
    BY <1>4 DEF Report
  <2> QED
    BY <1>0, <2>1
<1>5. ASSUME NEW k \in Id, NEW mode, DeleteRecord(k, mode)
      PROVE  rows'[i] = rows[i]
  BY <1>0, <1>5 DEF DeleteRecord
<1>6. CASE Crash \/ UNCHANGED vars
  BY <1>6 DEF Crash, vars
<1> QED
  BY <1>1, <1>2, <1>3, <1>4, <1>5, <1>6 DEF Next, Works, Organizes

LEMMA ToldKept ==
  ASSUME TypeInv, [Next]_vars
  PROVE  Told'
<1> DEFINE Speaks(j) == /\ Says(job[j].verdict, job[j].path, job[j].mention)
                        /\ Mapped => \A x \in job[j].known : x.path \in Elsewhere
<1>0. /\ cfg' = cfg /\ Mapped' = Mapped /\ rows \in [Id -> Row \cup {None}]
      /\ \A j \in Job : Speaks(j)
      /\ \A i \in Id : rows[i] # None => Says(rows[i].status, rows[i].path, rows[i].mention)
  BY Settings DEF Mapped, TypeInv, TypeOK, Told
<1>1. ASSUME NEW i \in Id, rows'[i] # None
      PROVE  Says(rows'[i].status, rows'[i].path, rows'[i].mention)
  <2>1. CASE rows'[i] = rows[i]
    BY <1>0, <1>1, <2>1
  <2>2. ASSUME NEW j \in Job, rows'[i].status = job[j].verdict, rows'[i].path = job[j].path,
               rows'[i].mention = job[j].mention
        PROVE  Says(rows'[i].status, rows'[i].path, rows'[i].mention)
    BY <1>0, <2>2
  <2> QED
    BY <1>1, <2>1, <2>2, RowsStep
<1>2. Says("failed", None, None)
  BY DEF Says
(* What a job says and knows after a step. *)
<1> DEFINE Speaking(j) == Says(job'[j].verdict, job'[j].path, job'[j].mention)
           Knowing(j) == Mapped => \A x \in job'[j].known : x.path \in Elsewhere
<1>3. ASSUME NEW j \in Job, job'[j].known = job[j].known PROVE Knowing(j)
  BY <1>0, <1>3
<1>4. ASSUME NEW j \in Job, Asks(j) PROVE Speaking(j) /\ Knowing(j)
  <2>1. Speaking(j)
    BY <1>0, <1>2, <1>4, AsksStep
  <2>2. CASE job'[j].known \in {{}, job[j].known}
    BY <1>3, <2>1, <2>2
  <2>3. ASSUME NEW seen \in {{}, Library}, job'[j].known = Snapshot(seen, job[j].avoid)
        PROVE  Knowing(j)
    <3>1. ASSUME Mapped, NEW r \in Past PROVE r.path \in Elsewhere
      <4>1. PICK i \in Id : r = rows[i] /\ rows[i] # None /\ rows[i].status = "success"
        BY DEF Past
      <4> QED
        BY <1>0, <3>1, <4>1, Names DEF Says
    <3>2. ASSUME Mapped, NEW n \in seen PROVE n \in Elsewhere
      BY <3>2 DEF Library, Elsewhere
    <3> QED
      BY <2>3, <3>1, <3>2 DEF Snapshot
  <2> QED
    BY <1>4, <2>1, <2>2, <2>3, AsksStep
<1>5. ASSUME NEW j \in Job, Kept(j) PROVE Speaking(j) /\ Knowing(j)
  BY <1>0, <1>5 DEF Kept
<1>6. ASSUME NEW j \in Job, NEW s, NEW v, NEW p, NEW m, Reported(j, s, v, p, m), Says(v, p, m)
      PROVE  Speaking(j) /\ Knowing(j)
  BY <1>3, <1>6 DEF Reported
<1>7. ASSUME NEW j \in Job, NEW s \in Source, Begin(j, s) PROVE Speaking(j) /\ Knowing(j)
  BY <1>2, <1>5, <1>6, <1>7, BeginStep
<1>8. ASSUME NEW j \in Job, Lease(j) \/ Tag(j) \/ Transfer(j) PROVE Speaking(j) /\ Knowing(j)
  BY <1>2, <1>5, <1>6, <1>8, LeaseStep, TagStep, TransferStep DEF Continued
<1>9. ASSUME NEW j \in Job, Skip(j) \/ Vanished(j) PROVE Speaking(j) /\ Knowing(j)
  <2>1. PICK m \in {x.path : x \in job[j].known} \cup {None}, v \in {"skipped", "failed"} :
          Reported(j, job[j].cur, v, None, m)
    BY <1>9, SkipStep
  <2>2. Mapped => m \in Elsewhere \cup {None}
    BY <1>0
  <2>3. Says(v, None, m)
    BY <2>2 DEF Says
  <2> QED
    BY <1>6, <2>1, <2>3
<1>10. ASSUME NEW j \in Job, Move(j) PROVE Speaking(j) /\ Knowing(j)
  <2>1. job[j].aim \in Elsewhere /\ job[j].aim \in Name
    BY <1>10, AtWork, Names DEF Move
  <2>2. Says("success", job[j].aim, None)
    BY <2>1 DEF Says
  <2> QED
    BY <1>2, <1>6, <1>10, <2>2, MoveStep
(* In place, the final name is no other name of the source.               *)
<1>11. ASSUME NEW j \in Job, Aim(j) PROVE Speaking(j) /\ Knowing(j)
  <2>1. CASE Continued(j)
    BY <1>5, <2>1 DEF Continued
  <2>2. CASE /\ Reported(j, job[j].cur, "success", job[j].work, None)
             /\ job[j].work = FinalName(job[j]) \/ SameFile(job[j].work, FinalName(job[j]))
    <3>1. job[j].pc = "aim" /\ job[j].work \in Name /\ job[j].cur \in Source
      BY <1>11, AtWork DEF Aim, Placing, Busy
    <3>2. CASE Mapped
      <4>1. job[j].work \in Elsewhere
        BY <3>1, <3>2, Names DEF TypeInv, Filed, Placing
      <4> QED
        BY <1>6, <2>2, <3>1, <4>1 DEF Says
    <3>3. CASE ~ Mapped /\ cfg.placed
      <4>1. job[j].work = Src(job[j].cur)
        BY <3>1, <3>3 DEF TypeInv, Filed, Placing
      <4>2. FinalName(job[j]) \in Elsewhere
        BY <1>11, <3>1, <3>3, Aimed DEF Aim
      <4>3. job[j].work # FinalName(job[j])
        BY <3>1, <4>1, <4>2, Names
      <4>4. /\ fs[Src(job[j].cur)] # None /\ fs[FinalName(job[j])] # None
            /\ fs[FinalName(job[j])].of = fs[Src(job[j].cur)].of
        BY <2>2, <4>1, <4>3 DEF SameFile
      <4> QED
        BY <3>1, <3>3, <4>2, <4>4 DEF TypeInv, Sources
    <3>4. CASE ~ Mapped /\ ~ cfg.placed
      BY <1>6, <2>2, <3>1, <3>4 DEF Says
    <3> QED
      BY <3>2, <3>3, <3>4
  <2> QED
    BY <1>11, <2>1, <2>2, AimStep
<1>12. ASSUME NEW j \in Job, Report(j) PROVE Speaking(j) /\ Knowing(j)
  <2>1. Speaking(j)
    BY <1>2, <1>12, ReportStep DEF Unbusy
  <2>2. job'[j].known = {} \/ job'[j].known = job[j].known
    BY <1>12, ReportStep DEF NoJob
  <2> QED
    BY <1>3, <2>1, <2>2
<1>13. ASSUME NEW k \in Job PROVE Speaking(k) /\ Knowing(k)
  <2>1. CASE job'[k] = job[k]
    BY <1>0, <2>1
  <2>2. CASE Crash
    BY <1>2, <2>2 DEF Crash, NoJob
  <2>3. ASSUME NEW j \in Job, Others(j), Speaking(j) /\ Knowing(j) PROVE Speaking(k) /\ Knowing(k)
    BY <2>1, <2>3 DEF Others
  <2>4. ASSUME NEW i \in Id, NEW mode, DeleteRecord(i, mode) PROVE Speaking(k) /\ Knowing(k)
    BY <2>1, <2>4 DEF DeleteRecord
  <2>5. CASE UNCHANGED vars
    BY <2>1, <2>5 DEF vars
  <2>6. ASSUME NEW j \in Job,
             \/ Asks(j) \/ (\E s \in Source : Begin(j, s)) \/ Lease(j) \/ Skip(j) \/ Vanished(j)
             \/ Transfer(j) \/ Tag(j) \/ Aim(j) \/ Move(j) \/ Report(j)
        PROVE  Others(j) /\ Speaking(j) /\ Knowing(j)
    <3> HIDE DEF Speaking, Knowing
    <3>1. CASE Asks(j)
      BY <1>4, <3>1, AsksStep
    <3>2. ASSUME NEW s \in Source, Begin(j, s) PROVE Others(j) /\ Speaking(j) /\ Knowing(j)
      BY <1>7, <3>2, BeginStep
    <3>3. CASE Lease(j) \/ Tag(j) \/ Transfer(j)
      BY <1>8, <3>3, LeaseStep, TagStep, TransferStep
    <3>4. CASE Skip(j) \/ Vanished(j)
      BY <1>9, <3>4, SkipStep
    <3>5. CASE Aim(j)
      BY <1>11, <3>5, AimStep
    <3>6. CASE Move(j)
      BY <1>10, <3>6, MoveStep
    <3>7. CASE Report(j)
      BY <1>12, <3>7, ReportStep
    <3> QED
      BY <2>6, <3>1, <3>2, <3>3, <3>4, <3>5, <3>6, <3>7
  <2> HIDE DEF Speaking, Knowing
  <2> QED
    BY <2>2, <2>3, <2>4, <2>5, <2>6, Cases
<1> QED
  BY <1>0, <1>1, <1>13 DEF Told, Says

LEMMA InvKept == TypeInv /\ [Next]_vars => TypeInv'
<1> SUFFICES ASSUME TypeInv, [Next]_vars PROVE TypeInv'
  OBVIOUS
<1>1. TypeOK' /\ Told' /\ Sources'
  BY TypesKept, ToldKept, SourcesHold
<1>2. \A k \in Job : Keyed(k)' /\ Leased(k)' /\ Filed(k)'
  BY KeyedKept, LeasedKept, FiledKept
<1> QED
  BY <1>1, <1>2 DEF TypeInv, Job

(* Every variable has its type; a job has the key of its file and the     *)
(* lease of its album from when it takes them until it gives them up; it  *)
(* works at a path of its own source in the library, on no hard link when *)
(* it writes tags, or on the source in place; and no result or row names  *)
(* a source as what was put into the library.                             *)
THEOREM TypeCorrect == Spec => []TypeInv
<1>1. TypeInv /\ [Next]_vars => TypeInv'
  BY InvKept
<1> QED
  BY TypeInit, <1>1, PTL DEF Spec

-----------------------------------------------------------------------------
(* Sources, results and versions *)

LEMMA SourceFiles ==
  ASSUME TypeInv, [Next]_vars, Mapped, NEW s \in Source
  PROVE  \/ fs'[Src(s)] = fs[Src(s)]
         \/ \E i \in Id : DeleteRecord(i, "all") /\ rows[i].source = s
<1>0. /\ TypeOK /\ fs \in [Name -> File \cup {None}]
      /\ Src(s) \in Name /\ Src(s) \notin Elsewhere
  BY Names DEF TypeInv, TypeOK
<1>1. ASSUME NEW names, fs' = Without(fs, names), names \cap {Src(s)} = {}
      PROVE  fs'[Src(s)] = fs[Src(s)]
  BY <1>0, <1>1 DEF Without
<1>2. ASSUME NEW j \in Job, Transfer(j) PROVE fs'[Src(s)] = fs[Src(s)]
  <2>1. Destination(j) \in Elsewhere
    BY <1>2, TransferFiles
  <2>2. Src(s) # Destination(j)
    BY <1>0, <2>1
  <2>3. \/ fs' = fs \/ fs' = Without(fs, {Destination(j)})
        \/ \E f : fs' = [fs EXCEPT ![Destination(j)] = f]
    BY <1>2, TransferFiles
  <2> QED
    BY <1>0, <1>1, <2>2, <2>3
(* The tags are written to a copy. *)
<1>3. ASSUME NEW j \in Job, Tag(j) PROVE fs'[Src(s)] = fs[Src(s)]
  <2>1. job[j].work \in Elsewhere /\ job[j].work \in Name
    <3>1. job[j].pc = "tag" /\ job[j].cur \in Source
      BY <1>3, AtWork DEF Tag, Busy
    <3> QED
      BY <3>1, Names DEF TypeInv, Filed, Placing
  <2>2. Src(s) # job[j].work
    BY <1>0, <2>1
  <2>3. job[j].writes /\ fs[job[j].work] # None => Written(job[j].work)[Src(s)] = fs[Src(s)]
    <3>1. job[j].writes /\ fs[job[j].work] # None => ~ fs[job[j].work].seed
      BY <1>3 DEF Tag, TypeInv, Filed
    <3> QED
      BY <1>0, <2>2, <3>1 DEF Written, SameFile
  <2>4. \/ fs' = fs
        \/ fs' = Without(fs, RolledBack(job[j]))
        \/ job[j].writes /\ fs[job[j].work] # None
           /\ \/ fs' = Written(job[j].work)
              \/ fs' = Without(Written(job[j].work), RolledBack(job[j]))
    BY <1>3 DEF Tag, Without
  <2>5. Src(s) \notin RolledBack(job[j])
    BY <2>2 DEF RolledBack
  <2> QED
    BY <1>0, <2>3, <2>4, <2>5 DEF Without
<1>4. ASSUME NEW j \in Job, Move(j) PROVE fs'[Src(s)] = fs[Src(s)]
  <2>1. job[j].work \in Elsewhere /\ job[j].aim \in Elsewhere
    <3>1. job[j].pc = "move" /\ job[j].cur \in Source /\ job[j].aim \in Elsewhere
      BY <1>4, AtWork DEF Move, Busy
    <3> QED
      BY <3>1, Names, ZenonT(60) DEF TypeInv, Filed, Placing
  <2>2. Src(s) # job[j].work /\ Src(s) # job[j].aim
    BY <1>0, <2>1
  <2>3. \/ \E f, g : fs' = [fs EXCEPT ![job[j].aim] = f, ![job[j].work] = g]
        \/ fs' = Without(fs, (IF Overwrites(j) THEN {job[j].aim} ELSE {}) \cup RolledBack(job[j]))
    BY <1>4 DEF Move
  <2>4. Src(s) \notin (IF Overwrites(j) THEN {job[j].aim} ELSE {}) \cup RolledBack(job[j])
    BY <2>2 DEF RolledBack
  <2> QED
    BY <1>0, <2>2, <2>3, <2>4 DEF Without
<1>5. ASSUME NEW j \in Job, NEW t \in Source, Prepare(j, t) PROVE fs'[Src(s)] = fs[Src(s)]
  <2>1. ASSUME NEW i \in RowsOf(t) PROVE Src(s) \notin Deleted(rows[i])
    <3>1. Says(rows[i].status, rows[i].path, rows[i].mention)
      BY <2>1 DEF RowsOf, TypeInv, Told
    <3> QED
      BY <1>0, <3>1 DEF Says, Deleted
  <2>2. fs' = Without(fs, UNION {Deleted(r) : r \in {rows[i] : i \in RowsOf(t)}})
    BY <1>5 DEF Prepare
  <2>3. Src(s) \notin UNION {Deleted(r) : r \in {rows[i] : i \in RowsOf(t)}}
    BY <2>1
  <2> QED
    BY <1>0, <2>2, <2>3 DEF Without
<1>6. ASSUME NEW i \in Id, NEW mode, DeleteRecord(i, mode)
      PROVE  \/ fs'[Src(s)] = fs[Src(s)]
             \/ mode = "all" /\ rows[i].source = s
  <2> DEFINE result == IF rows[i].status = "success" /\ mode # "record_only"
                       THEN {rows[i].path} \ {None} ELSE {}
             source == IF mode = "all" THEN {Src(rows[i].source)} ELSE {}
  <2>1. fs' = Without(fs, result \cup source) /\ rows[i] # None
    BY <1>6 DEF DeleteRecord
  <2>2. rows[i].path \in Elsewhere \cup {None} /\ rows[i].source \in Source
    BY <2>1 DEF TypeInv, TypeOK, Told, Says, Row
  <2>3. Src(s) \notin result
    BY <1>0, <2>2
  <2>4. Src(s) \in source => mode = "all" /\ rows[i].source = s
    BY <2>2, Names
  <2> HIDE DEF result, source
  <2> QED
    BY <1>0, <2>1, <2>3, <2>4 DEF Without
<1>7. ASSUME NEW j \in Job, NEW t \in Source, Submit(j, t) \/ Begin(j, t) PROVE fs' = fs
  BY <1>7 DEF Submit, Begin
<1>8. ASSUME NEW j \in Job, NEW files \in SUBSET Source, Redo(j, files) PROVE fs' = fs
  BY <1>8 DEF Redo
<1>9. ASSUME NEW j \in Job,
             \/ Enqueue(j) \/ Claim(j) \/ Lease(j) \/ Skip(j) \/ Vanished(j) \/ Aim(j) \/ Report(j)
      PROVE  fs' = fs
  BY <1>9 DEF Enqueue, Claim, Lease, Skip, Vanished, Aim, Report
<1>10. CASE Crash \/ UNCHANGED vars
  BY <1>10 DEF Crash, vars
<1> QED
  BY <1>2, <1>3, <1>4, <1>5, <1>6, <1>7, <1>8, <1>9, <1>10 DEF Next, Works, Organizes

(* Where files are mapped or copied, no transfer, tagging, move, rollback  *)
(* or preparation removes or changes a source: only _delete_media_record   *)
(* in the mode that names the source does.                                 *)
THEOREM SourcesAreKept == Spec => SourcesKept
<1>1. TypeInv /\ [Next]_vars =>
        [Mapped => \A s \in Source :
           \/ fs'[Src(s)] = fs[Src(s)]
           \/ \E i \in Id : DeleteRecord(i, "all") /\ rows[i].source = s]_vars
  BY SourceFiles
<1> QED
  BY TypeCorrect, <1>1, PTL DEF Spec, SourcesKept

(* What the step of a job does to a file that is not its own. *)
LEMMA ResultFiles ==
  ASSUME TypeInv, [Next]_vars, NEW j \in Job, job[j].pc \notin {"idle", "prepare"}, job'[j] # job[j],
         NEW n \in Name, fs[n] # None, Mapped \/ cfg.placed => n \in Elsewhere
  PROVE  fs'[n] # None \/ n \in Made(j) \cup Replaced(j)
<1>0. TypeOK /\ fs \in [Name -> File \cup {None}] /\ None \notin File
  BY Constants DEF TypeInv, TypeOK
<1>1. CASE fs' = fs
  BY <1>1
<1>2. ASSUME NEW k \in Job, Others(k), k # j PROVE FALSE
  BY <1>2 DEF Others
<1>3. CASE Transfer(j)
  <2>1. CASE fs' = Without(fs, {Destination(j)}) /\ Mapped
    <3>1. cfg.placed => n # Destination(j)
      BY <2>1, <1>3, TransferFiles
    <3>2. ~ cfg.placed /\ n = Destination(j) => n \in Replaced(j)
      BY <1>3 DEF Destination, Replaced, Transfer
    <3> QED
      BY <2>1, <3>1, <3>2 DEF Without
  <2>2. ASSUME NEW b \in BOOLEAN, fs[Src(job[j].cur)] # None,
               fs' = [fs EXCEPT ![Destination(j)] = [fs[Src(job[j].cur)] EXCEPT !.seed = b]]
        PROVE  fs'[n] # None
    <3>1. job[j].cur \in Source
      BY <1>3, TransferStep
    <3>2. fs[Src(job[j].cur)] \in File
      BY <1>0, <2>2, <3>1, Names
    <3>3. [fs[Src(job[j].cur)] EXCEPT !.seed = b] \in File
      BY <3>2 DEF File
    <3> QED
      BY <1>0, <2>2, <3>3
  <2> QED
    BY <1>1, <1>3, <2>1, <2>2, TransferFiles
<1>4. CASE Tag(j)
  <2>1. job[j].work \in Name
    BY <1>4, AtWork DEF Tag, Placing
  <2>2. \/ fs' = fs
        \/ fs' = Without(fs, RolledBack(job[j]))
        \/ fs[job[j].work] # None
           /\ \/ fs' = Written(job[j].work)
              \/ fs' = Without(Written(job[j].work), RolledBack(job[j]))
    BY <1>4 DEF Tag, Without
  <2>3. RolledBack(job[j]) = Made(j)
    BY DEF RolledBack, Made
  <2>4. fs[job[j].work] # None => Written(job[j].work)[n] # None
    BY <1>0, <2>1, WrittenSame
  <2> QED
    BY <1>0, <2>2, <2>3, <2>4 DEF Without
<1>5. CASE Move(j)
  <2>1. job[j].pc = "move" /\ job[j].work \in Name /\ job[j].aim \in Name /\ cfg.placed
    BY <1>5, AtWork, Names DEF Move, Placing
  <2>2. RolledBack(job[j]) = Made(j)
    BY DEF RolledBack, Made
  <2>3. Overwrites(j) => job[j].aim \in Replaced(j)
    BY <2>1 DEF Replaced
  (* In place, the file it takes from its place is the source. *)
  <2>4. n = job[j].work => n \in Made(j)
    <3>1. CASE Mapped
      BY <2>1, <3>1 DEF TypeInv, Filed, Placing, Made
    <3>2. CASE ~ Mapped
      <4>1. job[j].work = Src(job[j].cur) /\ job[j].cur \in Source
        BY <2>1, <3>2, AtWork DEF TypeInv, Filed, Placing, Busy
      <4> QED
        BY <2>1, <4>1, Names
    <3> QED
      BY <3>1, <3>2
  <2>5. CASE /\ fs[job[j].work] # None
             /\ fs' = [fs EXCEPT ![job[j].aim] = [fs[job[j].work] EXCEPT !.leased = job[j].leased],
                                 ![job[j].work] = None]
    <3>1. fs[job[j].work] \in File /\ job[j].leased \in BOOLEAN
      BY <1>0, <2>1, <2>5, AtWork DEF Run
    <3>2. [fs[job[j].work] EXCEPT !.leased = job[j].leased] \in File
      BY <3>1 DEF File
    <3> QED
      BY <1>0, <2>1, <2>4, <2>5, <3>2
  <2>6. CASE fs' = Without(fs, (IF Overwrites(j) THEN {job[j].aim} ELSE {}) \cup RolledBack(job[j]))
    BY <2>2, <2>3, <2>6 DEF Without
  <2> QED
    BY <1>5, <2>5, <2>6 DEF Move
<1>6. CASE Asks(j)
  BY <1>1, <1>6 DEF Asks, Submit, Redo, Prepare, Enqueue, Claim
<1>7. CASE (\E s \in Source : Begin(j, s)) \/ Lease(j) \/ Skip(j) \/ Vanished(j) \/ Aim(j) \/ Report(j)
  BY <1>1, <1>7 DEF Begin, Lease, Skip, Vanished, Aim, Report
<1>8. ASSUME NEW i \in Id, NEW mode, DeleteRecord(i, mode) PROVE FALSE
  BY <1>8 DEF DeleteRecord
<1>9. CASE Crash \/ UNCHANGED vars
  BY <1>1, <1>9 DEF Crash, vars
<1>10. ASSUME NEW k \in Job, k # j,
             \/ Asks(k) \/ (\E s \in Source : Begin(k, s)) \/ Lease(k) \/ Skip(k) \/ Vanished(k)
             \/ Transfer(k) \/ Tag(k) \/ Aim(k) \/ Move(k) \/ Report(k)
       PROVE FALSE
  <2>1. CASE Asks(k)
    BY <1>2, <1>10, <2>1, AsksStep
  <2>2. ASSUME NEW s \in Source, Begin(k, s) PROVE FALSE
    BY <1>2, <1>10, <2>2, BeginStep
  <2>3. CASE Lease(k) \/ Skip(k) \/ Vanished(k) \/ Transfer(k) \/ Tag(k) \/ Aim(k) \/ Move(k)
    BY <1>2, <1>10, <2>3, AtWorkStep DEF Advances
  <2>4. CASE Report(k)
    BY <1>2, <1>10, <2>4, ReportStep
  <2> QED
    BY <1>10, <2>1, <2>2, <2>3, <2>4
<1> QED
  BY <1>3, <1>4, <1>5, <1>6, <1>7, <1>8, <1>9, <1>10, Cases

(* A step of an organisation, one that fails and rolls back included,      *)
(* takes away no file that a recorded success names, but the one it made   *)
(* itself and the one that it is about to replace.                         *)
THEOREM ResultsAreKept == Spec => ResultsKept
<1> DEFINE Spared == \A j \in Job : job[j].pc \notin {"idle", "prepare"} /\ job'[j] # job[j] => \A i \in Id :
             rows[i] # None /\ rows[i].status = "success" /\ fs[rows[i].path] # None
               => fs'[rows[i].path] # None \/ rows[i].path \in Made(j) \cup Replaced(j)
<1>1. TypeInv /\ [Next]_vars => [Spared]_vars
  <2> SUFFICES ASSUME TypeInv, [Next]_vars,
                      NEW j \in Job, job[j].pc \notin {"idle", "prepare"}, job'[j] # job[j],
                      NEW i \in Id, rows[i] # None, rows[i].status = "success", fs[rows[i].path] # None
               PROVE  fs'[rows[i].path] # None \/ rows[i].path \in Made(j) \cup Replaced(j)
    OBVIOUS
  <2>1. rows[i].path \in Name /\ (Mapped \/ cfg.placed => rows[i].path \in Elsewhere)
    BY Constants DEF TypeInv, Told, Says
  <2> QED
    BY <2>1, ResultFiles
<1> QED
  BY TypeCorrect, <1>1, PTL DEF Spec, ResultsKept

(* The final path tells the album, as it does when files are classified by *)
(* album, or by artist and album.                                          *)
OneAlbumPerPlace == \A s, t \in Source : Places[s] \cap Places[t] # {} => Album[s] = Album[t]

LEMMA VersionsStep ==
  ASSUME OneAlbumPerPlace, TypeInv, VersionsKept, [Next]_vars
  PROVE  VersionsKept'
<1> SUFFICES ASSUME NEW j \in Job, job'[j].pc = "move", job'[j].leased, ~ Overwrites(j)',
                    fs'[job'[j].aim] # None
             PROVE  ~ fs'[job'[j].aim].leased
  BY DEF VersionsKept, Job
<1>0. cfg' = cfg
  BY Settings
<1>1. CASE job'[j] = job[j]
  <2> DEFINE n == job[j].aim
  <2>1. /\ job[j].pc = "move" /\ job[j].leased /\ n \in Name /\ job[j].cur \in Source
        /\ lease[Album[job[j].cur]] = j /\ job[j].place \in Places[job[j].cur]
        /\ \E i \in 1..Numbers : n = <<"final", job[j].place, i>>
    BY <1>1, AtWork, Names DEF TypeInv, Keyed, Leased, Filed, Busy
  <2>3. ASSUME NEW k \in Job, Comes(n, k) PROVE FALSE
    BY <2>1, <2>3 DEF Comes
  <2>4. ASSUME NEW k \in Job, Arrives(n, k) PROVE ~ fs'[n].leased
    <3>1. /\ job[k].pc = "move" /\ fs'[n].leased = job[k].leased /\ n = job[k].aim /\ Move(k)
          /\ cfg.placed
      BY <2>4, AtWork DEF Arrives, Move
    <3>2. k # j
      BY <1>1, <2>1, <3>1, MoveStep DEF Reported
    <3>3. job[k].place = job[j].place
      <4>1. \E i \in 1..Numbers : n = <<"final", job[k].place, i>>
        BY <3>1 DEF TypeInv, Filed
      <4> QED
        BY <2>1, <4>1
    <3>4. job[k].cur \in Source /\ job[k].place \in Places[job[k].cur]
      BY <3>1, AtWork DEF TypeInv, Keyed, Busy
    <3>5. Album[job[k].cur] = Album[job[j].cur]
      BY <2>1, <3>3, <3>4 DEF OneAlbumPerPlace
    <3>6. job[k].leased => lease[Album[job[k].cur]] = k
      BY DEF TypeInv, Leased
    <3> QED
      BY <2>1, <3>1, <3>2, <3>5, <3>6
  <2>5. fs'[n] # None
    BY <1>1
  <2> HIDE DEF n
  <2>6. ~ fs'[n].leased
    <3>1. Stays(n) \/ \E k \in Job : Comes(n, k) \/ Arrives(n, k)
      BY <2>1, <2>5, FilesStep
    <3>2. CASE Stays(n)
      BY <1>0, <1>1, <2>1, <2>5, <3>2 DEF VersionsKept, Stays, Overwrites, n
    <3> QED
      BY <2>3, <2>4, <3>1, <3>2
  <2> QED
    BY <1>1, <2>6 DEF n
(* The name it chose was free. *)
<1>2. CASE Aim(j)
  <2>1. /\ Continued(j) /\ job'[j].over = job[j].over /\ job'[j].aim = FinalName(job[j])
        /\ job[j].work # FinalName(job[j])
    BY <1>2, AimStep DEF Reported
  <2>2. cfg.placed /\ ~ Overwrites(j) /\ fs' = fs
    BY <1>0, <1>2, <2>1 DEF Overwrites, FinalName, Aim
  <2>3. fs[FinalName(job[j])] = None
    BY <1>2, <2>2, Aimed DEF Aim
  <2> QED
    BY <2>1, <2>2, <2>3
<1>3. ASSUME NEW k \in Job, Others(k), k # j PROVE job'[j] = job[j]
  BY <1>3 DEF Others
<1>4. ASSUME NEW k \in Job, Others(k), job'[k].pc # "move" PROVE job'[j] = job[j]
  BY <1>3, <1>4
<1>5. ASSUME NEW k \in Job, Asks(k) \/ (\E s \in Source : Begin(k, s)) \/ Report(k)
      PROVE  job'[j] = job[j]
  <2>1. CASE Asks(k)
    BY <1>4, <2>1, AsksStep
  <2>2. ASSUME NEW s \in Source, Begin(k, s) PROVE job'[j] = job[j]
    BY <1>4, <2>2, BeginStep DEF Reported
  <2>3. CASE Report(k)
    BY <1>4, <2>3, ReportStep DEF Unbusy
  <2> QED
    BY <1>5, <2>1, <2>2, <2>3
<1>6. ASSUME NEW k \in Job, Lease(k) \/ Skip(k) \/ Vanished(k) \/ Transfer(k) \/ Tag(k) \/ Move(k)
      PROVE  job'[j] = job[j]
  BY <1>4, <1>6, LeaseStep, SkipStep, TransferStep, TagStep, MoveStep DEF Reported
<1>7. ASSUME NEW k \in Job, Aim(k), k # j PROVE job'[j] = job[j]
  BY <1>3, <1>7, AimStep
<1>8. ASSUME NEW i \in Id, NEW mode, DeleteRecord(i, mode) PROVE job'[j] = job[j]
  BY <1>8 DEF DeleteRecord
<1>9. CASE UNCHANGED vars
  BY <1>1, <1>9 DEF vars
<1>10. ~ Crash
  BY DEF Crash, NoJob
<1> QED
  BY <1>1, <1>2, <1>5, <1>6, <1>7, <1>8, <1>9, <1>10, Cases

(* When two sources of different albums have no final path in common, the  *)
(* lease of the album makes the choice of a free final name and the move   *)
(* to it, two steps of _classify_or_rename, as good as one.                *)
THEOREM VersionsAreKept ==
  ASSUME OneAlbumPerPlace
  PROVE  Spec => []VersionsKept
<1>1. Init => VersionsKept
  BY DEF Init, NoJob, VersionsKept
<1>2. TypeInv /\ VersionsKept /\ [Next]_vars => VersionsKept'
  BY VersionsStep
<1> QED
  BY TypeCorrect, <1>1, <1>2, PTL DEF Spec
====
