------------------------- MODULE MetadataSelection -------------------------
(***************************************************************************)
(* What the organiser believes an audio file is: the look-up of one file's *)
(* metadata (core/scraping.py, core/track_variants.py, the multi-source    *)
(* provider).  A run first looks a file up ("preload"), by its tags, by    *)
(* references inferred from its path, and online; then it processes the    *)
(* file, maybe in another task, from the candidates the look-up left,      *)
(* picks one, merges it with the tags and fails or writes.  Between the    *)
(* two the artist library may learn names.                                 *)
(*                                                                         *)
(* A text is a member of DOMAIN Text, "" is no text; what the code reads   *)
(* out of a text (its match key, the title without version marks, the      *)
(* artists it credits, ...) is Text[t].  The fields are those that can be  *)
(* required; cover is treated as lyrics are and left out.                  *)
(*                                                                         *)
(* SelectionInit, SelectionNext and SelectionSpec are called so because    *)
(* the proofs about this module share a module with those about            *)
(* DirectoryMonitor.                                                       *)
(***************************************************************************)
EXTENDS Integers, FiniteSets, TLC, SequencesExt

CONSTANTS
  Text,     \* text -> [key, base, bare, marks, weak, feat, duet, names, canon, parsed, value, noisy]
  Near,     \* pairs of match keys one of which contains the other
  Within,   \* pairs of texts the first of which the second contains
  Files,    \* [tags, stem, artist, album (of the directories), weak]
  Configs,  \* [want, need, max, version]
  Songs,    \* source -> sequence of the records it knows
  Replies,  \* how sources answer a search: [order (those that do), bare (without lyrics)]
  Given,    \* candidates a run may be handed from an earlier look-up
  Learnt,   \* names other tasks may add to the artist library
  Nil

Metadata ==
  [title : DOMAIN Text, artist : DOMAIN Text, album : DOMAIN Text, lyrics : {"", "text"}]

\* A candidate selected by a reference, md, with how well it matches.
Picks ==
  [kind : {"tags", "path", "contextual", "source", "inferred"}, md : Metadata, pick : Metadata,
   score : [title : Int, artist : Int, album : Int, extra : Int, same : BOOLEAN], key : Seq(Int)]

\* A canonical name is its own, and a valid name has a valid one.
ASSUME TextsAreRead ==
  /\ IsFiniteSet(DOMAIN Text)
  /\ "" \in DOMAIN Text /\ Text[""].key = "" /\ ~Text[""].value
  /\ \A t \in DOMAIN Text :
       /\ {Text[t].base, Text[t].bare, Text[t].canon} \subseteq DOMAIN Text
       /\ Text[t].names \subseteq DOMAIN Text
       /\ Text[t].parsed \in {<<>>} \cup (DOMAIN Text) \X (DOMAIN Text)
       /\ Text[Text[t].canon].canon = Text[t].canon
       /\ Text[t].value => Text[Text[t].canon].value

ASSUME InputsAreMetadata ==
  /\ \A f \in Files : /\ f.tags \in Metadata
                      /\ {f.stem, f.artist, f.album} \subseteq DOMAIN Text
  /\ \A c \in Configs : /\ c.want \cup c.need \subseteq {"artist", "album", "lyrics"}
                        /\ {c.max, c.version} \subseteq BOOLEAN
  /\ \A s \in DOMAIN Songs : Songs[s] \in Seq(Metadata)
  /\ \A a \in Replies : a.order \in Seq(DOMAIN Songs)
  /\ Given \subseteq Seq(Metadata)
  /\ Nil \notin Metadata \cup Picks

VARIABLES
  library,  \* names of the artist library
  pc, job,  \* where the run is; [file, config, mode, given, with (the user's or the album's metadata)]
  r,        \* the references computed when the phase began
  done,     \* metadata_lookup_completed
  cands,    \* candidates at hand
  pick, by, \* candidate selected so far, reference it was selected for
  returned, \* every candidate a search of this run returned (auxiliary)
  found,    \* what the look-up selected (auxiliary)
  out       \* the result: [status, md, by, ref, pick, writes]
selectionVars ==
  <<library, pc, job, r, done, cands, pick, by, returned, found, out>>

Fields == {"artist", "album", "lyrics"}
Modes  == {"batch", "manual", "context", "forced"}

------------------------------------------------------------ (* metadata *)
HasValue(md, f) == md[f] # "" /\ (f # "lyrics" => Text[md[f]].value)
Missing(md, fs) == {f \in fs : ~HasValue(md, f)}
Or(x, y)        == IF x # "" THEN x ELSE y

Merge(md, new) ==
  [f \in DOMAIN md |-> Or(new[f], md[f])]

\* Slip: what was found replaces what the file says.
FillOver(md, new, keep) == Merge(md, new)

Fill(md, new, keep) ==
  [f \in DOMAIN md |-> IF keep /\ f \in {"artist", "album"} THEN md[f]
                       ELSE Or(md[f], new[f])]

Canonical(a) == IF Text[a].canon \in library THEN Text[a].canon ELSE a

-------------------------------------------------- (* versions and scores *)
\* What a title, an artist, an album and a file name say of the version.
Named(file) == IF file = Nil THEN Text[""] ELSE Text[file.stem]
Strong(md, file) == Text[md.title].marks \cup Text[md.album].marks \cup Named(file).marks
Weak(md, file) == Text[md.album].weak \cup (IF file = Nil THEN {} ELSE file.weak)
Credits(md, file) ==
  Text[md.artist].names \cup Text[md.title].feat
    \cup (IF Named(file).duet THEN Named(file).feat ELSE {})
Duet(md, file) ==
  Cardinality(Text[md.artist].names) > 1 \/ Text[md.title].duet \/ Named(file).duet

Alike(x, y) ==
  \/ Text[x].key = Text[y].key
  \/ Text[x].canon = Text[y].canon /\ Text[x].canon \in library

SameCredits(ref, c, file) ==
  /\ Duet(ref, file) = Duet(c, Nil)
  /\ Duet(c, Nil) => /\ Cardinality(Credits(ref, file)) = Cardinality(Credits(c, Nil))
                     /\ Cardinality(Credits(c, Nil)) >= 2
                     /\ \A x \in Credits(ref, file) : \E y \in Credits(c, Nil) : Alike(x, y)
                     /\ \A y \in Credits(c, Nil) : \E x \in Credits(ref, file) : Alike(x, y)

KeyScore(l, k) ==
  IF l = "" \/ k = "" THEN 0
  ELSE IF l = k THEN 2
  ELSE IF {<<l, k>>, <<k, l>>} \cap Near # {} THEN 1 ELSE 0
MatchScore(left, right) == KeyScore(Text[left].key, Text[right].key)

ArtistScore(pairs) ==
  IF pairs = {} THEN 0
  ELSE IF \E p \in pairs : MatchScore(p[1], p[2]) > 0
  THEN Max({MatchScore(p[1], p[2]) : p \in pairs})
  ELSE IF \E p \in pairs : Alike(p[1], p[2]) THEN 2 ELSE 0

Penalty(ref, score) == IF HasValue(ref, "artist") /\ score = 0 THEN -3 ELSE score
ArtistMatch(ref, c) ==
  Penalty(ref, ArtistScore(Text[ref.artist].names \X Text[c.artist].names))

WeakScore(s, t, v, w) ==
  IF v \cup w = {} THEN 0
  ELSE IF (v \cap (t \cup w)) \cup (w \cap (s \cup v)) # {} THEN 1 ELSE -1
VariantScore(ref, c, file) ==
  (IF Strong(ref, file) = Strong(c, Nil) THEN 3 ELSE -3)
  + WeakScore(Strong(ref, file), Strong(c, Nil), Weak(ref, file), Weak(c, Nil))
DuetScore(ref, c, file) ==
  IF ~Duet(ref, file) /\ ~Duet(c, Nil) THEN 1
  ELSE IF SameCredits(ref, c, file) THEN 3 ELSE -3

Score(ref, c, file) ==
  [title  |-> MatchScore(Text[ref.title].base, Text[c.title].base),
   artist |-> ArtistMatch(ref, c),
   album  |-> MatchScore(ref.album, c.album),
   extra  |-> VariantScore(ref, c, file) + DuetScore(ref, c, file),
   same   |-> Strong(ref, file) = Strong(c, Nil) /\ SameCredits(ref, c, file)]
Total(s)   == s.title + s.artist + s.album
Ranking(s) == Total(s) + s.extra

Trusted(ref, score) ==
  ref.title # "" /\ score.title = 2 /\ (ref.artist # "" => score.artist > 0)

\* What a candidate is told apart by when candidates are collected.
CandidateKey(md) ==
  <<Text[Text[md.title].base].key, {Text[n].key : n \in Credits(md, Nil)},
    Text[md.album].key, Strong(md, Nil), Duet(md, Nil), HasValue(md, "lyrics")>>

The(S) == CHOOSE x \in S : TRUE

\* The order of tuples: the first component that differs decides.
Above(k, l) ==
  \E i \in DOMAIN k : k[i] > l[i] /\ \A j \in 1..(i - 1) : k[j] = l[j]

\* Entries have a place, a key and a content.  Of those with one key the
\* first is kept, and the contents are put in the order of the places.
Entered(at, key, x) == [at |-> at, key |-> key, x |-> x]
Before(E, e) == {d \in E : Above(e.at, d.at)}
Kept(E) == {e \in E : \A d \in Before(E, e) : d.key # e.key}
InOrder(E) ==
  [j \in 1..Cardinality(E) |->
     (CHOOSE e \in E : Cardinality(Before(E, e)) = j - 1).x]
Firsts(E) == The({InOrder(K) : K \in {Kept(E)}})

Gather(old, new) ==
  Firsts({Entered(<<1, i>>, CandidateKey(old[i]), old[i]) : i \in DOMAIN old}
           \cup {Entered(<<2, i>>, CandidateKey(new[i]), new[i]) : i \in DOMAIN new})

--------------------------------------------------------- (* selection *)
Gain(c, o) == Cardinality(o.missing \ Missing(c, o.missing))

\* A candidate c beside the reference it is measured by.
Measured(ref, c) ==
  [kind |-> ref.kind, md |-> ref.md, pick |-> c, score |-> Score(ref.md, c, job.file)]
Ranked(m, key) ==
  [kind |-> m.kind, md |-> m.md, pick |-> m.pick, score |-> m.score, key |-> key]

Eligible(x, o) ==
  /\ Missing(x.pick, Missing(x.md, o.need)) = {}
  /\ o.gain => Gain(x.pick, o) > 0
  /\ IF o.trust THEN Trusted(x.md, x.score) ELSE Total(x.score) >= 1
  /\ o.version => x.score.same

\* Slip: the match decides before the fields that are gained do.
RankByMatch(s, gain, i, o) == <<Ranking(s), gain, Total(s), s.title, s.artist, -i>>

Rank(s, gain, i, o) ==
  <<IF o.max THEN gain ELSE 0, Ranking(s), gain, Total(s), s.title, s.artist, -i>>

TopOf(S) ==
  IF S = {} THEN Nil ELSE CHOOSE x \in S : \A y \in S \ {x} : Above(x.key, y.key)
Top(S) == The({TopOf(T) : T \in {S}})

\* The first of the eligible candidates nothing ranks above.
Best(ref, cs, o) ==
  Top({Ranked(x[2], Rank(x[2].score, Gain(x[2].pick, o), x[1], o)) :
         x \in {x \in {<<i, Measured(ref, cs[i])>> : i \in DOMAIN cs} : Eligible(x[2], o)}})

Options(rr) ==
  [need |-> job.config.need, missing |-> rr.missing, gain |-> rr.missing # {},
   max |-> job.config.max, version |-> job.config.version, trust |-> FALSE]

VerifiedRank(s, gain, i) ==
  <<gain, Ranking(s), Total(s), s.title, s.artist, s.album, -i>>

\* A candidate that is surely the track one of the references names.
Verified(refs, cs, o) ==
  Top({Ranked(v[2], VerifiedRank(v[2].score, IF o.max THEN Gain(v[2].pick, o) ELSE 0, v[1])) :
         v \in {v \in {<<i, Best(refs[i], cs, [o EXCEPT !.trust = TRUE])>> : i \in DOMAIN refs} :
                 v[2] # Nil}})

OrElse(v, w) == The({IF x = Nil THEN w ELSE x : x \in {v}})
Asked(o)     == [o EXCEPT !.need = IF o.gain THEN @ ELSE {}]
Anyhow(o)    == [o EXCEPT !.need = {}, !.missing = {}, !.gain = FALSE, !.max = FALSE]

\* Slip: the second try leaves the version control out.
VerifiedAnyhow(refs, cs, o) ==
  OrElse(Verified(refs, cs, Asked(o)),
         IF o.gain THEN Verified(refs, cs, [Anyhow(o) EXCEPT !.version = FALSE]) ELSE Nil)

\* Any trusted candidate will do when none fills what is required.
VerifiedAtLast(refs, cs, o) ==
  OrElse(Verified(refs, cs, Asked(o)),
         IF o.gain THEN Verified(refs, cs, Anyhow(o)) ELSE Nil)

------------------------------------------------------------ (* search *)
SourceScore(l, k) ==
  IF l = "" \/ k = "" THEN 0
  ELSE IF l = k THEN 2
  ELSE IF {<<l, k>>, <<k, l>>} \cap Within # {} THEN 1 ELSE 0

SongScoreOf(q, song, named, artist) ==
  LET a == IF q.artist # "" /\ artist = 0 THEN -2 ELSE artist
      t == IF q.artist = "" /\ artist >= 1 /\ named >= 1 THEN 2 ELSE named
  IN [title |-> t, total |-> t + a + SourceScore(q.title, song.album)]

\* The sum over the artists of a song, each of whom counts 0, 1 or 2.
NamesScore(l, names) ==
  Cardinality({n \in names : SourceScore(l, n) >= 1})
    + Cardinality({n \in names : SourceScore(l, n) = 2})

SongScore(q, song) ==
  SongScoreOf(q, song, SourceScore(q.title, song.title),
              NamesScore(Or(q.artist, q.title), Text[song.artist].names))

\* What a source answers, best first; without lyrics if those requests fail.
Hits(q, s) ==
  {p \in DOMAIN Songs[s] :
     \E k \in {SongScore(q, Songs[s][p])} : k.total >= 3 \/ k.title = 2}
Sent(song, bare) == IF bare THEN [song EXCEPT !.lyrics = ""] ELSE song
AnswerTo(q, s, bare) ==
  {Entered(<<-SongScore(q, Songs[s][p]).total, p>>,
           CandidateKey(Sent(Songs[s][p], bare)), Sent(Songs[s][p], bare)) :
     p \in Hits(q, s)}
Answer ==
  [k \in [title : DOMAIN Text, artist : DOMAIN Text] \X (DOMAIN Songs) \X BOOLEAN |->
     AnswerTo(k[1], k[2], k[3])]

SearchTitles(t) ==
  LET one == Text[t].bare
      two == Text[Text[t].base].bare
  IN IF one = "" THEN <<>> ELSE IF two \in {"", one} THEN <<one>> ELSE <<one, two>>

AliasesOf(a) ==
  IF a = "" THEN <<"">>
  ELSE IF Text[a].canon \in library
  THEN SetToSeq({n \in DOMAIN Text : n # "" /\ Text[n].canon = Text[a].canon})
  ELSE <<a>>

QueriesOf(n, t, a) ==
  LET titles == SearchTitles(t)
      names  == AliasesOf(a)
  IN {Entered(<<n, k[1], k[2]>>, [title |-> titles[k[1]], artist |-> names[k[2]]],
              [title |-> titles[k[1]], artist |-> names[k[2]]]) :
        k \in (DOMAIN titles) \X (DOMAIN names)}
Queries(tags, ref) ==
  Firsts(QueriesOf(1, ref.title, ref.artist) \cup QueriesOf(2, tags.title, tags.artist)
           \cup QueriesOf(3, ref.title, "") \cup QueriesOf(4, tags.title, ""))

\* The answers to all queries, query by query and source by source.
AnswersTo(qs, a, k) ==
  {Entered(<<k[1], k[2], h.at[1], h.at[2]>>, h.key, h.x) :
     h \in Answer[<<qs[k[1]], a.order[k[2]], a.order[k[2]] \in a.bare>>]}
Search(tags, ref, a) ==
  The({Firsts(UNION {AnswersTo(qs, a, k) : k \in (DOMAIN qs) \X (DOMAIN a.order)}) :
         qs \in {Queries(tags, ref)}})

-------------------------------------------------------- (* references *)
Entry(t, a, b) == [title |-> t, artist |-> a, album |-> b, lyrics |-> ""]

Inferred(file) ==
  LET p == Text[file.stem].parsed
  IN IF p # <<>> THEN Entry(p[2], p[1], file.album)
     ELSE Entry(Text[file.stem].bare, file.artist, file.album)

Knows(n) == n # "" /\ Text[n].canon \in library

\* "Title - Artist": the file name reads the other way round.
Turned(file) ==
  LET p == Text[file.stem].parsed
  IN IF p # <<>> /\ ~Knows(p[1]) /\ Knows(p[2])
     THEN Entry(p[1], p[2], file.album) ELSE Inferred(file)

\* A directory that bears an artist's name and not an album's.
Housed(tags, d) ==
  IF ~HasValue(tags, "artist") /\ d.artist = "" /\ Knows(d.album)
  THEN Entry(d.title, d.album, IF HasValue(tags, "album") THEN tags.album ELSE "")
  ELSE d

Backwards(p, d) ==
  d.artist # "" /\ Text[d.artist].key = Text[p[2]].key /\ Text[d.title].key = Text[p[1]].key

\* p: the artist and title the title tag, else the file name, spells out.
Matching(tags, d, p) ==
  LET album == IF HasValue(tags, "album") THEN tags.album ELSE d.album
  IN IF HasValue(tags, "artist") THEN [tags EXCEPT !.album = album]
     ELSE IF p # <<>>
     THEN [tags EXCEPT !.title  = IF Backwards(p, d) THEN d.title ELSE p[2],
                       !.artist = IF Backwards(p, d) THEN d.artist ELSE p[1],
                       !.album  = album]
     ELSE IF d.artist # "" \/ d.album # ""
     THEN [tags EXCEPT !.title = d.title, !.artist = d.artist,
                       !.album = Or(d.album, IF HasValue(tags, "album") THEN @ ELSE "")]
     ELSE tags

Stripped(md) ==
  LET t == Text[md.title].bare
      p == Text[t].parsed
  IN IF t # md.title /\ p # <<>>
     THEN [md EXCEPT !.title = p[2], !.artist = p[1]]
     ELSE [md EXCEPT !.title = Or(t, md.title)]

SameKey(x, y) == \A f \in {"title", "artist", "album"} : Text[x[f]].key = Text[y[f]].key

Doubtful(file, match, md) ==
  LET t == file.tags
  IN /\ Stripped(md).title # "" /\ Stripped(md).artist # ""
     /\ \/ ~HasValue(t, "artist") /\ match.artist # ""
        \/ Text[t.title].bare # t.title
        \/ Text[t.album].noisy
        \/ Text[t.title].key = Text[file.stem].key /\ Text[file.stem].parsed # <<>>

\* What the path and the tags make of the file, at the start of each phase.
Reference(path, match) ==
  LET tags    == job.file.tags
      context == job.mode = "context"
      md      == Merge(tags, match)
  IN [match    |-> IF context THEN Merge(match, job.with) ELSE match,
      fallback |-> IF context THEN job.with ELSE path,
      again    |-> ~SameKey(match, path),
      md       |-> IF context THEN Merge(md, job.with) ELSE md,
      missing  |-> Missing(tags, job.config.want \cup job.config.need),
      verify   |-> context \/ (job.mode # "forced" /\ Doubtful(job.file, match, md)),
      search   |-> IF context THEN job.with ELSE Stripped(md),
      refs     |-> IF context THEN <<[kind |-> "contextual", md |-> job.with]>>
                   ELSE IF SameKey(tags, path) THEN <<[kind |-> "source", md |-> tags]>>
                   ELSE <<[kind |-> "source", md |-> tags], [kind |-> "inferred", md |-> path]>>]

References ==
  LET file  == job.file
      spelt == IF Text[file.tags.title].parsed # <<>> THEN file.tags.title ELSE file.stem
  IN The({Reference(path, Matching(file.tags, Housed(file.tags, path), Text[spelt].parsed)) :
            path \in {Turned(file)}})
Refer == r' = References

--------------------------------------------------------- (* behaviour *)
SelectionInit ==
  /\ library = {} /\ pc = "idle" /\ job = Nil /\ r = Nil /\ done = FALSE
  /\ cands = <<>> /\ pick = Nil /\ by = "tags" /\ returned = {} /\ found = Nil
  /\ out = Nil

\* A batch and a manual scrape look up first; metadata of the user's own
\* choice or of an album are taken without.
Begin ==
  /\ pc = "idle"
  /\ \E f \in Files, c \in Configs, m \in Modes, g \in Given :
       /\ m \in {"context", "forced"} => g # <<>>
       /\ job' = [file |-> f, config |-> c, mode |-> m,
                  given |-> IF m = "batch" THEN g ELSE <<>>,
                  knew |-> library,
                  with |-> IF m \in {"context", "forced"} THEN [Head(g) EXCEPT !.lyrics = ""]
                           ELSE Nil]
       /\ cands' = job'.given
       /\ returned' = ToSet(cands')
       /\ pc' = IF m = "manual" \/ (m = "batch" /\ c.want \cup c.need # {})
                THEN "preload" ELSE "process"
  /\ UNCHANGED <<library, r, done, pick, by, found, out>>

\* Another file's result, or a task of the artist library, adds a name.
Learn ==
  /\ pc \in {"idle", "preload", "process"}
  /\ \E n \in Learnt \ library : library' = library \cup {n}
  /\ UNCHANGED <<pc, job, r, done, cands, pick, by, returned, found, out>>

Unfinished(p) == p = Nil \/ (job.config.max /\ Missing(p.pick, r'.missing) # {})
ByTags(rr) == [kind |-> "tags", md |-> rr.match]
ByPath(rr) == [kind |-> "path", md |-> rr.fallback]

\* The look-up of preload_*: from what is at hand, then online.
Preload ==
  /\ pc = "preload" /\ Refer
  /\ pick' = IF r'.verify THEN Verified(r'.refs, cands, Asked(Options(r')))
             ELSE Best(ByTags(r'), cands, Options(r'))
  /\ IF ~r'.verify /\ r'.missing = {}
     THEN pc' = "process" /\ done' = (job.mode = "manual")
     ELSE pc' = (IF Unfinished(pick') THEN "lookup" ELSE "looked") /\ done' = FALSE
  /\ UNCHANGED <<library, job, cands, by, returned, found, out>>

\* The batch goes on with a file whose look-up raised; it is not completed.
PreloadRaises ==
  /\ pc \in {"preload", "lookup", "lookupPath"} /\ job.mode = "batch"
  /\ pc' = "process" /\ cands' = job.given /\ pick' = Nil
  /\ UNCHANGED <<library, job, r, done, by, returned, found, out>>

\* What the sources say; a doubtful identity is searched by one reference.
Online(a) ==
  Search(IF r.verify THEN r.search ELSE job.file.tags,
         IF r.verify THEN r.search ELSE r.match, a)

\* With "maximum attempt" the candidates of before compete once more.
Selected(online) ==
  IF r.verify THEN VerifiedAtLast(r.refs, cands', Options(r))
  ELSE Best(ByTags(r), IF job.config.max THEN cands' ELSE online, Options(r))

Gathered(online) ==
  cands' = Gather(cands, online) /\ returned' = returned \cup ToSet(online)

Lookup ==
  /\ pc = "lookup"
  /\ \E online \in {Online(a) : a \in Replies} : Gathered(online) /\ pick' = Selected(online)
  /\ pc' = IF ~r.verify /\ pick' = Nil /\ r.again THEN "lookupPath" ELSE "looked"
  /\ UNCHANGED <<library, job, r, done, by, found, out>>

LookupPath ==
  /\ pc = "lookupPath" /\ pc' = "looked"
  /\ \E online \in {Search(r.fallback, r.fallback, a) : a \in Replies} :
       Gathered(online) /\ pick' = Best(ByPath(r), online, Options(r))
  /\ UNCHANGED <<library, job, r, done, by, found, out>>

\* The look-up is over: a batch keeps all candidates, a manual scrape
\* hands the one it selected to the task that organises the file.
LookedUp ==
  /\ pc = "looked" /\ pc' = "process" /\ done' = TRUE
  /\ found' = pick /\ pick' = Nil
  /\ cands' = IF job.mode = "batch" THEN cands
              ELSE IF pick = Nil THEN <<>> ELSE <<pick.pick>>
  /\ UNCHANGED <<library, job, r, by, returned, out>>

\* _process_file reads the file and infers the references once more.
Process ==
  /\ pc = "process" /\ Refer
  /\ pick' = IF job.mode = "forced" \/ (~r'.verify /\ r'.missing = {}) THEN Nil
             ELSE IF ~r'.verify THEN Best(ByTags(r'), cands, Options(r'))
             ELSE IF done THEN VerifiedAtLast(r'.refs, cands, Options(r')) ELSE Nil
  /\ pc' = IF /\ ~done /\ job.mode # "forced"
              /\ r'.verify \/ (r'.missing # {} /\ Unfinished(pick'))
           THEN "search" ELSE "decide"
  /\ UNCHANGED <<library, job, done, cands, by, returned, found, out>>

SearchOnline ==
  /\ pc = "search"
  /\ \E online \in {Online(a) : a \in Replies} : Gathered(online) /\ pick' = Selected(online)
  /\ pc' = IF ~r.verify /\ pick' = Nil /\ r.again THEN "searchPath" ELSE "decide"
  /\ UNCHANGED <<library, job, r, done, by, found, out>>

SearchPath ==
  /\ pc = "searchPath" /\ pc' = "decide" /\ by' = "path"
  /\ \E online \in {Search(r.fallback, r.fallback, a) : a \in Replies} :
       Gathered(online) /\ pick' = Best(ByPath(r), online, Options(r))
  /\ UNCHANGED <<library, job, r, done, found, out>>

Failed(md, kind, ref) ==
  [status |-> "failed", md |-> md, by |-> kind, ref |-> ref, pick |-> Nil,
   tags |-> job.file.tags]

Organised(md, kind, ref, p, writes) ==
  LET named == [md EXCEPT !.artist = Canonical(@)]
  IN [status |-> "success", md |-> named, by |-> kind, ref |-> ref, pick |-> p,
      tags |-> IF writes THEN Merge(job.file.tags, named) ELSE job.file.tags]

Gained(md) == r.missing \ Missing(md, r.missing) # {}

Forced(md) ==
  IF Missing(md, job.config.need) # {} THEN Failed(md, "forced", job.with)
  ELSE Organised(md, "forced", job.with, job.with, TRUE)
ForcedResult == Forced(Merge(job.file.tags, job.with))

\* The candidate that identified the file also completes it, or another
\* trusted one does.
VerifiedResult ==
  \E base \in {IF pick.kind = "contextual" THEN r.md ELSE Fill(pick.md, pick.pick, FALSE)} :
  \E best \in {IF r.missing = {} THEN Nil
               ELSE Best(pick, cands, [Options(r) EXCEPT !.trust = TRUE])} :
  \E md \in {IF best = Nil THEN base ELSE Fill(base, best.pick, job.mode = "context")} :
    out' = IF r.missing # {} /\ Missing(md, job.config.need) # {}
           THEN Failed(md, pick.kind, pick.md)
           ELSE Organised(md, pick.kind, pick.md, OrElse(best, pick).pick,
                          pick.kind = "inferred" \/ Gained(md))

\* Nothing was found, and what was found is of another version.
OtherVersion(ref) ==
  LET fit == {i \in DOMAIN cands :
                /\ Missing(cands[i], Missing(ref, job.config.need)) = {}
                /\ Total(Score(ref, cands[i], job.file)) >= 1}
  IN /\ job.config.version /\ fit # {}
     /\ \A i \in fit : ~Score(ref, cands[i], job.file).same

Basis == IF by = "path" THEN r.fallback ELSE r.match

\* Slip: a candidate was selected, so nothing required can be missing.
PlainUnchecked(md) ==
  IF pick = Nil /\ (Missing(md, job.config.need) # {} \/ OtherVersion(Basis))
  THEN Failed(job.file.tags, by, Basis)
  ELSE Organised(md, by, Basis, IF pick = Nil THEN Nil ELSE pick.pick, Gained(md))

PlainResult(md) ==
  IF Missing(md, job.config.need) # {} \/ (pick = Nil /\ OtherVersion(Basis))
  THEN Failed(job.file.tags, by, Basis)
  ELSE Organised(md, by, Basis, IF pick = Nil THEN Nil ELSE pick.pick, Gained(md))

Decide ==
  /\ pc = "decide" /\ pc' = "record"
  /\ CASE job.mode = "forced" -> out' = ForcedResult
       [] job.mode # "forced" /\ r.verify /\ pick = Nil -> out' = Failed(r.md, "verify", r.md)
       [] job.mode # "forced" /\ r.verify /\ pick # Nil -> VerifiedResult
       [] job.mode # "forced" /\ ~r.verify /\ r.missing # {} ->
            out' = PlainResult(IF pick = Nil THEN r.md ELSE Fill(r.md, pick.pick, FALSE))
       [] OTHER -> out' = Organised(r.md, "tags", r.match, Nil, FALSE)
  /\ UNCHANGED <<library, job, r, done, cands, pick, by, returned, found>>

\* The result is stored, and the artist of an organised file becomes known.
Record ==
  /\ pc = "record" /\ pc' = "done"
  /\ library' = IF out.status # "success" THEN library
                ELSE library \cup {Text[n].canon : n \in Text[out.md.artist].names}
  /\ UNCHANGED <<job, r, done, cands, pick, by, returned, found, out>>

SelectionNext ==
  \/ Begin \/ Learn \/ Preload \/ PreloadRaises \/ Lookup \/ LookupPath \/ LookedUp
  \/ Process \/ SearchOnline \/ SearchPath \/ Decide \/ Record

SelectionSpec == SelectionInit /\ [][SelectionNext]_selectionVars

-------------------------------------------------------- (* properties *)
Ended == out # Nil
Success == Ended /\ out.status = "success"

\* A file that lacks one of the fields asked for is organised only if it
\* has every required field afterwards, whichever candidate, reference,
\* mode or hand-over between the two phases was behind it.
RequiredWhenMissing ==
  Success /\ job.mode # "forced" /\ r.missing # {} =>
    Missing(out.tags, job.config.need) = {}

\* With version control on, no candidate of another version, or by other
\* people, than the reference it was identified by is ever taken: not by
\* the second try without required fields, not from what an earlier
\* look-up handed over.
VersionHeld ==
  Ended /\ library = job.knew /\ job.config.version /\ out.pick # Nil /\ out.by # "forced" =>
    Score(out.ref, out.pick, job.file).same

\* A manual scrape hands over one candidate; here the path identified it.
HandedByPath == job.mode = "manual" /\ found # Nil /\ found.kind = "path"

\* Whether a candidate fills no more of the missing fields than the one
\* that was taken, if it is as acceptable by the reference of that one.
NoBetter(c) ==
  Eligible(Measured([kind |-> out.by, md |-> out.ref], c), Options(r)) =>
    Gain(c, Options(r)) <= Gain(out.pick, Options(r))

MostByTags ==
  Ended /\ library = job.knew /\ job.config.max /\ out.pick # Nil /\ out.by = "tags"
    /\ ~HandedByPath

\* "Maximum attempt": while the artist library stays as it was, the
\* candidate taken by the file's tags fills as many of the missing fields
\* as any acceptable one that any source returned in either phase and that
\* was not taken for a duplicate of another.
GainMost ==
  MostByTags =>
    \A c \in returned :
      (\A d \in returned : CandidateKey(d) = CandidateKey(c) => d = c) => NoBetter(c)

\* An album and no artist: what the directory says of the album goes first.
AlbumOfDirectory(f) ==
  f = "album" /\ ~HasValue(job.file.tags, "artist") /\ out.tags[f] = job.file.album

\* Unless the reference inferred from the path is what was verified (or the
\* user or an album says otherwise), a valid artist, album or lyrics of the
\* file's own tags survives its organisation, up to the artist's canonical
\* name and, in a file without artist, the album of its directory.
TagsKept ==
  Success /\ out.by \in {"tags", "path", "source"} =>
    \A f \in Fields : HasValue(job.file.tags, f) =>
        \/ out.tags[f] = job.file.tags[f]
        \/ f = "artist" /\ Alike(out.tags[f], job.file.tags[f])
        \/ AlbumOfDirectory(f)

============================================================================
