----------------------------- MODULE SiteSearch -----------------------------
(***************************************************************************)
(* The streaming search of torrent sites for one piece of music            *)
(* (infra/api/app.py 510-679, 2735-2793, 8168-8269).  For every site and   *)
(* keyword a coroutine asks for a SEARCH_SITE task, as many at a time as   *)
(* the site allows, and publishes what the site has found so far; browsers *)
(* follow by server-sent events from a queue each.                         *)
(*                                                                         *)
(* The locks of MetadataSiteSearchTask are never held across a suspension, *)
(* so what lies between two awaits of a coroutine is one step here.  A     *)
(* result is a member of a set: its source and address, by which results   *)
(* are told apart; ranking and the limit of what is shown are left out.    *)
(* A new search needs the end of the one before: there is one.             *)
(*                                                                         *)
(* SearchInit, SearchNext and SearchSpec are called so because the proofs  *)
(* about this module share a module with those about ArtistLibrary.        *)
(***************************************************************************)
EXTENDS Naturals, FiniteSets, Sequences

CONSTANTS
  Site, Keyword,
  Found,        \* site -> keyword -> what the site answers
  Wanted,       \* results that pass the excluded words and the minimum of seeders
  ByArtist,     \* results by the artist or one of the aliases; Absent without an artist
  Concurrency,  \* site -> max_concurrency
  Client,       \* browsers
  MaxFailures,  \* searches that fail, database calls that raise
  Absent

Query == Site \X Keyword
Result == UNION {Found[s][k] : s \in Site, k \in Keyword}
State ==
  [raw : SUBSET Result, complete : BOOLEAN, rawCount : Nat, errors : SUBSET Keyword,
   results : SUBSET Result]

\* The source of a result is the site that answered it.
ASSUME AnswersAreOfSites ==
  /\ IsFiniteSet(Site) /\ IsFiniteSet(Keyword)
  /\ \A s \in Site, k \in Keyword : IsFiniteSet(Found[s][k])
  /\ \A s, t \in Site : s # t => \A k, l \in Keyword : Found[s][k] \cap Found[t][l] = {}
  /\ Absent \notin State /\ \A ss \in SUBSET Site : ss # Absent

VARIABLES
  sites, words,  \* the indexers and keywords of the search; Absent before it
  at,            \* where the coroutine of a site and keyword is
  batch,         \* what it filters by artist
  site,          \* where the coroutine of a site is
  got, count,    \* raw_results of a site: what is in the list, and how long it is
  errors,        \* keywords of a site that failed
  states,        \* _site_states
  totals,        \* raw_results, raw_count, filtered_count and results of the task
  active,        \* _active_keywords
  completed, failed, done,
  stream, queue, \* a browser's stream and its queue
  failures

search == <<sites, words, at, batch, site, got, count, errors, failures>>
task == <<states, totals, active, completed, failed, done>>
searchVars == <<search, task, stream, queue>>

Searched == sites # Absent
Nothing == [raw |-> {}, rawCount |-> 0, filtered |-> 0, results |-> {}]

SearchInit ==
  /\ sites = Absent /\ words = {}
  /\ at = [q \in Query |-> "wait"] /\ batch = [q \in Query |-> {}]
  /\ site = [s \in Site |-> "begin"]
  /\ got = [s \in Site |-> {}] /\ count = [s \in Site |-> 0]
  /\ errors = [s \in Site |-> {}]
  /\ states = [s \in Site |-> Absent] /\ totals = Nothing
  /\ active = [k \in Keyword |-> 0]
  /\ completed = 0 /\ failed = {} /\ done = FALSE
  /\ stream = [c \in Client |-> "out"] /\ queue = [c \in Client |-> <<>>]
  /\ failures = 0

-----------------------------------------------------------------------------
(* The task: what is published, and the totals *)

Publish(events) ==
  queue' = [c \in Client |-> IF stream[c] = "open" THEN queue[c] \o events ELSE queue[c]]

\* Sites whose results are complete count their distinct results.  A sum
\* over sites is the number of pairs of a site and one it counts.
Totals(ss) ==
  LET shown == {s \in Site : ss[s] # Absent}
      raw   == UNION {ss[s].raw : s \in {s \in shown : ss[s].complete}}
  IN [raw      |-> raw,
      rawCount |-> Cardinality(UNION {{s} \X (1..ss[s].rawCount) :
                                        s \in {s \in shown : ~ss[s].complete}})
                     + Cardinality(raw),
      filtered |-> Cardinality(UNION {{s} \X ss[s].results : s \in shown}),
      results  |-> UNION {ss[s].results : s \in shown}]

Rebuild(ss) == states' = ss /\ totals' = Totals(ss)

\* What passes the excluded words and the minimum of seeders, and of that
\* what the artist's names match: all of it when the media has no artist.
Passing(results) == results \cap Wanted
OfArtist(results) == IF ByArtist = Absent THEN results ELSE results \cap ByArtist

\* What a site's coroutines count and show while keywords are searched.
Progress(s, results) ==
  [raw |-> {}, complete |-> FALSE, rawCount |-> count[s], results |-> results,
   errors |-> errors[s]]

\* Slip: what the site has shown already is kept.
CompletedKeeping(s, results) ==
  [raw |-> got[s], complete |-> TRUE, rawCount |-> Cardinality(got[s]), errors |-> errors[s],
   results |-> IF states[s] = Absent THEN results ELSE states[s].results]

Completed(s, results) ==
  [raw |-> got[s], complete |-> TRUE, rawCount |-> Cardinality(got[s]), errors |-> errors[s],
   results |-> results]

-----------------------------------------------------------------------------
(* The search *)

\* POST .../stream/start; a search of no site has only its end before it.
Start(ss, ks) ==
  /\ ~Searched
  /\ sites' = ss /\ words' = ks
  /\ UNCHANGED <<at, batch, site, got, count, errors, failures, task, stream, queue>>

Fails == failures < MaxFailures /\ failures' = failures + 1

\* A site's coroutine reads the settings; without keywords it is done.
SiteBegins(s) ==
  /\ Searched /\ s \in sites /\ site[s] = "begin"
  /\ IF words # {}
     THEN /\ site' = [site EXCEPT ![s] = "keywords"]
          /\ UNCHANGED <<states, totals, completed, queue>>
     ELSE /\ site' = [site EXCEPT ![s] = "over"]
          /\ completed' = completed + 1
          /\ Rebuild([states EXCEPT ![s] = Completed(s, {})])
          /\ Publish(<<"site_done", "progress">>)
  /\ UNCHANGED <<sites, words, at, batch, got, count, errors, failures, active, failed, done,
                 stream>>

\* One of its database calls raises.
SiteRaises(s) ==
  /\ Searched /\ s \in sites /\ site[s] \in {"begin", "filter"} /\ Fails
  /\ site' = [site EXCEPT ![s] = "raised"]
  /\ UNCHANGED <<sites, words, at, batch, got, count, errors, task, stream, queue>>

\* search_keyword: a place of the site's semaphore, then a SEARCH_SITE task.
KeywordStarts(s, k) ==
  /\ site[s] # "begin" /\ k \in words /\ at[<<s, k>>] = "wait"
  /\ Cardinality({j \in Keyword : at[<<s, j>>] \in {"asked", "filter"}}) < Concurrency[s]
  /\ at' = [at EXCEPT ![<<s, k>>] = "asked"]
  /\ active' = [active EXCEPT ![k] = @ + 1]
  /\ Publish(<<"progress">>)
  /\ UNCHANGED <<sites, words, batch, site, got, count, errors, failures, states, totals,
                 completed, failed, done, stream>>

\* The task has ended: with results or not, the site's progress is next, of
\* all it has found by now.
KeywordAnswered(s, k) ==
  /\ at[<<s, k>>] = "asked"
  /\ \/ /\ got' = [got EXCEPT ![s] = @ \cup Found[s][k]]
        /\ count' = [count EXCEPT ![s] = @ + Cardinality(Found[s][k])]
        /\ UNCHANGED <<errors, failures>>
     \/ /\ Fails
        /\ errors' = [errors EXCEPT ![s] = @ \cup {k}]
        /\ UNCHANGED <<got, count>>
  /\ at' = [at EXCEPT ![<<s, k>>] = "filter"]
  /\ batch' = [batch EXCEPT ![<<s, k>>] = Passing(got'[s])]
  /\ UNCHANGED <<sites, words, site, task, stream, queue>>

Finished(s, k) ==
  /\ at' = [at EXCEPT ![<<s, k>>] = "over"]
  /\ active' = [active EXCEPT ![k] = @ - 1]

\* The aliases have been read; another keyword's progress may have passed.
KeywordPublishes(s, k) ==
  /\ at[<<s, k>>] = "filter"
  /\ Rebuild([states EXCEPT ![s] = Progress(s, OfArtist(batch[<<s, k>>]))])
  /\ Finished(s, k)
  /\ Publish(<<"progress", "progress">>)
  /\ UNCHANGED <<sites, words, batch, site, got, count, errors, failures, completed, failed,
                 done, stream>>

\* Reading the aliases raises: the site has failed, its other keywords go on.
KeywordRaises(s, k) ==
  /\ at[<<s, k>>] = "filter" /\ Fails
  /\ Finished(s, k)
  /\ site' = [site EXCEPT ![s] = IF @ = "keywords" THEN "raised" ELSE @]
  /\ Publish(<<"progress">>)
  /\ UNCHANGED <<sites, words, batch, got, count, errors, states, totals, completed, failed,
                 done, stream>>

Over(s) == \A k \in words : at[<<s, k>>] = "over"

SiteCollects(s) ==
  /\ site[s] = "keywords" /\ Over(s)
  /\ site' = [site EXCEPT ![s] = "filter"]
  /\ UNCHANGED <<sites, words, at, batch, got, count, errors, failures, task, stream, queue>>

SiteDone(s) ==
  /\ site[s] = "filter"
  /\ site' = [site EXCEPT ![s] = "over"]
  /\ completed' = completed + 1
  /\ Rebuild([states EXCEPT ![s] = Completed(s, OfArtist(Passing(got[s])))])
  /\ Publish(<<"site_done", "progress">>)
  /\ UNCHANGED <<sites, words, at, batch, got, count, errors, failures, active, failed, done,
                 stream>>

SiteFailed(s) ==
  /\ site[s] = "raised"
  /\ site' = [site EXCEPT ![s] = "over"]
  /\ completed' = completed + 1 /\ failed' = failed \cup {s}
  /\ Publish(<<"site_error", "progress">>)
  /\ UNCHANGED <<sites, words, at, batch, got, count, errors, failures, states, totals, active,
                 done, stream>>

\* Whatever was counted before, the end counts the results of complete sites.
Finish ==
  /\ Searched /\ ~done /\ \A s \in sites : site[s] = "over"
  /\ totals' = [totals EXCEPT !.rawCount = Cardinality(totals.raw)]
  /\ done' = TRUE
  /\ Publish(<<"done">>)
  /\ UNCHANGED <<search, states, active, completed, failed, stream>>

-----------------------------------------------------------------------------
(* The streams *)

\* The first snapshot is sent; without a search that is all.
Open(c) ==
  /\ stream[c] = "out"
  /\ stream' = [stream EXCEPT ![c] = IF Searched THEN "snapshot" ELSE "closed"]
  /\ UNCHANGED <<search, task, queue>>

\* Slip: whether the search is done is looked at before the snapshot is sent.
FollowsUnchecked(c) ==
  /\ stream[c] = "snapshot"
  /\ stream' = [stream EXCEPT ![c] = "open"]
  /\ UNCHANGED <<search, task, queue>>

Follows(c) ==
  /\ stream[c] = "snapshot"
  /\ stream' = [stream EXCEPT ![c] = IF done THEN "closed" ELSE "open"]
  /\ UNCHANGED <<search, task, queue>>

\* An event is sent; "done" is the last one and ends the subscription.
Sends(c) ==
  /\ stream[c] = "open" /\ queue[c] # <<>>
  /\ IF Head(queue[c]) = "done"
     THEN stream' = [stream EXCEPT ![c] = "closed"] /\ queue' = [queue EXCEPT ![c] = <<>>]
     ELSE stream' = stream /\ queue' = [queue EXCEPT ![c] = Tail(@)]
  /\ UNCHANGED <<search, task>>

\* The browser goes away.
Leaves(c) ==
  /\ stream[c] \in {"snapshot", "open"}
  /\ stream' = [stream EXCEPT ![c] = "closed"] /\ queue' = [queue EXCEPT ![c] = <<>>]
  /\ UNCHANGED <<search, task>>

-----------------------------------------------------------------------------

SiteStep(s) ==
  SiteBegins(s) \/ SiteRaises(s) \/ SiteCollects(s) \/ SiteDone(s) \/ SiteFailed(s)
KeywordStep(s, k) ==
  KeywordStarts(s, k) \/ KeywordAnswered(s, k) \/ KeywordPublishes(s, k) \/ KeywordRaises(s, k)
StreamStep(c) == Follows(c) \/ Sends(c)

SearchNext ==
  \/ \E ss \in SUBSET Site, ks \in SUBSET Keyword : Start(ss, ks)
  \/ \E s \in Site : SiteStep(s) \/ \E k \in Keyword : KeywordStep(s, k)
  \/ Finish
  \/ \E c \in Client : Open(c) \/ StreamStep(c) \/ Leaves(c)

\* Coroutines proceed, SEARCH_SITE tasks end (module TaskQueue), and a
\* browser that stays reads what it is sent.
Fairness ==
  /\ \A s \in Site : /\ WF_searchVars(SiteStep(s))
                     /\ \A k \in Keyword : WF_searchVars(KeywordStep(s, k))
  /\ WF_searchVars(Finish)
  /\ \A c \in Client : WF_searchVars(StreamStep(c))

SearchSpec == SearchInit /\ [][SearchNext]_searchVars /\ Fairness

-----------------------------------------------------------------------------
(* Properties *)

\* Once a search is over, whatever order the progress of its keywords was
\* published in, its totals are those of all answers of its sites, every
\* site counts, no keyword is left active, and none of it changes again;
\* unless a site's coroutine failed on the way, whose keywords may go on.
FinalResults ==
  Searched /\ done /\ failed = {} =>
    LET all == UNION {got[s] : s \in sites}
    IN /\ \A s \in sites, k \in words :
            k \in errors[s] \/ Found[s][k] \subseteq got[s]
       /\ totals = [raw      |-> all,
                    rawCount |-> Cardinality(all),
                    filtered |-> Cardinality(OfArtist(Passing(all))),
                    results  |-> OfArtist(Passing(all))]
       /\ completed = Cardinality(sites)
       /\ \A k \in Keyword : active[k] = 0

\* A browser that follows a search, and stays, gets to its end: no event
\* it waits for was published before it subscribed.
StreamsEnd ==
  \A c \in Client : stream[c] \in {"snapshot", "open"} /\ Searched ~> stream[c] = "closed"
=============================================================================
