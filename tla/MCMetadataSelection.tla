------------------------ MODULE MCMetadataSelection ------------------------
\* Instances: the texts, files and songs around one song of one artist.
EXTENDS MetadataSelection

Read(t, k) ==
  [key |-> k, base |-> t, bare |-> t, marks |-> {}, weak |-> {}, feat |-> {},
   duet |-> FALSE, names |-> {t}, canon |-> t, parsed |-> <<>>, value |-> TRUE,
   noisy |-> FALSE]

Texts ==
  [t \in {"", "song", "song (Live)", "01 song", "01 song (Live)", "song - ann", "ann - song",
          "ann", "bo", "cy", "ann & cy", "unknown", "LP", "Kana", "LP Live"} |->
     CASE t = "" -> [Read("", "") EXCEPT !.value = FALSE, !.names = {}]
       [] t = "song (Live)" -> [Read(t, "song") EXCEPT !.base = "song", !.marks = {"live"}]
       [] t = "01 song" -> [Read(t, "01song") EXCEPT !.bare = "song"]
       [] t = "01 song (Live)" -> [Read(t, "01song") EXCEPT
                                     !.base = "01 song", !.bare = "song (Live)",
                                     !.marks = {"live"}]
       [] t = "song - ann" -> [Read(t, "songann") EXCEPT !.parsed = <<"song", "ann">>]
       [] t = "ann - song" -> [Read(t, "annsong") EXCEPT !.parsed = <<"ann", "song">>]
       [] t = "bo" -> [Read(t, t) EXCEPT !.canon = "ann"]
       [] t = "ann & cy" -> [Read(t, "anncy") EXCEPT !.names = {"ann", "cy"}]
       [] t = "unknown" -> [Read(t, t) EXCEPT !.value = FALSE]
       [] t = "Kana" -> Read(t, "")    \* written in kana, which match keys leave out
       [] t = "LP Live" -> [Read(t, "lplive") EXCEPT !.weak = {"live"}]
       [] OTHER -> Read(t, t)]

Contained ==
  {<<"song", "01song">>, <<"song", "songann">>, <<"song", "annsong">>,
   <<"ann", "annsong">>, <<"ann", "songann">>, <<"ann", "anncy">>,
   <<"cy", "anncy">>, <<"LP", "lplive">>}

Substrings ==
  {<<"song", t>> : t \in {"song (Live)", "01 song", "01 song (Live)", "song - ann", "ann - song"}}
  \cup {<<"ann", t>> : t \in {"song - ann", "ann - song", "ann & cy"}}
  \cup {<<"cy", "ann & cy">>, <<"LP", "LP Live">>, <<"01 song", "01 song (Live)">>,
        <<"song (Live)", "01 song (Live)">>}

Song(t, a, b, l) == [title |-> t, artist |-> a, album |-> b, lyrics |-> l]

File(tags, stem, artist, album) ==
  [tags |-> tags, stem |-> stem, artist |-> artist, album |-> album, weak |-> {}]

SomeFiles ==
  {File(Song("song", "ann", "", ""), "song", "", ""),
   File(Song("01 song", "", "", ""), "01 song", "ann", "LP"),
   File(Song("song", "cy", "", ""), "ann - song", "", ""),
   File(Song("song - ann", "", "", ""), "song - ann", "", ""),
   File(Song("song (Live)", "ann", "unknown", "text"), "song", "", ""),
   File(Song("01 song (Live)", "ann", "LP", ""), "01 song", "ann", "LP"),
   File(Song("song", "ann & cy", "", ""), "song", "", "LP Live"),
   File(Song("song", "unknown", "", ""), "song", "", "ann"),
   File(Song("song", "", "LP", ""), "song", "", "LP Live"),
   File(Song("01 song", "ann", "LP", "text"), "01 song", "ann", "unknown")}

Config(want, need, max, version) ==
  [want |-> want, need |-> need, max |-> max, version |-> version]

SomeConfigs ==
  {Config({"album", "lyrics"}, {}, TRUE, FALSE),
   Config({"lyrics"}, {"artist", "album"}, FALSE, TRUE),
   Config({"artist", "album"}, {"lyrics"}, TRUE, TRUE),
   Config({}, {"album"}, FALSE, FALSE),
   Config({}, {}, FALSE, FALSE)}

Known1 == <<Song("song", "ann", "LP", ""), Song("song (Live)", "bo", "LP Live", "text")>>
Known2 == <<Song("song", "ann", "LP", "text"), Song("song", "ann & cy", "", "text")>>
Known3 == <<Song("song", "cy", "Kana", "text"), Song("song", "ann & cy", "", "text")>>
Catalog == [s \in {"s1", "s2", "s3"} |->
              CASE s = "s1" -> Known1 [] s = "s2" -> Known2 [] OTHER -> Known3]

SomeReplies ==
  {[order |-> <<"s1", "s2">>, bare |-> {}], [order |-> <<"s2", "s1">>, bare |-> {"s2"}],
   [order |-> <<"s1">>, bare |-> {}],
   [order |-> <<"s3">>, bare |-> {}], [order |-> <<>>, bare |-> {}]}

Handed == {<<>>, <<Known1[1]>>, <<Known1[2]>>, <<Song("song", "cy", "", "text")>>}
============================================================================
