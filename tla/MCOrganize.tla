----------------------------- MODULE MCOrganize -----------------------------
EXTENDS Organize

CONSTANTS a, b, x, song

(* Two versions of one song, of one album and of different sizes, and of   *)
(* the same path, unless other metadata gives the first another one.       *)
OnePlace == [s \in {a, b} |-> {x}]
OneSong == [s \in {a, b} |-> song]
TwoVersions == [s \in {a, b} |-> s]
OneAlbum == [s \in {a, b} |-> song]
Sizes == [s \in {a, b} |-> IF s = a THEN 2 ELSE 1]

Settings(mode, placed, vc, dup) ==
  [mode |-> mode, placed |-> placed, vc |-> vc, dup |-> dup,
   trigger |-> {"lyrics"}, required |-> {"cover"}, max |-> TRUE]
In(c, n, f) == [cfg |-> c, starts |-> n, failed |-> <<>>, faults |-> f]
Scopes == {In(Settings("mapped", TRUE, TRUE, "overwrite"), 2, {"move"}),
           In(Settings("mapped", FALSE, FALSE, "keep_largest"), 2, {"tag", "link", "copy"}),
           In(Settings("copy", TRUE, TRUE, "ignore"), 2, {"copy", "move", "tag", "crash"}),
           [In(Settings("source", TRUE, FALSE, "overwrite"), 2, {"lease", "record"})
              EXCEPT !.failed = <<a>>]}

Found == [has |-> {"lyrics", "cover"}, forced |-> FALSE, offer |-> {}, verify |-> FALSE,
          as |-> "none", looked |-> FALSE, cached |-> {}, online |-> {}, fallback |-> {},
          conflict |-> FALSE, artist |-> TRUE]
Findings == {Found, [Found EXCEPT !.artist = FALSE],
             [Found EXCEPT !.forced = TRUE],
             [Found EXCEPT !.has = {"cover"}, !.online = {{"lyrics"}}],
             [Found EXCEPT !.has = {}, !.looked = TRUE],
             [Found EXCEPT !.verify = TRUE, !.as = "inferred"]}
=============================================================================
