---------------------------- MODULE MCArtistLibrary ----------------------------
EXTENDS ArtistLibrary, TLC

CONSTANTS simple, full, jay, JAY, both, kay

(* A name in simplified and traditional characters, its translation, that  *)
(* one in capitals, the two in brackets, and a singer of whom MusicBrainz  *)
(* knows the translation too.                                              *)
Stands == (simple :> {simple, full}) @@ (full :> {simple, full}) @@ (jay :> {jay})
            @@ (JAY :> {JAY}) @@ (both :> {both, simple, full, jay}) @@ (kay :> {kay})
Writings == [n \in {simple, full, jay, JAY, both, kay} |->
               IF n = full THEN simple ELSE IF n = JAY THEN jay ELSE n]
Aliases == (simple :> {simple, full, jay}) @@ (full :> {simple, full}) @@ (jay :> {jay, simple})
             @@ (JAY :> {}) @@ (both :> {}) @@ (kay :> {kay, jay, JAY})
=============================================================================
