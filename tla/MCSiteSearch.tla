---------------------------- MODULE MCSiteSearch ----------------------------
EXTENDS SiteSearch, TLC

CONSTANTS s, t, k, l, c

\* Both keywords find r1, one r2 as well; r3 is by another artist, r4 has
\* too few seeders.
Answers ==
  (s :> (k :> {"r1", "r3"} @@ l :> {"r1", "r2"})) @@ (t :> (k :> {"r5"} @@ l :> {"r4"}))
Places == s :> 2 @@ t :> 1
=============================================================================
