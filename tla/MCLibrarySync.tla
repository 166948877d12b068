---------------------------- MODULE MCLibrarySync ----------------------------
EXTENDS LibrarySync

(* Two events for one song, or two songs with an event and a mishap. *)
Scopes == {[songs |-> {1}, events |-> 2, mishaps |-> 0],
           [songs |-> {1, 2}, events |-> 1, mishaps |-> 1]}

=============================================================================
