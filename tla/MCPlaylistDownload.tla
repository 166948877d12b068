------------------------ MODULE MCPlaylistDownload ------------------------
EXTENDS PlaylistDownload, TLC

CONSTANTS one, album, single

(* Tracks of different artists. *)
Artists == [t \in Track |-> t]

(* The album has every track, the single has one of them. *)
Contents == [x \in Torrent |-> IF x = album THEN Track ELSE {one}]

OneKind == {{kind} : kind \in Awkward}
=============================================================================
