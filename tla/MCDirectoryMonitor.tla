-------------------------- MODULE MCDirectoryMonitor --------------------------
(* Small instances of DirectoryMonitor. *)
EXTENDS DirectoryMonitor

CONSTANTS p, q, i, j
=============================================================================
