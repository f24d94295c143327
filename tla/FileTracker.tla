---------------------------- MODULE FileTracker ----------------------------
(***************************************************************************)
(* The reference counts that decide when a data file is deleted            *)
(* (kdi/tablet/FileTracker.cc).  The map `files' of the code holds only    *)
(* tracked files; here a count of 0 stands for "not in the map".  Every    *)
(* operation runs under FileTracker::mutex, so it is one step of whatever  *)
(* action uses it.  untrack() is left out: only ~Tablet() calls it, and no *)
(* tablet is destroyed while the server runs.                              *)
(***************************************************************************)
EXTENDS Naturals

\* track(): start counting a file this process has just created.
Track(files, f) == [files EXCEPT ![f] = 1]

\* addReference(), for each file of F: an untracked file stays untracked.
AddReference(files, F) ==
    [f \in DOMAIN files |->
        IF f \in F /\ files[f] > 0 THEN files[f] + 1 ELSE files[f]]

\* release(), for each file of F: the count left in the map.
Release(files, F) ==
    [f \in DOMAIN files |->
        IF f \in F /\ files[f] > 0 THEN files[f] - 1 ELSE files[f]]

\* release(), for each file of F: the files removed from the file system.
Deleted(files, F) == {f \in F : files[f] = 1}
=============================================================================
