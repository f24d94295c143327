------------------------------ MODULE TabletGc ------------------------------
(***************************************************************************)
(* The garbage collector (kdi/tablet/TabletGc.cc) beside the tablets of a  *)
(* running server.  The server's maintenance thread runs it now and then,  *)
(* with the server's start as the time before which a file must have been  *)
(* written to be a candidate: FileTracker deletes what this server wrote,  *)
(* the collector what it found and has since replaced.                     *)
(*                                                                         *)
(* The collector takes none of the server's locks.  It lists the files,    *)
(* scans the table's META rows in order, each as it is when the scan comes *)
(* to it, and removes the candidates that no row named.  The state files   *)
(* it also looks into are those of the META table itself, which is not the *)
(* table modelled here.                                                    *)
(***************************************************************************)
EXTENDS Tablet

CONSTANT MaxGcRuns      \* bound on runs of the collector

ASSUME TabletGcAssumption == MaxGcRuns \in Nat

VARIABLES
    gcPc,           \* "idle", "scan" or "remove"
    gcRow,          \* the last META row read
    candidateSet, activeSet,
    gcRuns,         \* runs of the collector so far
    missed          \* history: tablets whose row the scan has not seen

gcVars == <<gcPc, gcRow, candidateSet, activeSet, gcRuns, missed>>

GcInit ==
    /\ Init
    /\ gcPc = "idle" /\ gcRow = 0
    /\ candidateSet = {} /\ activeSet = {}
    /\ gcRuns = 0 /\ missed = {}

\* Mutant: the age of a file is not looked at.
OldFilesAll == disk

\* The files that were there when the server started.
OldFiles == disk \cap ToSet(InitChain)

\* buildCandidateSet().
GcList ==
    /\ gcPc = "idle" /\ gcRuns < MaxGcRuns
    /\ gcRuns' = gcRuns + 1
    /\ gcPc' = "scan" /\ gcRow' = 0
    /\ candidateSet' = OldFiles /\ activeSet' = {}
    /\ UNCHANGED <<vars, missed>>

\* The tablets between the last META row read and the row r have none yet.
PassedOver(r) == {t \in live : gcRow < t /\ t < r}

\* buildActiveSetFromMeta() reads the next row.  After the last one the
\* garbage is candidateSet \ activeSet, and there may be none.
GcRead(r) ==
    LET active == activeSet \cup SavedFiles(r)
        last == \A u \in SavedTablets : u <= r
    IN
    /\ gcPc = "scan"
    /\ r \in SavedTablets /\ gcRow < r
    /\ \A u \in SavedTablets : gcRow < u => r <= u
    /\ missed' = missed \cup PassedOver(r)
    /\ IF last
       THEN /\ candidateSet' = candidateSet \ active
            /\ activeSet' = {} /\ gcRow' = 0
            /\ gcPc' = IF candidateSet' = {} THEN "idle" ELSE "remove"
       ELSE /\ activeSet' = active /\ gcRow' = r
            /\ UNCHANGED <<candidateSet, gcPc>>
    /\ UNCHANGED <<vars, gcRuns>>

\* run() removes the garbage, file by file.
GcRemove(f) ==
    /\ gcPc = "remove" /\ f \in candidateSet
    /\ disk' = disk \ {f}
    /\ candidateSet' = candidateSet \ {f}
    /\ gcPc' = IF candidateSet' = {} THEN "idle" ELSE "remove"
    /\ UNCHANGED <<files, made, content, tabletVars, dag, meta, workVars, save,
                   race, loggerVars, serVars, compVars, acked, died, gcRow,
                   activeSet, gcRuns, missed>>

\* A step of the server.  A clone made behind the scan is missed by it, and
\* the clone of a tablet that was missed shares its files.
ServerStep ==
    /\ Next
    /\ missed' = missed \cup {r \in live' \ live :
                                 \/ gcPc = "scan" /\ r <= gcRow
                                 \/ job.tab \in missed}
    /\ UNCHANGED <<gcPc, gcRow, candidateSet, activeSet, gcRuns>>

GcThread == GcList \/ (\E r \in Row : GcRead(r))
            \/ \E f \in Disk : GcRemove(f)

GcNext == ServerStep \/ GcThread
GcSpec == GcInit /\ [][GcNext]_<<vars, gcVars>>

-----------------------------------------------------------------------------
(* Properties.                                                             *)

FilesExist(T) == \A t \in T : ToSet(chain[t]) \subseteq disk

\* However saves, compactions, splits and the removals of FileTracker fall
\* around a run of the collector, a tablet whose META row was there when the
\* scan came by keeps its files.
CollectorKeepsSavedFiles == FilesExist(live \ missed)

\* Neither saveConfig() nor the collector removes a file that META names for a
\* tablet the scan has seen, with any number of threads in sync(), unless saves
\* of that tablet have overlapped.
SavedFilesKept == SavedFilesExist(Row \ missed)

\* "Garbage" is a file "no longer needed for the correct operation of any
\* tablet server": no tablet loses a file that it still reads.
GarbageIsUnused == FilesExist(live)
=============================================================================
