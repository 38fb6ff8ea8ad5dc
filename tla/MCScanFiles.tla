----------------------------- MODULE MCScanFiles -----------------------------
(* Small transcripts for ScanFiles: the second of the shared files is a fork *)
(* of the first.                                                             *)
EXTENDS MCScan, ScanFiles

AllFiles == [f \in {1, 2} |-> OwnSessions[f] \cup GrowingFiles[f]]

=============================================================================
