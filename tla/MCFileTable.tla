---------------------------- MODULE MCFileTable ----------------------------
(***************************************************************************)
(* Instances of FileTable for TLC, and what a comment of file.h says.      *)
(***************************************************************************)
EXTENDS FileTable

\* file.h:36, "int writeopen;  // write fd is still open": while writeopen is set
\* some process has a descriptor for the write end.
WriteopenMeansOpen ==
    \A k \in Pages : pipes[k].writeopen =>
        \E f \in Files : /\ References(f) # {}
                         /\ file[f].type = "PIPE" /\ file[f].pipe = k /\ file[f].writable
=============================================================================
