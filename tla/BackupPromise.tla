---------------------------- MODULE BackupPromise ----------------------------
(***************************************************************************)
(* What a backup promises to the client who asked for it: it is closed     *)
(* once, it is called a success only when its archive is there, and the    *)
(* archive of a success, as its record, stay until somebody asks for the   *)
(* removal, or moves the server away from the disk that has the archive.   *)
(* The promise begins when the client gets an answer.                      *)
(***************************************************************************)

VARIABLES
  record,   \* what the panel says of the backup
  archive   \* there is an archive where it will be looked for

vars == <<record, archive>>

Init == record = "none" /\ archive = FALSE

Ask == record = "none" /\ record' = "asked" /\ archive' = archive

\* The client gets an answer; the backup may be far ahead by then, or withdrawn.
Answer ==
  /\ record = "asked"
  /\ \/ record' \in {"running", "failed", "leaving", "gone"}
     \/ archive /\ record' = "succeeded"
  /\ archive' = archive

\* An archive comes and goes while nothing relies on it.
Archive == record # "succeeded" /\ archive' \in BOOLEAN /\ record' = record

Succeed == record = "running" /\ archive /\ record' = "succeeded" /\ archive' = archive

Fail == record = "running" /\ record' = "failed" /\ archive' = archive

\* A removal takes the archive first, then the row; what a move leaves on the
\* disk of the old node is nobody's any more.
Remove ==
  /\ record \in {"running", "succeeded", "failed"}
  /\ record' = "leaving" /\ archive' \in BOOLEAN

Forget == record = "leaving" /\ record' = "gone" /\ archive' = archive

Next == Ask \/ Answer \/ Archive \/ Succeed \/ Fail \/ Remove \/ Forget

Spec == Init /\ [][Next]_vars
=============================================================================
