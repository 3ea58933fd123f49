------------------------------ MODULE MCBackup ------------------------------
(* Two requests at a time, two uploads, one fault.                          *)
EXTENDS Backup
=============================================================================
