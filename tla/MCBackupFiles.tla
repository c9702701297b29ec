---------------------------- MODULE MCBackupFiles ----------------------------
(* Three attempts in two seconds of the clock, retention of one set. *)
EXTENDS BackupFiles
=============================================================================
