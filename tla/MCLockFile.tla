----------------------------- MODULE MCLockFile -----------------------------
(***************************************************************************)
(* Instances of LockFile: three runs contend for a lock.  Three inodes are *)
(* enough without reuse: a run that creates the file finds one the two     *)
(* others do not go by.                                                    *)
(***************************************************************************)
EXTENDS LockFile
=============================================================================
