-------------------------- MODULE MCArchiveFollower --------------------------
(***************************************************************************)
(* Instances of ArchiveFollower: two archives, two threads.                *)
(***************************************************************************)
EXTENDS ArchiveFollower
=============================================================================
