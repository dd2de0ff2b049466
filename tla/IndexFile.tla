------------------------------ MODULE IndexFile ------------------------------
(***************************************************************************)
(* What the index syncs promise the workers of the API about one index     *)
(* file (app/sources/local_index.py:1-7): it is replaced whole, by the     *)
(* index of one release, and once there it never goes away.                *)
(***************************************************************************)
CONSTANTS
  Contents,  \* the whole indexes a build can write
  None       \* no file

VARIABLE file

Init == file \in Contents \cup {None}

Replace == file' \in Contents

Spec == Init /\ [][Replace]_file
=============================================================================
