-------------------------------- MODULE MCData --------------------------------
(***************************************************************************)
(* An instance of Data: two archives and two threads, three curricula of   *)
(* two states, two clients of a template.                                  *)
(***************************************************************************)
EXTENDS Data

MCLandOf == [c \in 1 .. 3 |-> IF c = 3 THEN "south" ELSE "north"]

(* MEM has what the cache has, or lost most of it.                         *)
MCFirstInMem == {1 .. 3, {1}}
=============================================================================
