----------------------------- MODULE MCZimSync ------------------------------
(***************************************************************************)
(* Instances of ZimSync: a large archive in three dumps and a small one,   *)
(* each with a profile of its own.                                         *)
(***************************************************************************)
EXTENDS ZimSync, TLC

MCSubs == {"wiki", "mini"}
MCProfiles == {"standard", "small"}
MCWants == "standard" :> {"wiki"} @@ "small" :> {"mini"}
MCOffers == "wiki" :> 3 @@ "mini" :> 1
MCUnopenable == {<<"wiki", 2>>}
=============================================================================
