------------------------------ MODULE MCRequests ------------------------------
(***************************************************************************)
(* An instance of Requests: three calls, two requests beside each other,   *)
(* three clients of which two are remembered, seven materials in two       *)
(* collections, two threads in one worker or in two, and three sources.    *)
(***************************************************************************)
EXTENDS Requests

MCPrompt == [c \in 1 .. 3 |-> c]

MCSizes == {[c \in {"top", "sub"} |-> IF c = "top" THEN n ELSE 7 - n] : n \in {3, 4, 5}}

MCSameWorker == [t \in {"t1", "t2"} |-> "a"]
MCOneEach == [t \in {"t1", "t2"} |-> IF t = "t1" THEN "a" ELSE "b"]
MCPods == {MCSameWorker, MCOneEach}
MCMaxFailures == [p \in MCPods |-> IF p = MCSameWorker THEN 1 ELSE 0]

(* Two sources of one title with addresses of their own, and a material    *)
(* without one.                                                            *)
MCSources == {"page", "twin", "sheet"}
MCUrl == [s \in MCSources |-> IF s = "sheet" THEN "none" ELSE s]
MCTitle == [s \in MCSources |-> IF s = "sheet" THEN "own" ELSE "same"]
MCTemplates == {<<"a", "b">>, <<"b">>}
MCCorpora == {{"page"}, {"twin"}, {"sheet"}}
=============================================================================
