------------------------------- MODULE Request ------------------------------
(***************************************************************************)
(* One compendium request (app/service.py, CompendiumService.generate):    *)
(* the topic is prepared and part 1 made by the request's own thread; part *)
(* 3 is made beside it from the start, part 2 once the topic is prepared   *)
(* (app/concurrency.py, Beside).  Their time is a branch of the request's  *)
(* (app/llm/deadline.py), which ends at once when the request fails.       *)
(*                                                                         *)
(* The thread and the job of part 2 call the LLM and wait for one of its   *)
(* slots (app/llm/client.py, _slot); the job of part 3 reads a repository. *)
(* The refusals of _admit come before all this, the assembly after it.     *)
(***************************************************************************)
EXTENDS Integers

CONSTANTS
  MaxCalls,   \* a bound on the calls of each thread
  Slots       \* LLM_MAX_CONCURRENCY

ASSUME RequestAssumption == MaxCalls \in Nat /\ Slots \in Nat

Jobs == {"curricula", "collection"}
Threads == {"own"} \cup Jobs
Callers == {"own", "curricula"}   \* those that call the LLM

VARIABLES
  wants,   \* which of parts 1 and 3 are asked for; part 2's job always runs
  stage,   \* where generate stands
  thread,  \* where each thread stands
  left,    \* the calls or reads it may still make
  free,    \* the free slots of the LLM client
  over,    \* the time of the request has ended
  expired  \* the branch has been ended

vars == <<wants, stage, thread, left, free, over, expired>>

TypeOK ==
  /\ wants \subseteq {"world", "collection"}
  /\ stage \in {"prepare", "world", "part2", "part3", "leaving",
                "answered", "failed"}
  /\ thread \in [Threads ->
       {"off", "between", "queued", "calling", "done", "broken"}]
  /\ left \in [Threads -> 0 .. MaxCalls]
  /\ free \in 0 .. Slots
  /\ over \in BOOLEAN /\ expired \in BOOLEAN

Init ==
  /\ wants \in SUBSET {"world", "collection"}
  /\ stage = "prepare"
  /\ thread = [t \in Threads |->
       IF t = "own" \/ t \in wants THEN "between" ELSE "off"]
  /\ left = [t \in Threads |-> MaxCalls]
  /\ free = Slots
  /\ over = FALSE /\ expired = FALSE

(* Deadline.remaining is used up.                                          *)
Spent(t) == over \/ (expired /\ t # "own")

Goes(t, place) == thread' = [thread EXCEPT ![t] = place]

-----------------------------------------------------------------------------
(* Calls and reads                                                         *)

(* A thread with time left asks for a slot, the reader needs none.         *)
Ask(t) ==
  /\ thread[t] = "between"
  /\ left[t] > 0
  /\ ~Spent(t)
  /\ left' = [left EXCEPT ![t] = @ - 1]
  /\ Goes(t, IF t \in Callers THEN "queued" ELSE "calling")
  /\ UNCHANGED <<wants, stage, free, over, expired>>

(* Mutant: the call goes out though the time ended while it waited.        *)
SendUnchecked(t) ==
  /\ thread[t] = "queued"
  /\ free > 0
  /\ Goes(t, "calling") /\ free' = free - 1
  /\ UNCHANGED <<wants, stage, left, over, expired>>

(* With the slot, the time is looked at again: a call whose request ended  *)
(* meanwhile is held back and gives the slot back.                         *)
Send(t) ==
  /\ thread[t] = "queued"
  /\ free > 0
  /\ IF Spent(t) THEN Goes(t, "between") /\ UNCHANGED free
                 ELSE Goes(t, "calling") /\ free' = free - 1
  /\ UNCHANGED <<wants, stage, left, over, expired>>

(* A call waits for its slot until the end of the request it knew then.    *)
GiveUp(t) ==
  /\ thread[t] = "queued"
  /\ over
  /\ Goes(t, "between")
  /\ UNCHANGED <<wants, stage, left, free, over, expired>>

EndCall(t) ==
  /\ thread[t] = "calling"
  /\ Goes(t, "between")
  /\ free' = IF t \in Callers THEN free + 1 ELSE free
  /\ UNCHANGED <<wants, stage, left, over, expired>>

-----------------------------------------------------------------------------
(* The jobs                                                                *)

(* A part made, or unavailable with its reason: other errors stay inside.  *)
EndJob(j) ==
  /\ thread[j] = "between"
  /\ Goes(j, "done")
  /\ UNCHANGED <<wants, stage, left, free, over, expired>>

(* An unknown collection is an error of the request.                       *)
CollectionNotFound ==
  /\ thread["collection"] = "between"
  /\ Goes("collection", "broken")
  /\ UNCHANGED <<wants, stage, left, free, over, expired>>

-----------------------------------------------------------------------------
(* generate                                                                *)

Prepared ==
  /\ stage = "prepare" /\ thread["own"] = "between"
  /\ stage' = IF "world" \in wants THEN "world" ELSE "part2"
  /\ Goes("curricula", "between")
  /\ UNCHANGED <<wants, left, free, over, expired>>

WorldMade ==
  /\ stage = "world" /\ thread["own"] = "between"
  /\ stage' = "part2"
  /\ UNCHANGED <<wants, thread, left, free, over, expired>>

(* curricula_job.result(): part 2 never fails.                             *)
TakePart2 ==
  /\ stage = "part2" /\ thread["curricula"] = "done"
  /\ stage' = IF "collection" \in wants THEN "part3" ELSE "answered"
  /\ UNCHANGED <<wants, thread, left, free, over, expired>>

TakePart3 ==
  /\ stage = "part3" /\ thread["collection"] \in {"done", "broken"}
  /\ stage' = IF thread["collection"] = "done" THEN "answered" ELSE "leaving"
  /\ UNCHANGED <<wants, thread, left, free, over, expired>>

(* No article for the topic, an unreadable node, a defect: an error leaves *)
(* the block.                                                              *)
Raise ==
  /\ stage \in {"prepare", "world"} /\ thread["own"] = "between"
  /\ stage' = "leaving"
  /\ UNCHANGED <<wants, thread, left, free, over, expired>>

(* Beside.__exit__ waits for no job and ends the branch (on_failure).      *)
Leave ==
  /\ stage = "leaving"
  /\ stage' = "failed"
  /\ expired' = TRUE
  /\ UNCHANGED <<wants, thread, left, free, over>>

TimeEnds ==
  /\ ~over
  /\ over' = TRUE
  /\ UNCHANGED <<wants, stage, thread, left, free, expired>>

(* The thread of the request works for it only while it lasts.             *)
Works(t) == t = "own" => stage \in {"prepare", "world"}

Next ==
  \/ \E t \in Threads : Works(t) /\ (Ask(t) \/ Send(t) \/ GiveUp(t) \/ EndCall(t))
  \/ \E j \in Jobs : EndJob(j)
  \/ CollectionNotFound
  \/ Prepared \/ WorldMade \/ TakePart2 \/ TakePart3 \/ Raise \/ Leave
  \/ TimeEnds

Spec == Init /\ [][Next]_vars

-----------------------------------------------------------------------------
(* Properties                                                              *)

(* "A request that fails does not wait for them, and their time ends with  *)
(* it: they start no further call or read" (service.py:329-330), not even  *)
(* one that has been waiting for a slot since before the failure.          *)
StopsBeside ==
  [][stage = "failed" =>
       \A j \in Jobs : thread'[j] = "calling" => thread[j] = "calling"]_vars
=============================================================================
