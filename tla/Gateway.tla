------------------------------ MODULE Gateway -------------------------------
(***************************************************************************)
(* Whether the requests of a worker may use the LLM                        *)
(* (app/compendium/gateway.py): the check of the model made at the start   *)
(* and made again by the requests that find it failed ten minutes ago or   *)
(* longer.  Requests read the check and its age without the lock, and a    *)
(* check takes as long as the b-api takes to answer it.                    *)
(*                                                                         *)
(* The requests have no key of their own.  Whether the client is suspended *)
(* comes from module LlmClient and changes freely here.                    *)
(***************************************************************************)
EXTENDS Naturals

CONSTANTS
  Requests,    \* the threads that serve requests
  MaxChanges   \* a bound on the changes of the model and of the suspension

GatewayAssumption == MaxChanges \in Nat

VARIABLES
  model,      \* whether /models names the model and answers
  suspended,  \* BApiClient.suspended
  check,      \* the check kept
  due,        \* RECHECK_S have passed since it was made
  pc,         \* where each request stands
  seen,       \* seen[r]: the check request r read, or was answered
  changes

vars == <<model, suspended, check, due, pc, seen, changes>>

Checks == {"none", "ok", "bad"}

TypeOK ==
  /\ model \in BOOLEAN /\ suspended \in BOOLEAN
  /\ check \in Checks
  /\ due \in BOOLEAN
  /\ pc \in [Requests -> {"idle", "read", "asking", "told"}]
  /\ seen \in [Requests -> Checks]
  /\ changes \in 0 .. MaxChanges

(* The check of the start has been made.                                   *)
Init ==
  /\ model \in BOOLEAN /\ suspended = FALSE
  /\ check = IF model THEN "ok" ELSE "bad"
  /\ due = FALSE
  /\ pc = [r \in Requests |-> "idle"]
  /\ seen = [r \in Requests |-> "none"]
  /\ changes = 0

Goes(r, place) == pc' = [pc EXCEPT ![r] = place]
Sees(r, result) == seen' = [seen EXCEPT ![r] = result]

(* available, with the key of the service and no suspension: the check is  *)
(* read, ...                                                               *)
ReadCheck(r) ==
  /\ pc[r] = "idle"
  /\ ~suspended
  /\ check # "ok"
  /\ Sees(r, check)
  /\ Goes(r, "read")
  /\ UNCHANGED <<model, suspended, check, due, changes>>

(* Mutant: only a check that was never made is made.                       *)
ReadAgeOnce(r) ==
  /\ pc[r] = "read"
  /\ Goes(r, IF seen[r] = "none" THEN "asking" ELSE "idle")
  /\ Sees(r, "none")
  /\ UNCHANGED <<model, suspended, check, due, changes>>

(* ... and then the age of the one kept, which may be another by now.      *)
ReadAge(r) ==
  /\ pc[r] = "read"
  /\ Goes(r, IF seen[r] = "none" \/ due THEN "asking" ELSE "idle")
  /\ Sees(r, "none")
  /\ UNCHANGED <<model, suspended, check, due, changes>>

(* The b-api answers the check, or cannot be reached.                      *)
Told(r) ==
  /\ pc[r] = "asking"
  /\ Sees(r, IF model THEN "ok" ELSE "bad")
  /\ Goes(r, "told")
  /\ UNCHANGED <<model, suspended, check, due, changes>>

(* check_model keeps the answer and its time, over any other.              *)
KeepCheck(r) ==
  /\ pc[r] = "told"
  /\ check' = seen[r]
  /\ due' = FALSE
  /\ Sees(r, "none")
  /\ Goes(r, "idle")
  /\ UNCHANGED <<model, suspended, changes>>

-----------------------------------------------------------------------------
TimePasses ==
  /\ ~due
  /\ due' = TRUE
  /\ UNCHANGED <<model, suspended, check, pc, seen, changes>>

ModelChanges ==
  /\ changes < MaxChanges /\ changes' = changes + 1
  /\ model' = ~model
  /\ UNCHANGED <<suspended, check, due, pc, seen>>

SuspensionChanges ==
  /\ changes < MaxChanges \/ suspended
  /\ changes' = IF suspended THEN changes ELSE changes + 1
  /\ suspended' = ~suspended
  /\ UNCHANGED <<model, check, due, pc, seen>>

RequestStep(r) == ReadCheck(r) \/ ReadAge(r) \/ Told(r) \/ KeepCheck(r)

Next ==
  \/ TimePasses \/ ModelChanges \/ SuspensionChanges
  \/ \E r \in Requests : RequestStep(r)

Spec == Init /\ [][Next]_vars

(* Time passes; requests keep coming and run on; a check ends by the       *)
(* timeout of its call; a suspension ends, as module LlmClient shows.      *)
Fairness ==
  /\ WF_vars(TimePasses)
  /\ WF_vars(suspended /\ SuspensionChanges)
  /\ \A r \in Requests : WF_vars(RequestStep(r))

FairSpec == Spec /\ Fairness

-----------------------------------------------------------------------------
(* Properties                                                              *)

(* "Rule-based answers until it is back" (wiring.py:243): once the model   *)
(* is back for good, the requests may use it some day and from then on,    *)
(* though checks begun while it was away end after those begun later and   *)
(* are kept over them.                                                     *)
UsesModelAgain == <>[]model => <>[](check = "ok")
=============================================================================
