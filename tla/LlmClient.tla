----------------------------- MODULE LlmClient -----------------------------
(***************************************************************************)
(* The circuit breaker of app/llm/client.py (class BApiClient): the calls  *)
(* of all requests of one worker share one client, its call slots, its two *)
(* stops - the outage stop, which holds back every call, and the own-key   *)
(* stop, which holds back only the calls made with the service's own key - *)
(* and one probe flag for each of them.                                    *)
(*                                                                         *)
(* Time is kept relative: openLeft is _open_until less the clock, in       *)
(* ticks.  Closed stands for _open_until = 0.0, a positive number for a    *)
(* stop that still runs, and 0 for a stop whose time is over and which     *)
(* waits for its probe ("after a break it stays in the past").             *)
(***************************************************************************)
EXTENDS Integers, FiniteSets

CONSTANTS
  Calls,          \* threads of the worker that make LLM calls
  RequestKeys,    \* b-api keys that requests bring, one per request
  OwnKey,         \* the service's own key (request_key() is None)
  Attempts,       \* LLM_ATTEMPTS
  MaxConcurrency, \* LLM_MAX_CONCURRENCY, the permits of the semaphore
  Breaker,        \* BREAKER_S, in ticks
  AuthSuspend,    \* AUTH_SUSPEND_S, in ticks
  Answers         \* the classes of answers the b-api gives

ASSUME KeysAssumption == OwnKey \notin RequestKeys
ASSUME CallsAssumption == IsFiniteSet(Calls)
ASSUME AttemptsAssumption == Attempts \in Nat \ {0}
ASSUME SlotsAssumption == MaxConcurrency \in Nat \ {0}
ASSUME StopsAssumption ==
  /\ Breaker \in Nat \ {0}
  /\ AuthSuspend \in Nat
  /\ AuthSuspend >= Breaker

(* What one attempt can end with, by what the client does about it.        *)
AllAnswers ==
  {"ok",         \* 200, readable or not: _close
   "wrong",      \* another status below 500: the request was wrong, _close
   "odd",        \* 501 and the like, an unreadable answer, a short timeout
   "timeout",    \* no answer although the attempt had its time
   "failed",     \* 500, 502, 503, 504 or a connection error: retried
   "limited",    \* 429: retried
   "refused",    \* 401, 402, 403, or 404 of the provider
   "noRouter",   \* 404 of the b-api itself behind a route
   "stopLong",   \* a lasting stop of the route
   "stopShort"}  \* no deployment of the route is left

ASSUME AnswersAssumption == Answers \subseteq AllAnswers

Keys == RequestKeys \cup {OwnKey}
Closed == -1
StopTime == Closed .. AuthSuspend

VARIABLES
  openLeft,    \* _open_until
  ownLeft,     \* _own_key_until
  probing,     \* _probing
  ownProbing,  \* _own_key_probing
  failures,    \* _failures, counted up to Attempts: only >= Attempts is asked
  slots,       \* free permits of _semaphore
  refused,     \* request keys with RequestKey.refused set
  pc,          \* where each call stands
  key,         \* the key each call carries
  probe,       \* the stop a call probes after: "none", "outage" or "ownKey"
  tries,       \* attempts the call may make
  made,        \* attempts it has made or is making
  said         \* the answer it handles

stops == <<openLeft, ownLeft, probing, ownProbing>>
locals == <<key, probe, tries, made>>
vars == <<stops, failures, slots, refused, pc, locals, said>>

TypeOK ==
  /\ openLeft \in StopTime
  /\ ownLeft \in StopTime
  /\ probing \in BOOLEAN
  /\ ownProbing \in BOOLEAN
  /\ failures \in 0 .. Attempts
  /\ slots \in 0 .. MaxConcurrency
  /\ refused \subseteq RequestKeys
  /\ pc \in [Calls -> {"idle", "ready", "queued", "sent", "answered",
                       "faulted", "tripping", "leaving"}]
  /\ key \in [Calls -> Keys]
  /\ probe \in [Calls -> {"none", "outage", "ownKey"}]
  /\ tries \in [Calls -> 0 .. Attempts]
  /\ made \in [Calls -> 0 .. Attempts]
  /\ said \in [Calls -> Answers \cup {"none"}]

Init ==
  /\ openLeft = Closed
  /\ ownLeft = Closed
  /\ probing = FALSE
  /\ ownProbing = FALSE
  /\ failures = 0
  /\ slots = MaxConcurrency
  /\ refused = {}
  /\ pc = [c \in Calls |-> "idle"]
  /\ key = [c \in Calls |-> OwnKey]
  /\ probe = [c \in Calls |-> "none"]
  /\ tries = [c \in Calls |-> 0]
  /\ made = [c \in Calls |-> 0]
  /\ said = [c \in Calls |-> "none"]

-----------------------------------------------------------------------------
(* The critical sections under _state.                                     *)

(* _admit: the outage stop and its probe hold back every call, the own-key *)
(* stop and its probe those with the service's own key.                    *)
Admits(k) ==
  /\ openLeft <= 0 /\ ~probing
  /\ k = OwnKey => ownLeft <= 0 /\ ~ownProbing

(* The stop a call admitted with key k probes after.                       *)
ProbeKind(k) ==
  CASE openLeft # Closed               -> "outage"
    [] openLeft = Closed /\ k = OwnKey /\ ownLeft # Closed -> "ownKey"
    [] OTHER                           -> "none"

(* Mutant: the last stop set decides.                                      *)
Latest(left, ticks) == ticks

(* A stop never cuts a longer one short.                                   *)
Longer(left, ticks) == IF ticks > left THEN ticks ELSE left

Trip(ticks) ==
  /\ openLeft' = Longer(openLeft, ticks)
  /\ probing' = FALSE
  /\ UNCHANGED <<ownLeft, ownProbing>>

TripOwn(ticks) ==
  /\ ownLeft' = Longer(ownLeft, ticks)
  /\ ownProbing' = FALSE
  /\ UNCHANGED <<openLeft, probing>>

(* Mutant: an answer ends the stop for all only.                           *)
CloseForAll(k) ==
  /\ openLeft' = Closed
  /\ probing' = FALSE
  /\ failures' = 0
  /\ UNCHANGED <<ownLeft, ownProbing>>

(* _close: the b-api answered a call that carries key k.                   *)
Close(k) ==
  /\ openLeft' = Closed
  /\ probing' = FALSE
  /\ failures' = 0
  /\ ownLeft' = IF k = OwnKey THEN Closed ELSE ownLeft
  /\ ownProbing' = IF k = OwnKey THEN FALSE ELSE ownProbing

-----------------------------------------------------------------------------
(* One call of the client: _request and _attempts.                         *)

At(c, place) == pc[c] = place
GoTo(c, place) == pc' = [pc EXCEPT ![c] = place]

(* A chat makes up to Attempts attempts, the model check one, with the     *)
(* service's own key only; a probe makes one.                              *)
Admit(c, k, check) ==
  /\ At(c, "idle")
  /\ check => k = OwnKey
  /\ Admits(k)
  /\ probing' = (probing \/ ProbeKind(k) = "outage")
  /\ ownProbing' = (ownProbing \/ ProbeKind(k) = "ownKey")
  /\ key' = [key EXCEPT ![c] = k]
  /\ probe' = [probe EXCEPT ![c] = ProbeKind(k)]
  /\ tries' = [tries EXCEPT ![c] = IF ProbeKind(k) # "none" \/ check THEN 1 ELSE Attempts]
  /\ made' = [made EXCEPT ![c] = 1]
  /\ GoTo(c, "ready")
  /\ UNCHANGED <<openLeft, ownLeft, failures, slots, refused, said>>

(* key_problem: the request's key met the b-api's refusal meanwhile.       *)
KeyProblem(c) ==
  /\ At(c, "ready")
  /\ key[c] \in refused
  /\ GoTo(c, "leaving")
  /\ UNCHANGED <<stops, failures, slots, refused, locals, said>>

Queue(c) ==
  /\ At(c, "ready")
  /\ key[c] \notin refused
  /\ GoTo(c, "queued")
  /\ UNCHANGED <<stops, failures, slots, refused, locals, said>>

(* Mutant: a call that goes out without a free permit.                     *)
TakeSlotAtOnce(c) ==
  /\ At(c, "queued")
  /\ slots' = slots - 1
  /\ GoTo(c, "sent")
  /\ UNCHANGED <<stops, failures, refused, locals, said>>

(* _slot: a permit in time.                                                *)
TakeSlot(c) ==
  /\ At(c, "queued")
  /\ slots > 0
  /\ slots' = slots - 1
  /\ GoTo(c, "sent")
  /\ UNCHANGED <<stops, failures, refused, locals, said>>

(* No permit in time: the call never goes out.                             *)
GiveUp(c) ==
  /\ At(c, "queued")
  /\ GoTo(c, "leaving")
  /\ UNCHANGED <<stops, failures, slots, refused, locals, said>>

(* Mutant: a call that goes out no more keeps its permit.                  *)
TimeUpKeeping(c) ==
  /\ At(c, "sent")
  /\ GoTo(c, "leaving")
  /\ UNCHANGED <<stops, failures, slots, refused, locals, said>>

(* The request's time ended while the call waited for its permit, which it *)
(* gives back unused: the call never goes out.                             *)
TimeUp(c) ==
  /\ At(c, "sent")
  /\ slots' = slots + 1
  /\ GoTo(c, "leaving")
  /\ UNCHANGED <<stops, failures, refused, locals, said>>

(* _send returns or raises; the permit is given back before the answer is  *)
(* looked at, so other calls may change the stops in between.              *)
Answer(c, a) ==
  /\ At(c, "sent")
  /\ slots' = slots + 1
  /\ said' = [said EXCEPT ![c] = a]
  /\ GoTo(c, "answered")
  /\ UNCHANGED <<stops, failures, refused, locals>>

HandleAnswer(c) ==
  /\ At(c, "answered")
  /\ said[c] \in {"ok", "wrong"}
  /\ Close(key[c])
  /\ GoTo(c, "leaving")
  /\ UNCHANGED <<slots, refused, locals, said>>

HandleOdd(c) ==
  /\ At(c, "answered")
  /\ said[c] = "odd"
  /\ GoTo(c, "leaving")
  /\ UNCHANGED <<stops, failures, slots, refused, locals, said>>

HandleTimeout(c) ==
  /\ At(c, "answered")
  /\ said[c] = "timeout"
  /\ Trip(Breaker)
  /\ GoTo(c, "leaving")
  /\ UNCHANGED <<failures, slots, refused, locals, said>>

(* What the b-api says of a key or its route.                              *)
KeyAnswers == {"refused", "noRouter", "stopLong", "stopShort"}

(* _refuse: it holds back the request that brought the key, no other.      *)
RefuseRequestKey(c) ==
  /\ At(c, "answered")
  /\ said[c] \in KeyAnswers
  /\ key[c] # OwnKey
  /\ refused' = refused \cup {key[c]}
  /\ GoTo(c, "leaving")
  /\ UNCHANGED <<stops, failures, slots, locals, said>>

(* Mutant: whose key was refused is not asked.                             *)
RefuseAnyKey(c) ==
  /\ At(c, "answered")
  /\ said[c] \in KeyAnswers
  /\ \/ said[c] = "noRouter" /\ Trip(AuthSuspend)
     \/ said[c] \in {"refused", "stopLong"} /\ TripOwn(AuthSuspend)
     \/ said[c] = "stopShort" /\ TripOwn(Breaker)
  /\ GoTo(c, "leaving")
  /\ UNCHANGED <<failures, slots, refused, locals, said>>

(* _refused and the route's stops, met with the service's own key; only a  *)
(* missing router concerns every key.                                      *)
RefuseOwnKey(c) ==
  /\ At(c, "answered")
  /\ said[c] \in KeyAnswers
  /\ key[c] = OwnKey
  /\ \/ said[c] = "noRouter" /\ Trip(AuthSuspend)
     \/ said[c] \in {"refused", "stopLong"} /\ TripOwn(AuthSuspend)
     \/ said[c] = "stopShort" /\ TripOwn(Breaker)
  /\ GoTo(c, "leaving")
  /\ UNCHANGED <<failures, slots, refused, locals, said>>

(* A failed attempt counts, a 429 does not: it speaks of the key.          *)
CountFailure(c) ==
  /\ At(c, "answered")
  /\ said[c] \in {"failed", "limited"}
  /\ failures' = IF said[c] = "failed" /\ failures < Attempts
                   THEN failures + 1 ELSE failures
  /\ GoTo(c, "faulted")
  /\ UNCHANGED <<stops, slots, refused, locals, said>>

(* Mutant: the attempts are not counted.                                   *)
RetryUncounted(c) ==
  /\ At(c, "faulted")
  /\ said' = [said EXCEPT ![c] = "none"]
  /\ GoTo(c, "ready")
  /\ UNCHANGED <<stops, failures, slots, refused, locals>>

(* Another attempt after the backoff.                                      *)
Retry(c) ==
  /\ At(c, "faulted")
  /\ made[c] < tries[c]
  /\ made' = [made EXCEPT ![c] = @ + 1]
  /\ said' = [said EXCEPT ![c] = "none"]
  /\ GoTo(c, "ready")
  /\ UNCHANGED <<stops, failures, slots, refused, key, probe, tries>>

(* The loop ended: after the last attempt, or before it because no time or *)
(* no budget for another is left.  _limited for a last 429, ...            *)
Limited(c) ==
  /\ At(c, "faulted")
  /\ said[c] = "limited"
  /\ GoTo(c, "leaving")
  /\ \/ /\ key[c] # OwnKey /\ probe[c] # "outage"
        /\ refused' = refused \cup {key[c]}
        /\ UNCHANGED stops
     \/ /\ key[c] = OwnKey
        /\ made[c] >= Attempts \/ probe[c] = "ownKey"
        /\ TripOwn(Breaker)
        /\ UNCHANGED refused
     \/ /\ IF key[c] = OwnKey THEN made[c] < Attempts /\ probe[c] # "ownKey"
                              ELSE probe[c] = "outage"
        /\ UNCHANGED <<stops, refused>>
  /\ UNCHANGED <<failures, slots, locals, said>>

(* ... else the failures in a row are read, without the lock, ...          *)
Exhausted(c) ==
  /\ At(c, "faulted")
  /\ said[c] = "failed"
  /\ GoTo(c, IF failures >= Attempts THEN "tripping" ELSE "leaving")
  /\ UNCHANGED <<stops, failures, slots, refused, locals, said>>

(* ... and the stop is set under the lock, a step later.                   *)
TripAfterFailures(c) ==
  /\ At(c, "tripping")
  /\ Trip(Breaker)
  /\ GoTo(c, "leaving")
  /\ UNCHANGED <<failures, slots, refused, locals, said>>

(* Mutant: no finally clause; only Close and Trip take the flags down.     *)
LeaveFlagged(c) ==
  /\ At(c, "leaving")
  /\ GoTo(c, "idle")
  /\ key' = [key EXCEPT ![c] = OwnKey]
  /\ probe' = [probe EXCEPT ![c] = "none"]
  /\ tries' = [tries EXCEPT ![c] = 0]
  /\ made' = [made EXCEPT ![c] = 0]
  /\ said' = [said EXCEPT ![c] = "none"]
  /\ UNCHANGED <<stops, failures, slots, refused>>

(* The finally clause of _request: a probe clears the flag of its kind.    *)
Leave(c) ==
  /\ At(c, "leaving")
  /\ probing' = (probing /\ probe[c] # "outage")
  /\ ownProbing' = (ownProbing /\ probe[c] # "ownKey")
  /\ GoTo(c, "idle")
  /\ key' = [key EXCEPT ![c] = OwnKey]
  /\ probe' = [probe EXCEPT ![c] = "none"]
  /\ tries' = [tries EXCEPT ![c] = 0]
  /\ made' = [made EXCEPT ![c] = 0]
  /\ said' = [said EXCEPT ![c] = "none"]
  /\ UNCHANGED <<openLeft, ownLeft, failures, slots, refused>>

-----------------------------------------------------------------------------

(* The request with key k ends; the key comes back with another request,   *)
(* whose RequestKey is not refused.                                        *)
NewRequest(k) ==
  /\ k \in refused
  /\ \A c \in Calls : key[c] # k
  /\ refused' = refused \ {k}
  /\ UNCHANGED <<stops, failures, slots, pc, locals, said>>

Elapsed(left) == IF left > 0 THEN left - 1 ELSE left

Tick ==
  /\ openLeft > 0 \/ ownLeft > 0
  /\ openLeft' = Elapsed(openLeft)
  /\ ownLeft' = Elapsed(ownLeft)
  /\ UNCHANGED <<probing, ownProbing, failures, slots, refused, pc, locals, said>>

(* Everything call c does by itself once it is admitted.                   *)
Proceed(c) ==
  \/ KeyProblem(c)
  \/ Queue(c)
  \/ TakeSlot(c)
  \/ GiveUp(c)
  \/ TimeUp(c)
  \/ \E a \in Answers : Answer(c, a)
  \/ HandleAnswer(c)
  \/ HandleOdd(c)
  \/ HandleTimeout(c)
  \/ RefuseRequestKey(c)
  \/ RefuseOwnKey(c)
  \/ CountFailure(c)
  \/ Retry(c)
  \/ Limited(c)
  \/ Exhausted(c)
  \/ TripAfterFailures(c)
  \/ Leave(c)

Next ==
  \/ \E c \in Calls, k \in Keys, check \in BOOLEAN : Admit(c, k, check)
  \/ \E c \in Calls : Proceed(c)
  \/ \E k \in RequestKeys : NewRequest(k)
  \/ Tick

Spec == Init /\ [][Next]_vars

(* Time passes, and every admitted call comes to its end: each wait in it  *)
(* - for a slot, an answer, a backoff - has a time limit.  The calls with  *)
(* the service's own key do not cease.                                     *)
Fairness ==
  /\ WF_vars(Tick)
  /\ \A c \in Calls : WF_vars(Proceed(c))
  /\ SF_vars(\E c \in Calls : Admit(c, OwnKey, FALSE))

FairSpec == Spec /\ Fairness

-----------------------------------------------------------------------------
(* Properties                                                              *)

Out(c) == pc[c] # "idle"

(* A probe flag is up only while a call that will take it down is on its   *)
(* way.  A flag left behind holds back every call (probing) or every call  *)
(* with the service's own key (ownProbing) until the worker restarts:      *)
(* _admit refuses them all and only a call clears the flag.                *)
FlagsHaveProbes ==
  /\ probing => \E c \in Calls : Out(c) /\ probe[c] = "outage"
  /\ ownProbing => \E c \in Calls : Out(c) /\ probe[c] = "ownKey"

(* No path through an attempt loses or doubles a permit of the semaphore:  *)
(* the free ones and the attempts on the wire are MaxConcurrency together. *)
SlotsConserved ==
  slots + Cardinality({c \in Calls : At(c, "sent")}) = MaxConcurrency

(* Call c is the one that moves in this step.                              *)
Moves(c) == pc'[c] # pc[c]

StopShortens ==
  /\ openLeft' < openLeft /\ openLeft > 0
       => \/ openLeft' = openLeft - 1 /\ pc' = pc
          \/ \E c \in Calls : Moves(c) /\ said[c] \in {"ok", "wrong"}
  /\ ownLeft' < ownLeft /\ ownLeft > 0
       => \/ ownLeft' = ownLeft - 1 /\ pc' = pc
          \/ \E c \in Calls : /\ Moves(c)
                              /\ said[c] \in {"ok", "wrong"}
                              /\ key[c] = OwnKey

(* "A stop never cuts a longer one short" (D98): calls in flight answer in *)
(* any order after a stop, and a running stop ends before its time only by *)
(* an answer - the own-key stop only by one to the service's own key.      *)
StopsOnlyLengthen == [][StopShortens]_vars

KeyFault ==
  /\ \A k \in refused' \ refused : \E c \in Calls : Moves(c) /\ key[c] = k
  /\ ownLeft' > ownLeft
       => \E c \in Calls : /\ Moves(c)
                           /\ key[c] = OwnKey
                           /\ said[c] \in KeyAnswers \cup {"limited"}
  /\ openLeft' > openLeft
       => \E c \in Calls : /\ Moves(c)
                           /\ \/ said[c] \in {"timeout", "failed"}
                              \/ said[c] = "noRouter" /\ key[c] = OwnKey

(* What the b-api says of one key holds back nobody else (D105, D106): a   *)
(* key is refused only by an answer to a call that carries it, the own-key *)
(* stop begins or grows only with an answer to the service's own key, and  *)
(* the stop for all only with a sign of an outage: a timeout, failures in  *)
(* a row, or a b-api without a router.                                     *)
KeyFaultsStayWithTheirKey == [][KeyFault]_vars

(* Every call ends, whatever the b-api answers and whoever holds the slots *)
CallsEnd == \A c \in Calls : Out(c) ~> ~Out(c)

(* The b-api answers every attempt from some moment on.                    *)
BApiBack ==
  <>[][\A c \in Calls : Moves(c) /\ pc'[c] = "answered" => said'[c] = "ok"]_vars

(* Of the calls with the service's own key that queue for a permit, not    *)
(* all give up: their patience is what is left of their request.           *)
OwnCallsGetOut ==
  []<>(\E c \in Calls : key[c] = OwnKey /\ At(c, "queued"))
    => []<><<\E c \in Calls, a \in Answers : key[c] = OwnKey /\ Answer(c, a)>>_vars

(* Once the b-api answers every attempt again, the stops end and stay      *)
(* ended: no stop and no probe flag outlives the outage it was set for,    *)
(* whatever calls of before the recovery are still to be handled.          *)
Recovers ==
  BApiBack /\ OwnCallsGetOut => <>[](openLeft = Closed /\ ownLeft = Closed)

(* "Then a single call probes" (client.py, on BREAKER_S), and _admit's     *)
(* "the one probe after it": no two probes of an outage are on the wire.   *)
OneProbe ==
  \A c, d \in Calls :
    /\ probe[c] = "outage" /\ At(c, "sent")
    /\ probe[d] = "outage" /\ At(d, "sent")
    => c = d
=============================================================================
