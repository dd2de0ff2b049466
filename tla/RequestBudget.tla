--------------------------- MODULE RequestBudget ---------------------------
(***************************************************************************)
(* The token budget of one request (app/llm/budget.py, RequestBudget) and  *)
(* the calls that spend it (app/llm/call.py, budgeted_chat) within the     *)
(* request's time (app/llm/deadline.py).  The calls of a request run in    *)
(* parallel threads.  Each reserves an upper bound of what it can cost,    *)
(* waits for room when the reservations of others stand in its way,        *)
(* reserves its prompt again before it retries an attempt that may have    *)
(* reached the model, and replaces what it holds by what it spent.         *)
(***************************************************************************)
EXTENDS Integers, FiniteSetsExt

CONSTANTS
  Calls,     \* the LLM calls of the request
  Limit,     \* LLM_MAX_TOKENS_PER_REQUEST
  Prompt,    \* Prompt[c]: the estimated tokens of call c's prompt
  Output,    \* BApiClient.completion_limit: the tokens an answer may have
  Attempts   \* LLM_ATTEMPTS

(* What the settings and the estimate of a prompt give.                    *)
BudgetAssumption ==
  /\ IsFiniteSet(Calls)
  /\ Limit \in Nat
  /\ Output \in Nat
  /\ Attempts \in Nat \ {0}
  /\ Prompt \in [Calls -> Nat]

Needed(c) == Prompt[c] + Output

VARIABLES
  used,      \* RequestBudget.used
  reserved,  \* RequestBudget._reserved
  timed,     \* whether the request has a deadline
  timeUp,    \* less than MIN_CALL_S of it is left
  pc,        \* where each call stands
  held,      \* what budgeted_chat holds for it (held)
  made,      \* attempts the client has begun for it
  reached    \* of those over, the ones that may have reached the model

vars == <<used, reserved, timed, timeUp, pc, held, made, reached>>

Places == {"new", "asking", "waiting", "granted", "calling",
           "denied", "skipped", "ended"}

TypeOK ==
  /\ used \in Nat
  /\ reserved \in Nat
  /\ timed \in BOOLEAN
  /\ timeUp \in BOOLEAN
  /\ pc \in [Calls -> Places]
  /\ held \in [Calls -> Nat]
  /\ made \in [Calls -> 0 .. Attempts]
  /\ reached \in [Calls -> 0 .. Attempts]

Init ==
  /\ used = 0
  /\ reserved = 0
  /\ timed \in BOOLEAN
  /\ timeUp = FALSE
  /\ pc = [c \in Calls |-> "new"]
  /\ held = [c \in Calls |-> 0]
  /\ made = [c \in Calls |-> 0]
  /\ reached = [c \in Calls |-> 0]

(* Mutant: what parallel calls hold is not counted.                        *)
FitsSpent(tokens) == used + tokens <= Limit

Fits(tokens) == used + reserved + tokens <= Limit
Hopeless(tokens) == used + tokens > Limit

GoTo(c, place) == pc' = [pc EXCEPT ![c] = place]

(* Deadline: the time left falls below MIN_CALL_S, or expire ends it.      *)
TimeUp ==
  /\ timed
  /\ ~timeUp
  /\ timeUp' = TRUE
  /\ UNCHANGED <<used, reserved, timed, pc, held, made, reached>>

(* call_timeout before the reservation.                                    *)
Begin(c) ==
  /\ pc[c] = "new"
  /\ GoTo(c, IF timeUp THEN "skipped" ELSE "asking")
  /\ UNCHANGED <<used, reserved, timed, timeUp, held, made, reached>>

(* reserve: granted, ...                                                   *)
Grant(c) ==
  /\ pc[c] = "asking" \/ (pc[c] = "waiting" /\ timeUp)
  /\ Fits(Needed(c))
  /\ reserved' = reserved + Needed(c)
  /\ held' = [held EXCEPT ![c] = Needed(c)]
  /\ GoTo(c, "granted")
  /\ UNCHANGED <<used, timed, timeUp, made, reached>>

(* Mutant: a call without room is turned away at once.                     *)
DenyAtOnce(c) ==
  /\ ~Fits(Needed(c))
  /\ pc[c] = "asking" \/ (pc[c] = "waiting" /\ timeUp)
  /\ GoTo(c, "denied")
  /\ UNCHANGED <<used, reserved, timed, timeUp, held, made, reached>>

(* ... refused, as no settling of others could make room or the time to    *)
(* wait for it is over, ...                                                *)
Deny(c) ==
  /\ ~Fits(Needed(c))
  /\ \/ pc[c] = "asking" /\ Hopeless(Needed(c))
     \/ pc[c] = "waiting" /\ timeUp
  /\ GoTo(c, "denied")
  /\ UNCHANGED <<used, reserved, timed, timeUp, held, made, reached>>

(* ... or asleep in wait_for until a settling wakes it.                    *)
Wait(c) ==
  /\ pc[c] = "asking"
  /\ ~Fits(Needed(c))
  /\ ~Hopeless(Needed(c))
  /\ GoTo(c, "waiting")
  /\ UNCHANGED <<used, reserved, timed, timeUp, held, made, reached>>

(* The call goes out with the time the wait for the budget left.           *)
Send(c) ==
  /\ pc[c] = "granted"
  /\ ~timeUp
  /\ made' = [made EXCEPT ![c] = 1]
  /\ GoTo(c, "calling")
  /\ UNCHANGED <<used, reserved, timed, timeUp, held, reached>>

(* Mutant: settling wakes nobody.                                          *)
SettleSilently(c, spent) ==
  /\ reserved' = Max({0, reserved - held[c]})
  /\ used' = used + spent
  /\ held' = [held EXCEPT ![c] = 0]
  /\ GoTo(c, "ended")
  /\ UNCHANGED <<timed, timeUp>>

(* settle, and the waiting calls it wakes (notify_all).                    *)
Settle(c, spent) ==
  /\ reserved' = Max({0, reserved - held[c]})
  /\ used' = used + spent
  /\ held' = [held EXCEPT ![c] = 0]
  /\ pc' = [d \in Calls |-> IF d = c THEN "ended"
                            ELSE IF pc[d] = "waiting" THEN "asking" ELSE pc[d]]
  /\ UNCHANGED <<timed, timeUp>>

(* Mutant: no finally clause; an early end keeps its reservation.          *)
EndUnsettled(c) ==
  /\ \/ pc[c] = "granted" /\ timeUp
     \/ pc[c] = "calling"
  /\ held' = [held EXCEPT ![c] = 0]
  /\ GoTo(c, "ended")
  /\ UNCHANGED <<used, reserved, timed, timeUp, made, reached>>

(* The wait for the budget took the time of the call; an error that is no  *)
(* LlmError costs nothing either: the finally clause settles both.         *)
EndUnspent(c) ==
  /\ \/ pc[c] = "granted" /\ timeUp
     \/ pc[c] = "calling"
  /\ Settle(c, 0)
  /\ UNCHANGED <<made, reached>>

(* Mutant: an attempt that did not reach the model is repeated for ever.   *)
RetryForever(c) ==
  /\ pc[c] = "calling"
  /\ made' = [made EXCEPT ![c] = @ + 1]
  /\ UNCHANGED <<used, reserved, timed, timeUp, pc, held, reached>>

(* An attempt failed without reaching the model; the client retries it     *)
(* without asking for budget.                                              *)
RetryUnreached(c) ==
  /\ pc[c] = "calling"
  /\ made[c] < Attempts
  /\ made' = [made EXCEPT ![c] = @ + 1]
  /\ UNCHANGED <<used, reserved, timed, timeUp, pc, held, reached>>

(* reserve_retry: an attempt that may have reached the model is retried    *)
(* only with room for its prompt, without waiting for it.                  *)
RetryReached(c) ==
  /\ pc[c] = "calling"
  /\ made[c] < Attempts
  /\ Fits(Prompt[c])
  /\ reserved' = reserved + Prompt[c]
  /\ held' = [held EXCEPT ![c] = @ + Prompt[c]]
  /\ made' = [made EXCEPT ![c] = @ + 1]
  /\ reached' = [reached EXCEPT ![c] = @ + 1]
  /\ UNCHANGED <<used, timed, timeUp, pc>>

(* What the last attempt of a call can cost: nothing, when it did not      *)
(* reach the model, its prompt, when it may have, and what an answer's     *)
(* usage reports - the prompt and no more than the output limit.           *)
LastCosts(c) == {0, Prompt[c], Needed(c)}

(* The answer, or the LlmError the call ends with: each attempt before it  *)
(* that may have reached the model is charged its prompt.                  *)
End(c, cost) ==
  /\ pc[c] = "calling"
  /\ Settle(c, Prompt[c] * reached[c] + cost)
  /\ UNCHANGED <<made, reached>>

Next ==
  \/ TimeUp
  \/ \E c \in Calls :
       \/ Begin(c)
       \/ Grant(c)
       \/ Deny(c)
       \/ Wait(c)
       \/ Send(c)
       \/ EndUnspent(c)
       \/ RetryUnreached(c)
       \/ RetryReached(c)
       \/ \E cost \in LastCosts(c) : End(c, cost)

Spec == Init /\ [][Next]_vars

(* Every call's thread runs on, and an attempt ends by its own timeout.    *)
(* Nothing is assumed of the deadline: a request may have none.            *)
CallStep(c) ==
  \/ Begin(c) \/ Grant(c) \/ Deny(c) \/ Wait(c) \/ Send(c) \/ EndUnspent(c)
  \/ RetryUnreached(c) \/ RetryReached(c)
  \/ \E cost \in LastCosts(c) : End(c, cost)

FairSpec == Spec /\ \A c \in Calls : WF_vars(CallStep(c))

-----------------------------------------------------------------------------
(* Properties                                                              *)

(* Parallel calls cannot overshoot the limit between the check and the     *)
(* call, retries included (audit L1): what is spent and what is held never *)
(* exceed it together.                                                     *)
WithinLimit == used + reserved <= Limit

(* _reserved is what the calls in flight hold, neither leaked nor settled  *)
(* twice: a leaked reservation shrinks the request.                        *)
Reservations == UNION {{c} \X (1 .. held[c]) : c \in Calls}

ReservedIsHeld == reserved = Cardinality(Reservations)

(* A request without a deadline turns a call away only for tokens really   *)
(* spent, never for reservations that others might give back.              *)
DeniedForSpentTokens ==
  ~timed => \A c \in Calls : pc[c] = "denied" => Hopeless(Needed(c))

(* No call waits for ever: each is answered, fails or is turned away, also *)
(* without a deadline, where it waits as long as others are in flight.     *)
(* What has ended stays so: some day all have.                             *)
EveryCallEnds == <>(\A c \in Calls : pc[c] \in {"denied", "skipped", "ended"})
=============================================================================
