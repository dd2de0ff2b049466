---------------------------- MODULE RateLimiter -----------------------------
(***************************************************************************)
(* Requests per client and minute on the expensive endpoints               *)
(* (app/api/limits.py, RateLimiter): a sliding window for each client, of  *)
(* which the least recently seen are forgotten.  The event loop runs one   *)
(* request at a time through it.  Time is counted in ticks, several to a   *)
(* second, as Retry-After only tells whole seconds.                        *)
(***************************************************************************)
EXTENDS Integers, SequencesExt

CONSTANTS
  Clients,     \* the addresses requests come from (client_key)
  Limit,       \* RATE_LIMIT
  Window,      \* window_s, in ticks
  Second,      \* the ticks of a second
  MaxClients,  \* MAX_CLIENTS
  MaxTime      \* a bound on the time

(* The limiter is there for a limit above zero (main.py:341).              *)
LimiterAssumption ==
  /\ {Limit, Window, Second, MaxClients} \subseteq Nat \ {0}
  /\ MaxTime \in Nat

VARIABLES
  now,
  hits,      \* hits[c]: the times in the window of client c (_hits)
  order,     \* the clients with a window, the least recently seen first
  passed,    \* passed[c]: when it was let through, since it was forgotten
  promised   \* promised[c]: when it may come again, if it was refused

vars == <<now, hits, order, passed, promised>>

Times == 0 .. MaxTime
NoPromise == -1

TypeOK ==
  /\ now \in Times
  /\ hits \in [Clients -> Seq(Times)]
  /\ order \in Seq(Clients) /\ IsInjective(order) /\ Len(order) <= MaxClients
  /\ passed \in [Clients -> Seq(Times)]
  /\ promised \in [Clients -> Int]

Init ==
  /\ now = 0
  /\ hits = [c \in Clients |-> <<>>]
  /\ order = <<>>
  /\ passed = [c \in Clients |-> <<>>]
  /\ promised = [c \in Clients |-> NoPromise]

(* The times still in the window that ends at a moment: those before the   *)
(* first of them go (popleft).  One exactly as old as the window has left. *)
From(times, begin) ==
  LET first == CHOOSE i \in 1 .. Len(times) + 1 :
                 /\ \A j \in 1 .. i - 1 : times[j] < begin
                 /\ i \in DOMAIN times => times[i] >= begin
  IN  SubSeq(times, first, Len(times))

(* Mutant: the hit exactly one window old stays.                           *)
FreshToTheEnd(times) == From(times, now - Window)

Fresh(times) == From(times, now - Window + 1)

(* Whole seconds until the oldest hit leaves the window, rounded up.       *)
RetryAfter(times) ==
  Max({1, (Head(times) + Window - now + Second - 1) \div Second})

(* The client comes last (move_to_end).                                    *)
Without(c) ==
  IF c \in Range(order) THEN RemoveAt(order, CHOOSE i \in DOMAIN order : order[i] = c)
                        ELSE order
Seen(c) == Append(Without(c), c)

(* Beyond MAX_CLIENTS the least recently seen one is forgotten.            *)
Forgotten(c) ==
  IF Len(Seen(c)) > MaxClients THEN {Head(Seen(c))} ELSE {}

Pass(c) ==
  /\ Len(Fresh(hits[c])) < Limit
  /\ hits' = [d \in Clients |-> IF d \in Forgotten(c) THEN <<>>
                                ELSE IF d = c THEN Append(Fresh(hits[c]), now)
                                ELSE hits[d]]
  /\ order' = IF Forgotten(c) = {} THEN Seen(c) ELSE Tail(Seen(c))
  /\ passed' = [d \in Clients |-> IF d \in Forgotten(c) THEN <<>>
                                  ELSE IF d = c THEN Append(passed[c], now)
                                  ELSE passed[d]]
  /\ promised' = [d \in Clients |->
       IF d \in Forgotten(c) \cup {c} THEN NoPromise ELSE promised[d]]
  /\ UNCHANGED now

(* A refused request counts as seen, not as a hit: 429 with Retry-After.   *)
Refuse(c) ==
  /\ Len(Fresh(hits[c])) >= Limit
  /\ hits' = [hits EXCEPT ![c] = Fresh(@)]
  /\ order' = Seen(c)
  /\ promised' = [promised EXCEPT ![c] =
       now + Second * RetryAfter(Fresh(hits[c]))]
  /\ UNCHANGED <<now, passed>>

(* Times that have left every window are forgotten.                        *)
Tick ==
  /\ now < MaxTime
  /\ now' = now + 1
  /\ passed' = [c \in Clients |-> From(passed[c], now' - Window + 1)]
  /\ UNCHANGED <<hits, order, promised>>

Next == Tick \/ \E c \in Clients : Pass(c) \/ Refuse(c)

Spec == Init /\ [][Next]_vars

-----------------------------------------------------------------------------
(* Properties                                                              *)

(* "At most limit requests within window_s seconds" (limits.py:49) for a   *)
(* client that was not forgotten, wherever the window begins.              *)
WithinWindow == \A c \in Clients : Len(passed[c]) <= Limit

(* A client told to come again in n seconds is let through when it does,   *)
(* even if it came before and was refused again.                           *)
PromiseKept ==
  \A c \in Clients :
    promised[c] # NoPromise /\ now >= promised[c] => Len(Fresh(hits[c])) < Limit

(* No client has more, and none is kept out longer than it was told.       *)
WindowKept == WithinWindow /\ PromiseKept
=============================================================================
