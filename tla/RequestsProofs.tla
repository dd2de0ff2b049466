------------------------ MODULE RequestsProofs ------------------------
(***************************************************************************)
(* The theorems of module Requests, for any values of its constants: the   *)
(* budget of the calls (B), the reader of collections (C) and the threads  *)
(* of a request, and that each behaviour of the whole is one of every part,*)
(* so that what holds of a part holds of the whole.                        *)
(***************************************************************************)
EXTENDS RegenerationProofs, WorkerProofs

-----------------------------------------------------------------------------
(* B, the budget of the calls                                               *)

(* The operators of FiniteSets are the same in every part.                 *)
LEMMA SameCardinality ==
  ASSUME NEW set
  PROVE  /\ B!Cardinality(set) = Cardinality(set)
         /\ B!IsFiniteSet(set) <=> IsFiniteSet(set)
<1>1. B!Cardinality(set) = Cardinality(set)
  BY DEF B!Cardinality, Cardinality
<1>2. B!IsFiniteSet(set) <=> IsFiniteSet(set)
  BY DEF B!IsFiniteSet, IsFiniteSet
<1> QED BY <1>1, <1>2

-----------------------------------------------------------------------------
(* B, the budget of a request                                              *)

LEMMA BudgetBounds ==
  /\ IsFiniteSet(Calls) /\ TokenLimit \in Nat /\ Output \in Nat
  /\ CallAttempts \in Nat \ {0} /\ Prompt \in [Calls -> Nat]
BY BudgetAssumption, SameCardinality DEF B!BudgetAssumption

(* What one call holds, token by token, and what the others do.            *)
Tokens(c, n) == {c} \X (1 .. n)
OfOthers(c) == UNION {Tokens(d, held[d]) : d \in Calls \ {c}}

LEMMA TokensCount ==
  ASSUME NEW c, NEW n \in Nat
  PROVE  IsFiniteSet(Tokens(c, n)) /\ Cardinality(Tokens(c, n)) = n
<1>1. IsFiniteSet({c}) /\ Cardinality({c}) = 1
  BY FS_Singleton
<1>2. IsFiniteSet(1 .. n) /\ Cardinality(1 .. n) = n
  BY FS_Interval
<1> DEFINE one == {c}
           range == 1 .. n
<1> HIDE DEF one, range
<1>3. /\ IsFiniteSet(one \X range)
      /\ Cardinality(one \X range) = Cardinality(one) * Cardinality(range)
  <2>1. IsFiniteSet(one) /\ IsFiniteSet(range)
    BY <1>1, <1>2 DEF one, range
  <2> QED BY <2>1, FS_Product
<1>4. Cardinality(one) = 1 /\ Cardinality(range) = n
  BY <1>1, <1>2 DEF one, range
<1>5. Cardinality(one \X range) = n
  BY <1>3, <1>4
<1> QED BY <1>3, <1>5 DEF Tokens, one, range

(* One call takes or gives back tokens, the others hold what they held.    *)
LEMMA OneChanges ==
  ASSUME held \in [Calls -> Nat], IsFiniteSet(B!Reservations),
         NEW c \in Calls, NEW n \in Nat, held' = [held EXCEPT ![c] = n]
  PROVE  /\ IsFiniteSet(B!Reservations')
         /\ held[c] <= Cardinality(B!Reservations)
         /\ Cardinality(B!Reservations') = Cardinality(B!Reservations) - held[c] + n
<1>1. /\ B!Reservations = Tokens(c, held[c]) \cup OfOthers(c)
      /\ Tokens(c, held[c]) \cap OfOthers(c) = {}
  BY DEF B!Reservations, Tokens, OfOthers
<1>2. OfOthers(c)' = OfOthers(c) /\ held'[c] = n
  BY DEF OfOthers
<1>3. /\ B!Reservations' = Tokens(c, n) \cup OfOthers(c)
      /\ Tokens(c, n) \cap OfOthers(c) = {}
  <2>1. /\ B!Reservations' = Tokens(c, held'[c]) \cup OfOthers(c)'
    BY DEF B!Reservations, Tokens, OfOthers
  <2> QED BY <2>1, <1>2 DEF Tokens, OfOthers
<1> DEFINE above == OfOthers(c)
<1>4. IsFiniteSet(above)
  BY <1>1, FS_Subset
<1> HIDE DEF above
<1>5. Cardinality(above) \in Nat
  BY <1>4, FS_CardinalityType
<1>7. \A k \in Nat : Tokens(c, k) \cap above = {} =>
        /\ IsFiniteSet(Tokens(c, k) \cup above)
        /\ Cardinality(Tokens(c, k) \cup above) = k + Cardinality(above)
  <2> SUFFICES ASSUME NEW k \in Nat, Tokens(c, k) \cap above = {}
               PROVE  /\ IsFiniteSet(Tokens(c, k) \cup above)
                      /\ Cardinality(Tokens(c, k) \cup above) = k + Cardinality(above)
    OBVIOUS
  <2>1. IsFiniteSet(Tokens(c, k)) /\ Cardinality(Tokens(c, k)) = k
    BY TokensCount
  <2>2. /\ IsFiniteSet(Tokens(c, k) \cup above)
        /\ Cardinality(Tokens(c, k) \cup above)
             = Cardinality(Tokens(c, k)) + Cardinality(above)
                 - Cardinality(Tokens(c, k) \cap above)
    BY <1>4, <2>1, FS_Union
  <2>3. Cardinality(Tokens(c, k) \cap above) = 0
    BY FS_EmptySet
  <2> QED BY <2>1, <2>2, <2>3, <1>5
<1>9. held[c] \in Nat
  OBVIOUS
<1>10. /\ B!Reservations = Tokens(c, held[c]) \cup above
       /\ B!Reservations' = Tokens(c, n) \cup above
  BY <1>1, <1>3 DEF above
<1>11. Tokens(c, held[c]) \cap above = {} /\ Tokens(c, n) \cap above = {}
  BY <1>1, <1>3 DEF above
<1>12. /\ Cardinality(B!Reservations) = held[c] + Cardinality(above)
       /\ Cardinality(B!Reservations') = n + Cardinality(above)
       /\ IsFiniteSet(B!Reservations')
  BY <1>7, <1>9, <1>10, <1>11
<1> QED BY <1>5, <1>9, <1>12

(* What is held is what is reserved, and no more than there is.            *)
Balance ==
  /\ IsFiniteSet(B!Reservations) /\ reserved = Cardinality(B!Reservations)
  /\ used + reserved <= TokenLimit

(* A call holds what it can still cost: its prompt and its answer once     *)
(* more than the attempts that may have reached the model.                 *)
Holds(c) ==
  /\ callAt[c] \in {"new", "asking", "waiting"} => held[c] = 0
  /\ callAt[c] \in {"new", "asking", "waiting", "granted"} => made[c] = 0 /\ reached[c] = 0
  /\ callAt[c] = "granted" => held[c] = B!Needed(c)
  /\ callAt[c] = "calling" => held[c] = B!Needed(c) + Prompt[c] * reached[c]
  /\ reached[c] <= made[c]

BudgetInv ==
  /\ B!TypeOK /\ Balance
  /\ \A c \in Calls : Holds(c)
  /\ timeUp => timed
  /\ B!DeniedForSpentTokens

LEMMA OneMore == \A p, n \in Nat : p * (n + 1) = p * n + p /\ p * n \in Nat
  OBVIOUS

LEMMA CallNumbers ==
  ASSUME B!TypeOK, NEW c \in Calls
  PROVE  /\ Prompt[c] \in Nat /\ B!Needed(c) \in Nat /\ held[c] \in Nat
         /\ made[c] \in Nat /\ made[c] <= CallAttempts /\ CallAttempts >= 1
         /\ reached[c] \in Nat /\ Prompt[c] * reached[c] \in Nat
         /\ used \in Nat /\ reserved \in Nat /\ TokenLimit \in Nat /\ CallAttempts \in Nat
<1>1. Prompt[c] \in Nat /\ B!Needed(c) \in Nat
  BY BudgetBounds DEF B!Needed
<1>2. made[c] \in 0 .. CallAttempts /\ reached[c] \in 0 .. CallAttempts
  BY DEF B!TypeOK
<1>3. reached[c] \in Nat /\ made[c] \in Nat /\ made[c] <= CallAttempts
  BY <1>2, BudgetBounds
<1> QED BY <1>1, <1>3, OneMore, BudgetBounds DEF B!TypeOK

(* A call takes tokens that fit: grant, or the prompt of a retry.          *)
LEMMA TakingBalances ==
  ASSUME BudgetInv, NEW c \in Calls, NEW tokens \in Nat, B!Fits(tokens),
         reserved' = reserved + tokens, held' = [held EXCEPT ![c] = held[c] + tokens],
         UNCHANGED used
  PROVE  Balance' /\ reserved' \in Nat /\ held' \in [Calls -> Nat]
<1>1. held \in [Calls -> Nat] /\ reserved \in Nat /\ used \in Nat
  BY DEF BudgetInv, B!TypeOK
<1>2. held[c] + tokens \in Nat
  BY <1>1
<1>3. /\ IsFiniteSet(B!Reservations')
      /\ Cardinality(B!Reservations') = Cardinality(B!Reservations) - held[c] + (held[c] + tokens)
  BY <1>1, <1>2, OneChanges DEF BudgetInv, Balance
<1>4. reserved = Cardinality(B!Reservations) /\ held[c] \in Nat
  BY <1>1 DEF BudgetInv, Balance
<1>5. reserved' = Cardinality(B!Reservations')
  BY <1>1, <1>3, <1>4
<1>6. used' + reserved' <= TokenLimit
  BY <1>1, BudgetBounds DEF B!Fits
<1>7. held' \in [Calls -> Nat] /\ reserved' \in Nat
  BY <1>1, <1>2
<1> QED BY <1>3, <1>5, <1>6, <1>7 DEF Balance

(* A call ends and costs no more than it held.                             *)
LEMMA SettlingKeeps ==
  ASSUME BudgetInv, NEW c \in Calls, NEW spend \in Nat, spend <= held[c],
         callAt[c] \in {"granted", "calling"},
         B!Settle(c, spend), UNCHANGED <<made, reached>>
  PROVE  BudgetInv'
<1>1. held \in [Calls -> Nat] /\ reserved \in Nat /\ used \in Nat /\ B!TypeOK
  BY DEF BudgetInv, B!TypeOK
<1>2. /\ IsFiniteSet(B!Reservations') /\ held[c] <= Cardinality(B!Reservations)
      /\ Cardinality(B!Reservations') = Cardinality(B!Reservations) - held[c] + 0
  BY <1>1, OneChanges DEF BudgetInv, Balance, B!Settle
<1>3. reserved = Cardinality(B!Reservations) /\ held[c] \in Nat
  BY <1>1 DEF BudgetInv, Balance
<1>4. reserved' = reserved - held[c]
  BY <1>1, <1>2, <1>3 DEF B!Settle, B!Max
<1>5. used' = used + spend /\ UNCHANGED <<timed, timeUp>>
  BY DEF B!Settle
<1>6. Balance'
  <2>1. reserved' = Cardinality(B!Reservations')
    BY <1>1, <1>2, <1>3, <1>4
  <2>2. used + reserved <= TokenLimit
    BY DEF BudgetInv, Balance
  <2>3. used' + reserved' <= TokenLimit
    BY <1>1, <1>3, <1>4, <1>5, <2>2, BudgetBounds
  <2> QED BY <1>2, <2>1, <2>3 DEF Balance
<1>7. B!TypeOK'
  <2>1. callAt' \in [Calls -> B!Places]
    BY <1>1 DEF B!TypeOK, B!Settle, B!Places
  <2>2. held' \in [Calls -> Nat]
    BY <1>1 DEF B!Settle
  <2>3. reserved' \in Nat /\ used' \in Nat
    BY <1>1, <1>2, <1>3, <1>4, <1>5
  <2> QED BY <1>1, <1>5, <2>1, <2>2, <2>3 DEF B!TypeOK
<1>8. ASSUME NEW d \in Calls
      PROVE  Holds(d)'
  <2>1. Holds(d)
    BY DEF BudgetInv
  <2>2. CASE d = c
    <3>1. callAt'[d] = "ended" /\ reached'[d] <= made'[d]
      BY <1>1, <2>1, <2>2 DEF B!Settle, Holds
    <3> QED BY <3>1 DEF Holds
  <2>3. CASE d # c
    <3>1. held'[d] = held[d] /\ made'[d] = made[d] /\ reached'[d] = reached[d]
      BY <1>1, <2>3 DEF B!Settle
    <3>2. callAt'[d] = callAt[d] \/ (callAt[d] = "waiting" /\ callAt'[d] = "asking")
      BY <1>1, <2>3 DEF B!Settle
    <3> QED BY <2>1, <3>1, <3>2 DEF Holds, B!Needed
  <2> QED BY <2>2, <2>3
<1>9. B!DeniedForSpentTokens'
  <2>1. \A d \in Calls : callAt'[d] = "denied" => callAt[d] = "denied"
    BY <1>1 DEF B!Settle, B!TypeOK
  <2>2. \A d \in Calls : B!Hopeless(B!Needed(d)) => B!Hopeless(B!Needed(d))'
    BY <1>1, <1>5, CallNumbers DEF B!Hopeless, B!Needed
  <2> QED BY <1>5, <2>1, <2>2 DEF BudgetInv, B!DeniedForSpentTokens
<1> QED BY <1>5, <1>6, <1>7, <1>8, <1>9 DEF BudgetInv

LEMMA BudgetStep ==
  ASSUME BudgetInv, [B!Next]_(B!vars)
  PROVE  BudgetInv'
<1> USE DEF B!GoTo
<1>0. /\ held \in [Calls -> Nat] /\ reserved \in Nat /\ used \in Nat
      /\ callAt \in [Calls -> B!Places]
      /\ made \in [Calls -> 0 .. CallAttempts] /\ reached \in [Calls -> 0 .. CallAttempts]
  BY DEF BudgetInv, B!TypeOK
<1>1. CASE UNCHANGED B!vars
  <2>1. B!Reservations' = B!Reservations
    BY <1>1 DEF B!vars, B!Reservations
  <2> QED
    BY <1>1, <2>1 DEF B!vars, BudgetInv, B!TypeOK, Balance, Holds, B!Needed,
                      B!DeniedForSpentTokens, B!Hopeless
<1>2. CASE B!TimeUp
  <2>1. B!Reservations' = B!Reservations
    BY <1>2 DEF B!TimeUp, B!Reservations
  <2> QED
    BY <1>2, <2>1 DEF B!TimeUp, BudgetInv, B!TypeOK, Balance, Holds, B!Needed,
                      B!DeniedForSpentTokens, B!Hopeless
<1>3. ASSUME NEW c \in Calls, B!Begin(c) \/ B!Deny(c) \/ B!Wait(c)
      PROVE  BudgetInv'
  <2>1. UNCHANGED <<used, reserved, timed, timeUp, held, made, reached>>
    BY <1>3 DEF B!Begin, B!Deny, B!Wait
  <2>2. Balance'
    BY <2>1 DEF BudgetInv, Balance, B!Reservations
  <2>3. /\ callAt[c] \in {"new", "asking", "waiting"}
        /\ \E place \in {"skipped", "asking", "denied", "waiting"} :
             callAt' = [callAt EXCEPT ![c] = place]
    BY <1>3 DEF B!Begin, B!Deny, B!Wait
  <2>4. B!TypeOK'
    BY <1>0, <2>1, <2>3 DEF BudgetInv, B!TypeOK, B!Places
  <2>5. \A d \in Calls : Holds(d)'
    BY <1>0, <2>1, <2>3 DEF BudgetInv, Holds, B!Needed
  <2>6. B!DeniedForSpentTokens'
    <3>1. ASSUME NEW d \in Calls, ~timed, callAt'[d] = "denied"
          PROVE  B!Hopeless(B!Needed(d))
      <4>1. CASE callAt[d] = "denied"
        BY <3>1, <4>1 DEF BudgetInv, B!DeniedForSpentTokens
      <4>2. CASE callAt[d] # "denied"
        <5>1. d = c /\ B!Deny(c)
          BY <1>0, <1>3, <3>1, <4>2 DEF B!Begin, B!Deny, B!Wait
        <5> QED BY <3>1, <5>1 DEF B!Deny, BudgetInv
      <4> QED BY <4>1, <4>2
    <3> QED BY <2>1, <3>1 DEF B!DeniedForSpentTokens, B!Hopeless, B!Needed
  <2> QED BY <2>1, <2>2, <2>4, <2>5, <2>6 DEF BudgetInv
<1>4. ASSUME NEW c \in Calls, B!Grant(c)
      PROVE  BudgetInv'
  <2>1. held[c] = 0 /\ B!Needed(c) \in Nat /\ made[c] = 0 /\ reached[c] = 0
    BY <1>4, CallNumbers DEF BudgetInv, Holds, B!Grant
  <2>2. UNCHANGED <<used, timed, timeUp, made, reached>>
    BY <1>4 DEF B!Grant
  <2>3. held' = [held EXCEPT ![c] = held[c] + B!Needed(c)] /\ reserved' = reserved + B!Needed(c)
    <3>1. held[c] + B!Needed(c) = B!Needed(c)
      BY <2>1
    <3> QED BY <1>4, <3>1 DEF B!Grant
  <2>4. Balance' /\ reserved' \in Nat /\ held' \in [Calls -> Nat]
    BY <1>4, <2>1, <2>2, <2>3, TakingBalances DEF B!Grant
  <2>5. callAt' = [callAt EXCEPT ![c] = "granted"]
    BY <1>4 DEF B!Grant
  <2>6. callAt' \in [Calls -> B!Places]
    BY <1>0, <2>5 DEF B!Places
  <2>7. B!TypeOK'
    BY <2>2, <2>4, <2>6 DEF BudgetInv, B!TypeOK
  <2>8. ASSUME NEW d \in Calls
        PROVE  Holds(d)'
    <3>1. CASE d = c
      <4>1. callAt'[d] = "granted" /\ held'[d] = B!Needed(d) /\ made'[d] = 0 /\ reached'[d] = 0
        BY <1>0, <2>1, <2>2, <2>3, <2>5, <3>1
      <4> QED BY <4>1 DEF Holds, B!Needed
    <3>2. CASE d # c
      BY <1>0, <2>2, <2>3, <2>5, <3>2 DEF BudgetInv, Holds, B!Needed
    <3> QED BY <3>1, <3>2
  <2>9. B!DeniedForSpentTokens'
    BY <1>0, <2>2, <2>5 DEF BudgetInv, B!DeniedForSpentTokens, B!Hopeless, B!Needed
  <2> QED BY <2>2, <2>4, <2>7, <2>8, <2>9 DEF BudgetInv
<1>5. ASSUME NEW c \in Calls, B!Send(c) \/ B!RetryUnreached(c)
      PROVE  BudgetInv'
  <2>1. UNCHANGED <<used, reserved, timed, timeUp, held, reached>>
    BY <1>5 DEF B!Send, B!RetryUnreached
  <2>2. Balance'
    BY <2>1 DEF BudgetInv, Balance, B!Reservations
  <2>3. callAt' = [callAt EXCEPT ![c] = "calling"]
    BY <1>0, <1>5 DEF B!Send, B!RetryUnreached
  <2>4. PICK n \in 1 .. CallAttempts : made' = [made EXCEPT ![c] = n] /\ reached[c] <= n
    <3>1. CASE B!Send(c)
      <4>1. made' = [made EXCEPT ![c] = 1] /\ reached[c] = 0
        BY <3>1 DEF B!Send, BudgetInv, Holds
      <4>2. 1 \in 1 .. CallAttempts /\ reached[c] <= 1
        BY <4>1, BudgetBounds
      <4> QED BY <4>1, <4>2
    <3>2. CASE B!RetryUnreached(c)
      <4>1. made' = [made EXCEPT ![c] = made[c] + 1] /\ made[c] < CallAttempts
        BY <3>2 DEF B!RetryUnreached
      <4>2. reached[c] <= made[c]
        BY DEF BudgetInv, Holds
      <4>3. made[c] + 1 \in 1 .. CallAttempts /\ reached[c] <= made[c] + 1
        BY <4>1, <4>2, CallNumbers DEF BudgetInv
      <4> QED BY <4>1, <4>3
    <3> QED BY <1>5, <3>1, <3>2
  <2>5. B!TypeOK'
    <3>1. callAt' \in [Calls -> B!Places]
      BY <1>0, <2>3 DEF B!Places
    <3>2. made' \in [Calls -> 0 .. CallAttempts]
      BY <1>0, <2>4
    <3> QED BY <2>1, <3>1, <3>2 DEF BudgetInv, B!TypeOK
  <2>6. ASSUME NEW d \in Calls
        PROVE  Holds(d)'
    <3>1. CASE d = c
      <4>1. callAt'[d] = "calling" /\ made'[d] = n
        BY <1>0, <2>3, <2>4, <3>1
      <4>2. held[d] = B!Needed(d) + Prompt[d] * reached[d]
        <5>1. CASE B!Send(c)
          <6>1. held[d] = B!Needed(d) /\ reached[d] = 0
            BY <5>1, <3>1 DEF B!Send, BudgetInv, Holds
          <6> QED BY <6>1, CallNumbers DEF BudgetInv
        <5>2. CASE B!RetryUnreached(c)
          BY <5>2, <3>1 DEF B!RetryUnreached, BudgetInv, Holds
        <5> QED BY <1>5, <5>1, <5>2
      <4> QED BY <2>1, <2>4, <3>1, <4>1, <4>2 DEF Holds, B!Needed
    <3>2. CASE d # c
      BY <1>0, <2>1, <2>3, <2>4, <3>2 DEF BudgetInv, Holds, B!Needed
    <3> QED BY <3>1, <3>2
  <2>7. B!DeniedForSpentTokens'
    BY <1>0, <2>1, <2>3 DEF BudgetInv, B!DeniedForSpentTokens, B!Hopeless, B!Needed
  <2> QED BY <2>1, <2>2, <2>5, <2>6, <2>7 DEF BudgetInv
<1>6. ASSUME NEW c \in Calls, B!RetryReached(c)
      PROVE  BudgetInv'
  <2>1. UNCHANGED <<used, timed, timeUp, callAt>>
    BY <1>6 DEF B!RetryReached
  <2>2. held' = [held EXCEPT ![c] = held[c] + Prompt[c]] /\ reserved' = reserved + Prompt[c]
    BY <1>6 DEF B!RetryReached
  <2>3. Balance' /\ reserved' \in Nat /\ held' \in [Calls -> Nat]
    BY <1>6, <2>1, <2>2, CallNumbers, TakingBalances DEF B!RetryReached, BudgetInv
  <2>4. /\ made' = [made EXCEPT ![c] = made[c] + 1] /\ made[c] < CallAttempts
        /\ reached' = [reached EXCEPT ![c] = reached[c] + 1] /\ reached[c] <= made[c]
    BY <1>6 DEF B!RetryReached, BudgetInv, Holds
  <2>5. made[c] + 1 \in 0 .. CallAttempts /\ reached[c] + 1 \in 0 .. CallAttempts
    BY <2>4, CallNumbers DEF BudgetInv
  <2>6. made' \in [Calls -> 0 .. CallAttempts] /\ reached' \in [Calls -> 0 .. CallAttempts]
    BY <1>0, <2>4, <2>5
  <2>7. B!TypeOK'
    BY <2>1, <2>3, <2>6 DEF BudgetInv, B!TypeOK
  <2>8. ASSUME NEW d \in Calls
        PROVE  Holds(d)'
    <3>1. CASE d = c
      <4>1. callAt'[d] = "calling" /\ reached'[d] = reached[d] + 1 /\ made'[d] = made[d] + 1
        BY <1>0, <1>6, <2>1, <2>4, <3>1 DEF B!RetryReached
      <4>2. held'[d] = held[d] + Prompt[d] /\ held[d] = B!Needed(d) + Prompt[d] * reached[d]
        BY <1>0, <1>6, <2>2, <3>1 DEF B!RetryReached, BudgetInv, Holds
      <4>3. Prompt[d] * (reached[d] + 1) = Prompt[d] * reached[d] + Prompt[d]
        BY OneMore, CallNumbers DEF BudgetInv
      <4>4. held'[d] = B!Needed(d) + Prompt[d] * reached'[d]
        BY <4>1, <4>2, <4>3, CallNumbers DEF BudgetInv
      <4>5. reached'[d] <= made'[d]
        BY <2>4, <3>1, <4>1, CallNumbers DEF BudgetInv
      <4> QED BY <4>1, <4>4, <4>5 DEF Holds, B!Needed
    <3>2. CASE d # c
      BY <1>0, <2>1, <2>2, <2>4, <3>2 DEF BudgetInv, Holds, B!Needed
    <3> QED BY <3>1, <3>2
  <2>9. B!DeniedForSpentTokens'
    BY <2>1 DEF BudgetInv, B!DeniedForSpentTokens, B!Hopeless, B!Needed
  <2> QED BY <2>1, <2>3, <2>7, <2>8, <2>9 DEF BudgetInv
<1>7. ASSUME NEW c \in Calls, B!EndUnspent(c)
      PROVE  BudgetInv'
  <2>1. held[c] \in Nat /\ callAt[c] \in {"granted", "calling"}
    BY <1>0, <1>7 DEF B!EndUnspent
  <2>2. B!Settle(c, 0) /\ UNCHANGED <<made, reached>>
    BY <1>7 DEF B!EndUnspent
  <2> QED BY <2>1, <2>2, SettlingKeeps
<1>8. ASSUME NEW c \in Calls, NEW cost \in B!LastCosts(c), B!End(c, cost)
      PROVE  BudgetInv'
  <2>1. /\ callAt[c] = "calling" /\ UNCHANGED <<made, reached>>
        /\ B!Settle(c, Prompt[c] * reached[c] + cost)
    BY <1>8 DEF B!End
  <2>2. cost \in Nat /\ cost <= B!Needed(c)
    BY CallNumbers, BudgetBounds DEF B!LastCosts, BudgetInv, B!Needed
  <2>3. held[c] = B!Needed(c) + Prompt[c] * reached[c]
    BY <2>1 DEF BudgetInv, Holds
  <2>4. Prompt[c] * reached[c] + cost \in Nat /\ Prompt[c] * reached[c] + cost <= held[c]
    BY <2>2, <2>3, CallNumbers DEF BudgetInv
  <2> QED BY <2>1, <2>4, SettlingKeeps
<1> QED
  BY <1>1, <1>2, <1>3, <1>4, <1>5, <1>6, <1>7, <1>8 DEF B!Next

LEMMA BudgetSafety == B!Spec => []BudgetInv
<1>1. B!Init => BudgetInv
  <2> SUFFICES ASSUME B!Init PROVE BudgetInv
    OBVIOUS
  <2>1. /\ used = 0 /\ reserved = 0 /\ timed \in BOOLEAN /\ timeUp = FALSE
        /\ callAt = [c \in Calls |-> "new"] /\ held = [c \in Calls |-> 0]
        /\ made = [c \in Calls |-> 0] /\ reached = [c \in Calls |-> 0]
    BY DEF B!Init
  <2>2. B!Reservations = {}
    BY <2>1 DEF B!Reservations
  <2>3. IsFiniteSet(B!Reservations) /\ Cardinality(B!Reservations) = 0
    BY <2>2, FS_EmptySet
  <2>4. Balance
    BY <2>1, <2>3, BudgetBounds DEF Balance
  <2>5. callAt \in [Calls -> B!Places]
    BY <2>1 DEF B!Places
  <2>6. held \in [Calls -> Nat]
    BY <2>1
  <2>7. 0 \in 0 .. CallAttempts
    BY BudgetBounds
  <2>8. made \in [Calls -> 0 .. CallAttempts] /\ reached \in [Calls -> 0 .. CallAttempts]
    BY <2>1, <2>7
  <2>9. B!TypeOK
    BY <2>1, <2>5, <2>6, <2>8 DEF B!TypeOK
  <2>10. \A c \in Calls : Holds(c)
    BY <2>1 DEF Holds
  <2> QED BY <2>1, <2>4, <2>9, <2>10 DEF BudgetInv, B!DeniedForSpentTokens
<1> QED BY <1>1, BudgetStep, PTL DEF B!Spec

(* BudgetInv says what the budget promises.                                *)
LEMMA BudgetInvKeeps ==
  BudgetInv => B!TypeOK /\ B!WithinLimit /\ B!ReservedIsHeld
<1>1. B!Cardinality(B!Reservations) = Cardinality(B!Reservations)
  BY SameCardinality
<1> QED BY <1>1 DEF BudgetInv, Balance, B!WithinLimit, B!ReservedIsHeld

-----------------------------------------------------------------------------
(* C, the reader of collections                                             *)

LEMMA ReaderBounds ==
  /\ Top \notin Subs /\ Sizes \subseteq [C!Collections -> Nat]
  /\ PageSize \in Nat \ {0} /\ MaxPages \in Nat \ {0} /\ ReadAttempts \in Nat \ {0}
  /\ MaxFaults \in Nat
BY ReaderAssumption DEF C!ReaderAssumption

(* What the pages up to one hold.                                          *)
LEMMA PagesHold ==
  ASSUME NEW k \in Nat
  PROVE  /\ k * PageSize \in Nat
         /\ k <= MaxPages => k * PageSize <= PageSize * MaxPages
         /\ k # 0 => (k - 1) * PageSize \in Nat /\ (k - 1) * PageSize = k * PageSize - PageSize
<1>1. \A m, n, p \in Nat : m <= n => m * p <= p * n
  OBVIOUS
<1>2. \A n, p \in Nat : n * p \in Nat
  OBVIOUS
<1>3. \A n, p \in Nat : (n + 1) * p = n * p + p
  OBVIOUS
<1>4. k # 0 => k - 1 \in Nat /\ k = (k - 1) + 1
  OBVIOUS
<1>5. PageSize \in Nat /\ MaxPages \in Nat
  BY ReaderBounds
<1>6. k * PageSize \in Nat /\ (k <= MaxPages => k * PageSize <= PageSize * MaxPages)
  BY <1>1, <1>2, <1>5
<1>7. ASSUME k # 0
      PROVE  (k - 1) * PageSize \in Nat /\ (k - 1) * PageSize = k * PageSize - PageSize
  <2>1. (k - 1) * PageSize \in Nat
    BY <1>2, <1>4, <1>5, <1>7
  <2>2. k * PageSize = (k - 1) * PageSize + PageSize
    BY <1>3, <1>4, <1>5, <1>7
  <2> QED BY <2>1, <2>2, <1>5
<1> QED BY <1>6, <1>7

LEMMA GivenFits ==
  ASSUME materials \in Sizes, NEW c \in C!Collections, NEW k \in 0 .. MaxPages
  PROVE  C!Given(c, k) \in 0 .. PageSize * MaxPages
<1>1. materials[c] \in Nat /\ k \in Nat /\ k <= MaxPages /\ PageSize \in Nat /\ MaxPages \in Nat
  BY ReaderBounds
<1>2. k * PageSize \in Nat /\ k * PageSize <= PageSize * MaxPages
  BY <1>1, PagesHold
<1>3. PageSize <= PageSize * MaxPages
  <2>1. 1 \in Nat /\ 1 <= MaxPages /\ 1 * PageSize = PageSize
    BY ReaderBounds
  <2> QED BY <2>1, PagesHold
<1>4. PageSize * MaxPages \in Nat
  BY <1>1
<1> QED BY <1>1, <1>2, <1>3, <1>4 DEF C!Given, C!Least

(* The repository ignores no offset, or does not say how much there is.    *)
Honest == ~(repeats /\ totals)

(* A listing that ends for no reason given is complete.                    *)
LEMMA EndsComplete ==
  ASSUME materials \in Sizes, Honest, NEW c \in C!Collections, NEW k \in Nat \ {0},
         C!Ends(c, k)
  PROVE  C!Given(c, k) = materials[c]
<1> DEFINE before == (k - 1) * PageSize
           after == k * PageSize
<1>1. materials[c] \in Nat /\ PageSize \in Nat \ {0}
  BY ReaderBounds
<1>2. before \in Nat /\ after \in Nat /\ before = after - PageSize
  BY PagesHold
<1>3. k = 1 => after = PageSize
  BY <1>1
<1>4. C!Given(c, k) = IF repeats THEN C!Least(PageSize, materials[c])
                                 ELSE C!Least(after, materials[c])
  BY DEF C!Given
<1>5. C!Items(c, k) = IF repeats \/ k = 1 THEN C!Least(PageSize, materials[c])
                      ELSE C!Least(PageSize, materials[c] - C!Least(materials[c], before))
  BY DEF C!Items
<1> HIDE DEF before, after
<1>6. CASE C!Items(c, k) < PageSize
  <2>1. CASE repeats \/ k = 1
    BY <1>1, <1>2, <1>3, <1>4, <1>5, <1>6, <2>1 DEF C!Least
  <2>2. CASE ~repeats /\ k # 1
    BY <1>1, <1>2, <1>4, <1>5, <1>6, <2>2 DEF C!Least
  <2> QED BY <2>1, <2>2
<1>7. CASE ~repeats /\ C!Offset(c, k) >= materials[c]
  <2>1. C!Given(c, k) >= materials[c]
    BY <1>7 DEF C!Offset
  <2> QED BY <1>1, <1>2, <1>4, <1>7, <2>1 DEF C!Least
<1> QED BY <1>6, <1>7 DEF C!Ends, Honest

-----------------------------------------------------------------------------
(* A cached listing was not cut by anybody's time.                         *)
CachedHold ==
  \A c \in C!Collections :
    /\ listings[c].cut # "time"
    /\ Honest /\ listings[c].cut = "none" => listings[c].count = materials[c]

(* Where a request stands among the collections.                           *)
Stands(r) ==
  /\ readerAt[r] \in {"info", "subs"} => at[r] = Top /\ rest[r] = Subs
  /\ readerAt[r] \in {"info", "subs", "open"} => pages[r] = 0
  /\ readerAt[r] = "page" => pages[r] < MaxPages

(* The listing just made ended by the request's own time, or is complete   *)
(* if it has no reason for its end.                                        *)
JustListed(r) ==
  readerAt[r] = "listed" =>
    /\ lists[r][at[r]].cut = "time" => spent[r]
    /\ Honest /\ lists[r][at[r]].cut = "none" => lists[r][at[r]].count = materials[at[r]]

(* Each collection a request is through with is listed whole, or there is  *)
(* something for the text to say.                                          *)
Through(r, c) == c \notin rest[r] /\ (c # at[r] \/ readerAt[r] = "next")

ToSay(r) == gaps[r] # {} \/ (readerAt[r] # "made" /\ spent[r])

SaysAll(r) ==
  Honest => \A c \in C!Collections :
              Through(r, c) \/ readerAt[r] = "made" => lists[r][c].count = materials[c] \/ ToSay(r)

ReaderInv ==
  /\ C!TypeOK /\ CachedHold
  /\ \A r \in Readers :
       /\ Stands(r) /\ JustListed(r) /\ SaysAll(r)
       /\ "time" \in gaps[r] => spent[r]

LEMMA ReaderTyped ==
  ASSUME ReaderInv, [C!Next]_(C!vars)
  PROVE  C!TypeOK'
<1> USE ReaderBounds
        DEF C!Goes, C!Fails, C!Reads, C!repository, C!place, C!part
<1>0. C!TypeOK
  BY DEF ReaderInv
<1>1. \/ UNCHANGED C!vars \/ \E c \in C!Collections : C!Expire(c)
      \/ \E r \in Readers :
           \/ C!Record(r) \/ C!Open(r) \/ C!Page(r) \/ C!Keep(r) \/ C!NextSub(r) \/ C!Made(r)
           \/ C!TimeUp(r) \/ C!Drops(r) \/ C!Refuses(r) \/ C!TimeEnds(r)
  BY DEF C!Next, C!Step
<1>2. UNCHANGED <<materials, repeats, totals>>
  BY <1>1 DEF C!vars, C!Expire, C!Record, C!Open, C!Page, C!Keep, C!NextSub, C!Made, C!TimeUp,
              C!Drops, C!Refuses, C!TimeEnds
<1>3. ASSUME NEW r \in Readers, NEW k \in 0 .. MaxPages, NEW cut \in {"none"} \cup C!Reasons
      PROVE  [count |-> C!Given(at[r], k), cut |-> cut] \in C!Listing
  <2>1. C!Given(at[r], k) \in 0 .. PageSize * MaxPages
    BY <1>0, GivenFits DEF C!TypeOK
  <2> QED BY <2>1 DEF C!Listing
<1>4. ASSUME NEW r \in Readers, C!Page(r)
      PROVE  pages[r] + 1 \in 0 .. MaxPages
  BY <1>0, <1>4 DEF C!Page, C!TypeOK, ReaderInv, Stands
<1>5. lists' \in [Readers -> [C!Collections -> C!Listing]]
  <2>1. lists \in [Readers -> [C!Collections -> C!Listing]] /\ at \in [Readers -> C!Collections]
    BY <1>0 DEF C!TypeOK
  <2>6. ASSUME NEW r \in Readers, NEW listing \in C!Listing
        PROVE  [lists EXCEPT ![r][at[r]] = listing] \in [Readers -> [C!Collections -> C!Listing]]
    BY <2>1
  <2>2. ASSUME NEW r \in Readers, C!Page(r)
        PROVE  lists' \in [Readers -> [C!Collections -> C!Listing]]
    <3>1. lists' = lists \/
          \E cut \in {"none", "repeated", "pages"} :
             lists' = [lists EXCEPT ![r][at[r]] =
                         [count |-> C!Given(at[r], pages[r] + 1), cut |-> cut]]
      BY <2>2 DEF C!Page
    <3>2. pages[r] + 1 \in 0 .. MaxPages
      BY <1>4, <2>2
    <3>3. \A cut \in {"none", "repeated", "pages"} :
            [count |-> C!Given(at[r], pages[r] + 1), cut |-> cut] \in C!Listing
      BY <1>3, <3>2 DEF C!Reasons
    <3> QED BY <2>1, <2>6, <3>1, <3>3
  <2>3. ASSUME NEW r \in Readers, C!TimeUp(r)
        PROVE  lists' \in [Readers -> [C!Collections -> C!Listing]]
    <3>1. lists' = lists \/
             lists' = [lists EXCEPT ![r][at[r]] =
                         [count |-> C!Given(at[r], pages[r]), cut |-> "time"]]
      BY <2>3 DEF C!TimeUp
    <3>2. pages[r] \in 0 .. MaxPages
      BY <1>0 DEF C!TypeOK
    <3>3. "time" \in {"none"} \cup C!Reasons
      BY DEF C!Reasons
    <3>5. \A k \in 0 .. MaxPages : [count |-> C!Given(at[r], k), cut |-> "time"] \in C!Listing
      BY <1>3, <2>3, <3>3
    <3> DEFINE entry == [count |-> C!Given(at[r], pages[r]), cut |-> "time"]
    <3>4. entry \in C!Listing
      BY <3>2, <3>5
    <3>6. lists' = lists \/ lists' = [lists EXCEPT ![r][at[r]] = entry]
      BY <3>1
    <3> HIDE DEF entry
    <3>7. [lists EXCEPT ![r][at[r]] = entry] \in [Readers -> [C!Collections -> C!Listing]]
      BY <2>6, <3>4
    <3> QED BY <2>1, <3>6, <3>7
  <2>4. ASSUME NEW r \in Readers, C!Open(r)
        PROVE  lists' \in [Readers -> [C!Collections -> C!Listing]]
    <3>1. lists' = lists \/
            (listings[at[r]] \in C!Listing /\ lists' = [lists EXCEPT ![r][at[r]] = listings[at[r]]])
      BY <1>0, <2>4 DEF C!Open, C!TypeOK
    <3> QED BY <2>1, <2>6, <3>1
  <2>5. CASE UNCHANGED lists
    BY <2>1, <2>5
  <2> QED
    BY <1>1, <2>2, <2>3, <2>4, <2>5
       DEF C!vars, C!Expire, C!Record, C!Keep, C!NextSub, C!Made, C!Drops, C!Refuses, C!TimeEnds
<1>6. listings' \in [C!Collections -> C!Listing \cup {C!Uncached}]
  <2>1. /\ listings \in [C!Collections -> C!Listing \cup {C!Uncached}]
        /\ lists \in [Readers -> [C!Collections -> C!Listing]]
        /\ at \in [Readers -> C!Collections]
    BY <1>0 DEF C!TypeOK
  <2>2. \/ listings' = listings
        \/ \E c \in C!Collections : listings' = [listings EXCEPT ![c] = C!Uncached]
        \/ \E r \in Readers : listings' = [listings EXCEPT ![at[r]] = lists[r][at[r]]]
    BY <1>1 DEF C!vars, C!Expire, C!Record, C!Open, C!Page, C!Keep, C!NextSub,
     C!Made, C!TimeUp, C!Drops, C!Refuses, C!TimeEnds
  <2> QED BY <2>1, <2>2
<1>7. readerAt' \in [Readers -> {"info", "subs", "open", "page", "listed", "next",
                                 "made", "hint", "failed"}]
  <2>1. readerAt \in [Readers -> {"info", "subs", "open", "page", "listed", "next",
                                  "made", "hint", "failed"}]
    BY <1>0 DEF C!TypeOK
  <2>2. readerAt' = readerAt \/
          \E r \in Readers, there \in {"subs", "open", "page", "listed", "next", "made", "hint",
                                       "failed"} :
            readerAt' = [readerAt EXCEPT ![r] = there]
    BY <1>1 DEF C!vars, C!Expire, C!Record, C!Open, C!Page, C!Keep, C!NextSub,
     C!Made, C!TimeUp, C!Drops, C!Refuses, C!TimeEnds
  <2> QED BY <2>1, <2>2
<1>8. at' \in [Readers -> C!Collections]
  <2>1. at \in [Readers -> C!Collections] /\ rest \in [Readers -> SUBSET Subs]
    BY <1>0 DEF C!TypeOK
  <2>2. at' = at \/ \E r \in Readers : \E c \in rest[r] : at' = [at EXCEPT ![r] = c]
    BY <1>1 DEF C!vars, C!Expire, C!Record, C!Open, C!Page, C!Keep, C!NextSub,
     C!Made, C!TimeUp, C!Drops, C!Refuses, C!TimeEnds
  <2>3. Subs \subseteq C!Collections
    BY DEF C!Collections
  <2> QED BY <2>1, <2>2, <2>3
<1>9. rest' \in [Readers -> SUBSET Subs]
  <2>1. rest \in [Readers -> SUBSET Subs]
    BY <1>0 DEF C!TypeOK
  <2>2. rest' = rest \/ \E r \in Readers : \E c \in rest[r] : rest' = [rest EXCEPT ![r] = rest[r] \ {c}]
    BY <1>1 DEF C!vars, C!Expire, C!Record, C!Open, C!Page, C!Keep, C!NextSub,
     C!Made, C!TimeUp, C!Drops, C!Refuses, C!TimeEnds
  <2> QED BY <2>1, <2>2
<1>10. pages' \in [Readers -> 0 .. MaxPages]
  <2>1. pages \in [Readers -> 0 .. MaxPages] /\ 0 \in 0 .. MaxPages
    BY <1>0 DEF C!TypeOK
  <2>2. \/ UNCHANGED pages
        \/ \E r \in Readers : pages' = [pages EXCEPT ![r] = 0]
        \/ \E r \in Readers : C!Page(r) /\ pages' = [pages EXCEPT ![r] = pages[r] + 1]
    BY <1>1 DEF C!vars, C!Expire, C!Record, C!Open, C!Page, C!Keep, C!NextSub,
       C!Made, C!TimeUp, C!Drops, C!Refuses, C!TimeEnds
  <2> QED BY <1>4, <2>1, <2>2
<1>11. tries' \in [Readers -> 0 .. ReadAttempts - 1]
  <2>1. tries \in [Readers -> 0 .. ReadAttempts - 1] /\ 0 \in 0 .. ReadAttempts - 1
    BY <1>0 DEF C!TypeOK
  <2>2. \/ UNCHANGED tries
        \/ \E r \in Readers : tries' = [tries EXCEPT ![r] = 0]
        \/ \E r \in Readers :
             tries[r] + 1 < ReadAttempts /\ tries' = [tries EXCEPT ![r] = tries[r] + 1]
    BY <1>1 DEF C!vars, C!Expire, C!Record, C!Open, C!Page, C!Keep, C!NextSub,
       C!Made, C!TimeUp, C!Drops, C!Refuses, C!TimeEnds
  <2>3. \A r \in Readers : tries[r] + 1 < ReadAttempts => tries[r] + 1 \in 0 .. ReadAttempts - 1
    BY <2>1
  <2> QED BY <2>1, <2>2, <2>3
<1>12. spent' \in [Readers -> BOOLEAN]
  BY <1>0, <1>1 DEF C!TypeOK, C!vars, C!Expire, C!Record, C!Open, C!Page, C!Keep, C!NextSub,
     C!Made, C!TimeUp, C!Drops, C!Refuses, C!TimeEnds
<1>13. gaps' \in [Readers -> SUBSET C!Reasons]
  <2>1. gaps \in [Readers -> SUBSET C!Reasons]
    BY <1>0 DEF C!TypeOK
  <2>2. ASSUME NEW r \in Readers, C!Open(r) \/ C!Keep(r)
        PROVE  gaps' = gaps \/ \E some \in SUBSET C!Reasons :
                                 gaps' = [gaps EXCEPT ![r] = gaps[r] \cup some]
    <3>1. ASSUME NEW listing \in C!Listing
          PROVE  {listing.cut} \ {"none"} \in SUBSET C!Reasons
      BY <3>1 DEF C!Listing
    <3>2. \/ gaps' = gaps
          \/ \E listing \in C!Listing :
               gaps' = [gaps EXCEPT ![r] = gaps[r] \cup ({listing.cut} \ {"none"})]
      <4>1. CASE C!Open(r)
        <5>1. listings[at[r]] \in C!Listing \/ gaps' = gaps
          BY <1>0, <4>1 DEF C!TypeOK, C!Open
        <5>2. gaps' = gaps \/
                gaps' = [gaps EXCEPT ![r] = gaps[r] \cup ({listings[at[r]].cut} \ {"none"})]
          BY <4>1 DEF C!Open
        <5> QED BY <5>1, <5>2
      <4>2. CASE C!Keep(r)
        <5>1. lists[r][at[r]] \in C!Listing
          BY <1>0 DEF C!TypeOK
        <5>2. gaps' = [gaps EXCEPT ![r] = gaps[r] \cup ({lists[r][at[r]].cut} \ {"none"})]
          BY <4>2 DEF C!Keep
        <5> QED BY <5>1, <5>2
      <4> QED BY <2>2, <4>1, <4>2
    <3> QED BY <3>1, <3>2
  <2>3. ASSUME NEW r \in Readers,
               C!Made(r) \/ C!TimeUp(r) \/ C!Drops(r) \/ C!Refuses(r)
        PROVE  gaps' = gaps \/ \E some \in SUBSET C!Reasons :
                                 gaps' = [gaps EXCEPT ![r] = gaps[r] \cup some]
    BY <1>0, <2>3 DEF C!TypeOK, C!Made, C!TimeUp, C!Drops, C!Refuses, C!Reasons
  <2>4. gaps' = gaps \/ \E r \in Readers, some \in SUBSET C!Reasons :
                                 gaps' = [gaps EXCEPT ![r] = gaps[r] \cup some]
    BY <1>1, <2>2, <2>3 DEF C!vars, C!Expire, C!Record, C!Page, C!NextSub, C!TimeEnds
  <2> QED BY <2>1, <2>4
<1>14. faults' \in 0 .. MaxFaults
  <2>1. faults' = faults \/ (faults < MaxFaults /\ faults' = faults + 1)
    BY <1>1 DEF C!vars, C!Expire, C!Record, C!Open, C!Page, C!Keep, C!NextSub,
     C!Made, C!TimeUp, C!Drops, C!Refuses, C!TimeEnds
  <2> QED BY <1>0, <2>1 DEF C!TypeOK
<1> QED
  BY <1>0, <1>2, <1>5, <1>6, <1>7, <1>8, <1>9, <1>10, <1>11, <1>12, <1>13, <1>14 DEF C!TypeOK

(* A step of one request leaves what the others have alone.                *)
Own(r) ==
  <<readerAt[r], at[r], rest[r], pages[r], spent[r], lists[r], gaps[r]>>

ReaderStep(r) ==
  \/ C!Record(r) \/ C!Open(r) \/ C!Page(r) \/ C!Keep(r) \/ C!NextSub(r) \/ C!Made(r)
  \/ C!TimeUp(r) \/ C!Drops(r) \/ C!Refuses(r) \/ C!TimeEnds(r)

Fine(r) ==
  /\ Stands(r) /\ JustListed(r) /\ SaysAll(r)
  /\ "time" \in gaps[r] => spent[r]

LEMMA OthersStay ==
  ASSUME C!TypeOK, NEW r \in Readers, ReaderStep(r), NEW d \in Readers \ {r}
  PROVE  Own(d)' = Own(d)
<1> USE DEF ReaderStep, C!Goes, C!Fails, C!repository, C!place, C!part, C!TypeOK
<1>1. readerAt'[d] = readerAt[d] /\ at'[d] = at[d] /\ rest'[d] = rest[d]
  BY DEF C!Record, C!Open, C!Page, C!Keep, C!NextSub, C!Made, C!TimeUp, C!Drops, C!Refuses,
         C!TimeEnds
<1>2. pages'[d] = pages[d] /\ spent'[d] = spent[d]
  BY DEF C!Record, C!Open, C!Page, C!Keep, C!NextSub, C!Made, C!TimeUp, C!Drops, C!Refuses,
         C!TimeEnds
<1>3. lists'[d] = lists[d] /\ gaps'[d] = gaps[d]
  BY DEF C!Record, C!Open, C!Page, C!Keep, C!NextSub, C!Made, C!TimeUp, C!Drops, C!Refuses,
         C!TimeEnds
<1> QED BY <1>1, <1>2, <1>3 DEF Own

LEMMA ReaderSteps ==
  ASSUME C!Next
  PROVE  \/ \E c \in C!Collections : C!Expire(c)
         \/ \E r \in Readers : ReaderStep(r)
BY DEF C!Next, C!Step, ReaderStep

LEMMA OwnStep ==
  ASSUME ReaderInv, NEW r \in Readers, ReaderStep(r), C!TypeOK', UNCHANGED C!repository
  PROVE  Fine(r)'
<1> USE DEF C!Goes
<1>0. C!TypeOK /\ Stands(r) /\ JustListed(r) /\ SaysAll(r) /\ ("time" \in gaps[r] => spent[r])
  BY DEF ReaderInv
<1>1. /\ readerAt \in [Readers -> {"info", "subs", "open", "page", "listed", "next",
                                    "made", "hint", "failed"}]
      /\ at \in [Readers -> C!Collections] /\ rest \in [Readers -> SUBSET Subs]
      /\ pages \in [Readers -> 0 .. MaxPages] /\ spent \in [Readers -> BOOLEAN]
      /\ lists \in [Readers -> [C!Collections -> C!Listing]]
      /\ gaps \in [Readers -> SUBSET C!Reasons] /\ materials \in Sizes
  BY <1>0 DEF C!TypeOK
<1>2. Honest' = Honest /\ materials' = materials
  BY DEF C!repository, Honest
<1>3. CASE C!Record(r)
  <2>1. /\ UNCHANGED <<at, rest, pages, spent, lists, gaps>>
        /\ readerAt[r] \in {"info", "subs"} /\ readerAt'[r] \in {"subs", "open"}
        /\ readerAt[r] = "info" <=> readerAt'[r] = "subs"
    BY <1>1, <1>3 DEF C!Record, C!place, C!part
  <2> QED BY <1>0, <1>2, <2>1 DEF Fine, Stands, JustListed, SaysAll, Through, ToSay
<1>4. CASE C!Open(r)
  <2>1. UNCHANGED <<at, rest, pages, spent>> /\ readerAt[r] = "open" /\ pages[r] = 0
    BY <1>0, <1>4 DEF C!Open, C!place, Stands
  <2>2. CASE listings[at[r]] = C!Uncached
    <3>1. UNCHANGED <<lists, gaps>> /\ readerAt'[r] = "page"
      BY <1>1, <1>4, <2>2 DEF C!Open, C!part
    <3> QED BY <1>0, <1>2, <2>1, <3>1, ReaderBounds DEF Fine, Stands, JustListed, SaysAll, Through, ToSay
  <2>3. CASE listings[at[r]] # C!Uncached
    <3>1. /\ readerAt'[r] = "next"
          /\ lists'[r] = [lists[r] EXCEPT ![at[r]] = listings[at[r]]]
          /\ gaps'[r] = gaps[r] \cup ({listings[at[r]].cut} \ {"none"})
      BY <1>1, <1>4, <2>3 DEF C!Open
    <3>2. /\ listings[at[r]].cut # "time"
          /\ Honest /\ listings[at[r]].cut = "none" => listings[at[r]].count = materials[at[r]]
      BY <1>1 DEF ReaderInv, CachedHold
    <3>3. ASSUME Honest
          PROVE  \/ lists'[r][at[r]].count = materials[at[r]]
                 \/ gaps'[r] # {}
      BY <1>1, <3>1, <3>2, <3>3
    <3>4. \A c \in C!Collections : c # at[r] => lists'[r][c] = lists[r][c]
      BY <1>1, <3>1
    <3>5. SaysAll(r)'
      BY <1>0, <1>2, <2>1, <3>1, <3>3, <3>4 DEF SaysAll, Through, ToSay
    <3> QED BY <1>0, <1>2, <2>1, <3>1, <3>2, <3>5 DEF Fine, Stands, JustListed
  <2> QED BY <2>2, <2>3
<1>5. CASE C!Page(r)
  <2> DEFINE c == at[r]
             k == pages[r] + 1
  <2>1. /\ UNCHANGED <<at, rest, spent, gaps>> /\ readerAt[r] = "page" /\ ~spent[r]
        /\ pages'[r] = k /\ k \in Nat \ {0} /\ k <= MaxPages
    BY <1>0, <1>1, <1>5, ReaderBounds DEF C!Page, Stands
  <2>2. \/ /\ readerAt'[r] = "page" /\ k # MaxPages /\ lists' = lists
        \/ /\ readerAt'[r] = "listed"
           /\ \A d \in C!Collections : d # c => lists'[r][d] = lists[r][d]
           /\ \/ lists'[r][c].cut \in {"repeated", "pages"}
              \/ /\ lists'[r][c] = [count |-> C!Given(c, k), cut |-> "none"]
                 /\ C!Ends(c, k)
    BY <1>1, <1>5 DEF C!Page
  <2>3. Honest /\ C!Ends(c, k) => C!Given(c, k) = materials[c]
    BY <1>1, <2>1, EndsComplete
  <2>4. Stands(r)'
    BY <1>0, <2>1, <2>2, ReaderBounds DEF Stands
  <2>5. JustListed(r)'
    BY <1>2, <2>1, <2>2, <2>3 DEF JustListed
  <2>6. SaysAll(r)'
    BY <1>0, <1>2, <2>1, <2>2 DEF SaysAll, Through, ToSay
  <2> QED BY <1>0, <2>1, <2>4, <2>5, <2>6 DEF Fine
<1>6. CASE C!Keep(r)
  <2>1. /\ UNCHANGED <<at, rest, pages, spent, lists>>
        /\ readerAt[r] = "listed" /\ readerAt'[r] = "next"
        /\ gaps'[r] = gaps[r] \cup ({lists[r][at[r]].cut} \ {"none"})
    BY <1>1, <1>6 DEF C!Keep, C!place
  <2>2. Honest => lists[r][at[r]].count = materials[at[r]] \/ gaps'[r] # {}
    BY <1>0, <2>1 DEF JustListed
  <2>3. SaysAll(r)'
    BY <1>0, <1>2, <2>1, <2>2 DEF SaysAll, Through, ToSay
  <2> QED BY <1>0, <2>1, <2>3 DEF Fine, Stands, JustListed
<1>7. CASE C!NextSub(r)
  <2>1. PICK c \in rest[r] : rest'[r] = rest[r] \ {c} /\ at'[r] = c
    BY <1>1, <1>7 DEF C!NextSub
  <2>2. /\ UNCHANGED <<spent, lists, gaps>> /\ readerAt[r] = "next" /\ pages'[r] = 0
        /\ readerAt'[r] = IF spent[r] THEN "next" ELSE "open"
    BY <1>1, <1>7 DEF C!NextSub, C!part
  <2>3. SaysAll(r)'
    BY <1>0, <1>2, <2>1, <2>2 DEF SaysAll, Through, ToSay
  <2> QED BY <1>0, <2>2, <2>3 DEF Fine, Stands, JustListed
<1>8. CASE C!Made(r)
  <2>1. /\ UNCHANGED <<at, rest, pages, spent, lists>> /\ rest[r] = {}
        /\ readerAt[r] = "next" /\ readerAt'[r] = "made"
        /\ gaps'[r] = gaps[r] \cup (IF spent[r] THEN {"time"} ELSE {})
    BY <1>1, <1>8 DEF C!Made, C!place
  <2> QED BY <1>0, <1>2, <2>1 DEF Fine, Stands, JustListed, SaysAll, Through, ToSay
<1>9. CASE C!TimeUp(r) /\ readerAt[r] = "page" /\ pages[r] > 0
  <2>1. /\ UNCHANGED <<at, rest, pages, spent, gaps>> /\ spent[r]
        /\ readerAt'[r] = "listed" /\ lists'[r][at[r]].cut = "time"
        /\ \A d \in C!Collections : d # at[r] => lists'[r][d] = lists[r][d]
    BY <1>1, <1>9 DEF C!TimeUp, C!place
  <2> QED BY <1>0, <1>2, <1>9, <2>1 DEF Fine, Stands, JustListed, SaysAll, Through, ToSay
<1>10. ASSUME NEW reason, reason \in {{}, {"unreadable"}}, reason = {} => spent[r],
              C!Reads(r), C!Fails(r, reason),
              UNCHANGED <<at, rest, pages, spent, lists>>
       PROVE  Fine(r)'
  <2>1. \/ readerAt'[r] \in {"failed", "hint"} /\ gaps'[r] = gaps[r]
        \/ readerAt'[r] = "next" /\ gaps'[r] = gaps[r] \cup reason
    BY <1>1, <1>10 DEF C!Fails
  <2>2. readerAt[r] \in {"info", "subs", "page"}
    BY <1>10 DEF C!Reads
  <2>3. SaysAll(r)'
    BY <1>0, <1>2, <1>10, <2>1, <2>2 DEF SaysAll, Through, ToSay
  <2> QED BY <1>0, <1>10, <2>1, <2>3 DEF Fine, Stands, JustListed
<1>11. CASE C!TimeUp(r) /\ ~(readerAt[r] = "page" /\ pages[r] > 0)
  <2>1. C!Reads(r) /\ C!Fails(r, {}) /\ spent[r] /\ UNCHANGED <<at, rest, pages, spent, lists>>
    BY <1>11 DEF C!TimeUp, C!place
  <2> QED BY <1>10, <2>1
<1>12. CASE C!Drops(r) \/ C!Refuses(r)
  <2>1. C!Reads(r) /\ UNCHANGED <<at, rest, pages, spent, lists>>
    BY <1>12 DEF C!Drops, C!Refuses, C!place
  <2>2. C!Fails(r, {"unreadable"}) \/ UNCHANGED <<readerAt, gaps>>
    BY <1>12 DEF C!Drops, C!Refuses
  <2>3. CASE UNCHANGED <<readerAt, gaps>>
    BY <1>0, <1>2, <2>1, <2>3 DEF Fine, Stands, JustListed, SaysAll, Through, ToSay
  <2> QED BY <1>10, <2>1, <2>2, <2>3
<1>13. CASE C!TimeEnds(r)
  <2>1. UNCHANGED <<readerAt, at, rest, pages, lists, gaps>> /\ spent'[r] /\ readerAt[r] # "made"
    BY <1>1, <1>13 DEF C!TimeEnds, C!place, C!part
  <2> QED BY <1>0, <1>2, <2>1 DEF Fine, Stands, JustListed, SaysAll, Through, ToSay
<1> QED
  BY <1>3, <1>4, <1>5, <1>6, <1>7, <1>8, <1>9, <1>11, <1>12, <1>13 DEF ReaderStep

LEMMA CachedStaysWhole ==
  ASSUME ReaderInv, [C!Next]_(C!vars), UNCHANGED C!repository
  PROVE  CachedHold'
<1>0. C!TypeOK /\ CachedHold
  BY DEF ReaderInv
<1>1. Honest' = Honest /\ materials' = materials
  BY DEF C!repository, Honest
<1>2. \/ listings' = listings
      \/ \E c \in C!Collections : listings' = [listings EXCEPT ![c] = C!Uncached]
      \/ \E r \in Readers : /\ readerAt[r] = "listed" /\ ~spent[r]
                            /\ listings' = [listings EXCEPT ![at[r]] = lists[r][at[r]]]
  BY DEF C!Next, C!Step, C!vars, C!Expire, C!Record, C!Open, C!Page, C!Keep, C!NextSub, C!Made,
         C!TimeUp, C!Drops, C!Refuses, C!TimeEnds
<1>3. C!Uncached.cut = "uncached"
  BY DEF C!Uncached
<1>4. listings \in [C!Collections -> C!Listing \cup {C!Uncached}]
  BY <1>0 DEF C!TypeOK
<1>5. ASSUME NEW r \in Readers, readerAt[r] = "listed", ~spent[r]
      PROVE  /\ at[r] \in C!Collections
             /\ lists[r][at[r]].cut # "time"
             /\ Honest /\ lists[r][at[r]].cut = "none"
                  => lists[r][at[r]].count = materials[at[r]]
  BY <1>0, <1>5 DEF ReaderInv, JustListed, C!TypeOK
<1> QED BY <1>0, <1>1, <1>2, <1>3, <1>4, <1>5 DEF CachedHold

LEMMA ReaderInvStep ==
  ASSUME ReaderInv, [C!Next]_(C!vars)
  PROVE  ReaderInv'
<1>1. C!TypeOK'
  BY ReaderTyped
<1>2. UNCHANGED C!repository
  BY DEF C!Next, C!Step, C!vars, C!Expire, C!Record, C!Open, C!Page, C!Keep, C!NextSub, C!Made,
         C!TimeUp, C!Drops, C!Refuses, C!TimeEnds, C!repository
<1>3. CachedHold'
  BY <1>2, CachedStaysWhole
<1>4. ASSUME NEW d \in Readers
      PROVE  Fine(d)'
  <2>1. C!TypeOK /\ Fine(d)
    BY DEF ReaderInv, Fine
  <2>2. CASE \E r \in Readers : ReaderStep(r) /\ r = d
    BY <1>1, <1>2, <2>2, OwnStep
  <2>3. CASE Own(d)' = Own(d)
    BY <1>2, <2>1, <2>3 DEF Own, C!repository, Fine, Stands, JustListed, SaysAll, Through, ToSay, Honest
  <2>4. CASE \E r \in Readers : ReaderStep(r) /\ r # d
    <3>1. Own(d)' = Own(d)
      BY <2>1, <2>4, OthersStay
    <3> QED BY <2>3, <3>1
  <2>5. CASE UNCHANGED C!vars \/ \E c \in C!Collections : C!Expire(c)
    <3>1. Own(d)' = Own(d)
      BY <2>5 DEF C!vars, C!Expire, C!place, C!part, Own
    <3> QED BY <2>3, <3>1
  <2> QED BY <2>2, <2>4, <2>5, ReaderSteps
<1> QED BY <1>1, <1>3, <1>4 DEF ReaderInv, Fine

LEMMA ReaderSafety ==
  C!Spec => []ReaderInv
<1>1. C!Init => ReaderInv
  <2> SUFFICES ASSUME C!Init PROVE ReaderInv
    OBVIOUS
  <2>1. /\ materials \in Sizes /\ repeats \in BOOLEAN /\ totals \in BOOLEAN
        /\ listings = [c \in C!Collections |-> C!Uncached]
        /\ readerAt = [r \in Readers |-> "info"] /\ at = [r \in Readers |-> Top]
        /\ rest = [r \in Readers |-> Subs] /\ pages = [r \in Readers |-> 0]
        /\ tries = [r \in Readers |-> 0] /\ spent = [r \in Readers |-> FALSE]
        /\ lists = [r \in Readers |-> [c \in C!Collections |-> C!Unlisted]]
        /\ gaps = [r \in Readers |-> {}] /\ faults = 0
    BY DEF C!Init
  <2>2. 0 \in 0 .. MaxPages /\ 0 \in 0 .. ReadAttempts - 1 /\ 0 \in 0 .. MaxFaults
    BY ReaderBounds
  <2>3. Top \in C!Collections
    BY DEF C!Collections
  <2>4. C!Unlisted \in C!Listing
    <3>1. PageSize * MaxPages \in Nat
      BY ReaderBounds
    <3>2. 0 \in 0 .. PageSize * MaxPages
      BY <3>1
    <3> QED BY <3>2 DEF C!Unlisted, C!Listing
  <2>5. pages \in [Readers -> 0 .. MaxPages] /\ tries \in [Readers -> 0 .. ReadAttempts - 1]
    BY <2>1, <2>2
  <2>6. lists \in [Readers -> [C!Collections -> C!Listing]]
    BY <2>1, <2>4
  <2>7. /\ listings \in [C!Collections -> C!Listing \cup {C!Uncached}]
        /\ at \in [Readers -> C!Collections] /\ rest \in [Readers -> SUBSET Subs]
        /\ spent \in [Readers -> BOOLEAN] /\ gaps \in [Readers -> SUBSET C!Reasons]
        /\ readerAt \in [Readers -> {"info", "subs", "open", "page", "listed", "next",
                                    "made", "hint", "failed"}]
    BY <2>1, <2>3
  <2>8. faults \in 0 .. MaxFaults
    BY <2>1, <2>2
  <2>9. C!TypeOK
    BY <2>1, <2>5, <2>6, <2>7, <2>8 DEF C!TypeOK
  <2>10. CachedHold
    BY <2>1 DEF CachedHold, C!Uncached
  <2>11. ASSUME NEW r \in Readers
         PROVE  Fine(r)
    <3>1. \A c \in C!Collections : ~Through(r, c)
      BY <2>1 DEF Through, C!Collections
    <3> QED BY <2>1, <3>1 DEF Fine, Stands, JustListed, SaysAll
  <2> QED BY <2>9, <2>10, <2>11 DEF ReaderInv, Fine
<1> QED BY <1>1, ReaderInvStep, PTL DEF C!Spec

(* ReaderInv says what the lists promise.                                  *)
LEMMA ReaderInvSays ==
  ReaderInv => C!TypeOK /\ C!SaysWhatIsMissing /\ C!OwnTimeOnly
BY DEF ReaderInv, SaysAll, ToSay, Honest, C!SaysWhatIsMissing, C!SaysWhatIsMissingEver, C!Complete,
       C!OwnTimeOnly

-----------------------------------------------------------------------------
(* The threads of one request                                              *)

Calling(t) == IF thread[t] = "calling" THEN 1 ELSE 0

(* Every slot is free or with a call; the job of part 2 waits for the      *)
(* topic; a failed request has ended the branch of its jobs.               *)
RequestInv ==
  /\ TypeOK
  /\ free + Calling("own") + Calling("curricula") = Slots
  /\ stage = "prepare" => thread["curricula"] = "off"
  /\ thread["collection"] # "queued"
  /\ stage = "failed" => expired

LEMMA RequestStep ==
  ASSUME RequestInv, [Next]_vars
  PROVE  RequestInv'
<1> USE DEF Goes
<1>1. /\ thread \in [Threads -> {"off", "between", "queued", "calling", "done", "broken"}]
      /\ left \in [Threads -> 0 .. MaxCalls] /\ free \in 0 .. Slots
      /\ wants \subseteq {"world", "collection"} /\ over \in BOOLEAN /\ expired \in BOOLEAN
  BY DEF RequestInv, TypeOK
<1>2. /\ "own" \in Threads /\ "curricula" \in Threads /\ "collection" \in Threads
      /\ Slots \in Nat /\ MaxCalls \in Nat
  BY RequestAssumption DEF Threads, Jobs
<1>3. wants' = wants
  BY DEF vars, Next, Ask, Send, GiveUp, EndCall, EndJob, CollectionNotFound, Prepared, WorldMade,
         TakePart2, TakePart3, Raise, Leave, TimeEnds
<1>4. over' \in BOOLEAN /\ expired' \in BOOLEAN
  BY <1>1 DEF vars, Next, Ask, Send, GiveUp, EndCall, EndJob, CollectionNotFound, Prepared,
     WorldMade, TakePart2, TakePart3, Raise, Leave, TimeEnds
<1>5. stage' \in {"prepare", "world", "part2", "part3", "leaving", "answered", "failed"}
  BY DEF RequestInv, TypeOK, vars, Next, Ask, Send, GiveUp, EndCall, EndJob, CollectionNotFound,
         Prepared, WorldMade, TakePart2, TakePart3, Raise, Leave, TimeEnds
<1>6. thread' \in [Threads -> {"off", "between", "queued", "calling", "done", "broken"}]
  BY <1>1, <1>2 DEF vars, Next, Ask, Send, GiveUp, EndCall, EndJob, CollectionNotFound, Prepared,
     WorldMade, TakePart2, TakePart3, Raise, Leave, TimeEnds
<1>7. left' \in [Threads -> 0 .. MaxCalls]
  <2>1. left' = left \/ \E t \in Threads : left[t] > 0 /\ left' = [left EXCEPT ![t] = left[t] - 1]
    BY DEF vars, Next, Ask, Send, GiveUp, EndCall, EndJob, CollectionNotFound, Prepared,
           WorldMade, TakePart2, TakePart3, Raise, Leave, TimeEnds
  <2>2. \A t \in Threads : left[t] > 0 => left[t] - 1 \in 0 .. MaxCalls
    BY <1>1, <1>2
  <2> QED BY <1>1, <2>1, <2>2
<1>8. stage' = "failed" => expired'
  BY DEF RequestInv, vars, Next, Ask, Send, GiveUp, EndCall, EndJob, CollectionNotFound, Prepared,
         WorldMade, TakePart2, TakePart3, Raise, Leave, TimeEnds
<1>9. stage' = "prepare" => thread'["curricula"] = "off"
  <2>1. stage' = "prepare" => stage = "prepare"
    BY DEF vars, Next, Ask, Send, GiveUp, EndCall, EndJob, CollectionNotFound, Prepared,
           WorldMade, TakePart2, TakePart3, Raise, Leave, TimeEnds
  <2>2. stage' = "prepare" /\ thread["curricula"] = "off" => thread'["curricula"] = "off"
    BY <1>1, <1>2 DEF vars, Next, Ask, Send, GiveUp, EndCall, EndJob, CollectionNotFound, Prepared,
         WorldMade, TakePart2, TakePart3, Raise, Leave, TimeEnds
  <2> QED BY <2>1, <2>2 DEF RequestInv
<1>10. free' + Calling("own")' + Calling("curricula")' = Slots
  <2>0. /\ free + Calling("own") + Calling("curricula") = Slots /\ free \in Int
        /\ Calling("own") \in Int /\ Calling("curricula") \in Int
    BY <1>1 DEF RequestInv, Calling
  <2>1. CASE UNCHANGED <<thread, free>>
    BY <2>0, <2>1 DEF Calling
  <2>2. ASSUME NEW t \in Threads, Ask(t) \/ GiveUp(t) \/ EndJob(t)
        PROVE  /\ free' = free
               /\ t = "own" => Calling("own")' = Calling("own")
               /\ t = "curricula" => Calling("curricula")' = Calling("curricula")
               /\ t # "own" => Calling("own")' = Calling("own")
               /\ t # "curricula" => Calling("curricula")' = Calling("curricula")
    BY <1>1, <1>2, <2>2 DEF Ask, GiveUp, EndJob, Calling, Callers
  <2>3. ASSUME NEW t \in Threads, Send(t)
        PROVE  free' + Calling("own")' + Calling("curricula")' = Slots
    <3>1. t = "own" \/ t = "curricula"
      BY <2>3 DEF Send, RequestInv, Threads, Jobs
    <3>2. \/ free' = free /\ thread' = [thread EXCEPT ![t] = "between"]
          \/ free' = free - 1 /\ thread' = [thread EXCEPT ![t] = "calling"]
      BY <2>3 DEF Send
    <3>3. thread[t] = "queued"
      BY <2>3 DEF Send
    <3>4. CASE t = "own"
      <4>1. Calling("own") = 0 /\ Calling("curricula")' = Calling("curricula")
        BY <1>1, <1>2, <3>2, <3>3, <3>4 DEF Calling
      <4>2. (free' = free /\ Calling("own")' = 0) \/ (free' = free - 1 /\ Calling("own")' = 1)
        BY <1>1, <1>2, <3>2, <3>4 DEF Calling
      <4> QED BY <2>0, <4>1, <4>2
    <3>5. CASE t = "curricula"
      <4>1. Calling("curricula") = 0 /\ Calling("own")' = Calling("own")
        BY <1>1, <1>2, <3>2, <3>3, <3>5 DEF Calling
      <4>2. \/ free' = free /\ Calling("curricula")' = 0
            \/ free' = free - 1 /\ Calling("curricula")' = 1
        BY <1>1, <1>2, <3>2, <3>5 DEF Calling
      <4> QED BY <2>0, <4>1, <4>2
    <3> QED BY <3>1, <3>4, <3>5
  <2>4. ASSUME NEW t \in Threads, EndCall(t)
        PROVE  free' + Calling("own")' + Calling("curricula")' = Slots
    <3>1. thread[t] = "calling" /\ thread' = [thread EXCEPT ![t] = "between"]
      BY <2>4 DEF EndCall
    <3>2. CASE t = "own"
      <4>1. /\ Calling("own") = 1 /\ Calling("own")' = 0
            /\ Calling("curricula")' = Calling("curricula") /\ free' = free + 1
        BY <1>1, <1>2, <2>4, <3>1, <3>2 DEF Calling, EndCall, Callers
      <4> QED BY <2>0, <4>1
    <3>3. CASE t = "curricula"
      <4>1. /\ Calling("curricula") = 1 /\ Calling("curricula")' = 0
            /\ Calling("own")' = Calling("own") /\ free' = free + 1
        BY <1>1, <1>2, <2>4, <3>1, <3>3 DEF Calling, EndCall, Callers
      <4> QED BY <2>0, <4>1
    <3>4. CASE t = "collection"
      <4>1. /\ Calling("curricula")' = Calling("curricula")
            /\ Calling("own")' = Calling("own") /\ free' = free
        BY <1>1, <1>2, <2>4, <3>1, <3>4 DEF Calling, EndCall, Callers
      <4> QED BY <2>0, <4>1
    <3> QED BY <3>2, <3>3, <3>4 DEF Threads, Jobs
  <2>5. CASE CollectionNotFound
    <3>1. free' = free /\ Calling("own")' = Calling("own") /\ Calling("curricula")' = Calling("curricula")
      BY <1>1, <1>2, <2>5 DEF CollectionNotFound, Calling
    <3> QED BY <2>0, <3>1
  <2>6. CASE Prepared
    <3>1. free' = free /\ Calling("own")' = Calling("own") /\ Calling("curricula")' = Calling("curricula")
      BY <1>1, <1>2, <2>6 DEF Prepared, Calling, RequestInv
    <3> QED BY <2>0, <3>1
  <2>7. Jobs \subseteq Threads
    BY DEF Threads
  <2>8. ASSUME NEW t \in Threads, Ask(t) \/ GiveUp(t) \/ EndJob(t)
        PROVE  free' + Calling("own")' + Calling("curricula")' = Slots
    <3>1. free' = free /\ Calling("own")' = Calling("own") /\ Calling("curricula")' = Calling("curricula")
      BY <2>2, <2>8
    <3> QED BY <2>0, <3>1
  <2> QED
    BY <2>1, <2>3, <2>4, <2>5, <2>6, <2>7, <2>8
       DEF Next, vars, WorldMade, TakePart2, TakePart3, Raise, Leave, TimeEnds
<1>11. free' \in 0 .. Slots
  <2>1. /\ Calling("own")' \in {0, 1} /\ Calling("curricula")' \in {0, 1}
    BY DEF Calling
  <2>2. free' \in Int /\ free' >= 0
    <3>1. free' = free \/ free' = free + 1 \/ (free > 0 /\ free' = free - 1)
      BY DEF vars, Next, Ask, Send, GiveUp, EndCall, EndJob, CollectionNotFound, Prepared,
             WorldMade, TakePart2, TakePart3, Raise, Leave, TimeEnds
    <3> QED BY <1>1, <1>2, <3>1
  <2> QED BY <1>2, <1>10, <2>1, <2>2
<1>12. thread'["collection"] # "queued"
  BY <1>1, <1>2 DEF RequestInv, vars, Next, Ask, Send, GiveUp, EndCall, EndJob, CollectionNotFound,
     Prepared, WorldMade, TakePart2, TakePart3, Raise, Leave, TimeEnds, Callers, Jobs
<1>13. TypeOK'
  BY <1>1, <1>3, <1>4, <1>5, <1>6, <1>7, <1>11 DEF TypeOK
<1> QED BY <1>8, <1>9, <1>10, <1>12, <1>13 DEF RequestInv

LEMMA RequestSafety == Spec => []RequestInv
<1>1. Init => RequestInv
  <2> SUFFICES ASSUME Init PROVE RequestInv
    OBVIOUS
  <2>1. /\ wants \in SUBSET {"world", "collection"} /\ stage = "prepare"
        /\ thread = [t \in Threads |-> IF t = "own" \/ t \in wants THEN "between" ELSE "off"]
        /\ left = [t \in Threads |-> MaxCalls] /\ free = Slots
        /\ over = FALSE /\ expired = FALSE
    BY DEF Init
  <2>2. "own" \in Threads /\ "curricula" \in Threads /\ "collection" \in Threads
    BY DEF Threads, Jobs
  <2>3. thread["own"] = "between" /\ thread["curricula"] = "off" /\ thread["collection"] # "queued"
    BY <2>1, <2>2
  <2>4. Calling("own") = 0 /\ Calling("curricula") = 0
    BY <2>3 DEF Calling
  <2>5. free + Calling("own") + Calling("curricula") = Slots /\ free \in 0 .. Slots
    BY <2>1, <2>4, RequestAssumption
  <2>6. MaxCalls \in 0 .. MaxCalls
    BY RequestAssumption
  <2>7. left \in [Threads -> 0 .. MaxCalls]
    BY <2>1, <2>6
  <2>8. thread \in [Threads -> {"off", "between", "queued", "calling", "done", "broken"}]
    BY <2>1
  <2> QED BY <2>1, <2>3, <2>5, <2>7, <2>8 DEF RequestInv, TypeOK
<1> QED BY <1>1, RequestStep, PTL DEF Spec

(* No step of a failed request lets a job begin a call: one that asks has  *)
(* no time left, one that gets its slot late gives it back.                *)
LEMMA NoCallBegins ==
  ASSUME RequestInv, Next, stage = "failed",
         NEW j \in Jobs, thread'[j] = "calling"
  PROVE  thread[j] = "calling"
<1>1. j \in Threads /\ j # "own" /\ Spent(j) /\ DOMAIN thread = Threads
  BY DEF RequestInv, TypeOK, Jobs, Threads, Spent
<1>2. CASE \E t \in Threads : Works(t) /\ (Ask(t) \/ Send(t) \/ GiveUp(t) \/ EndCall(t))
  <2> PICK t \in Threads : Ask(t) \/ Send(t) \/ GiveUp(t) \/ EndCall(t)
    BY <1>2
  <2>1. CASE t = j
    BY <1>1, <2>1 DEF Ask, Send, GiveUp, EndCall, Goes
  <2>2. CASE t # j
    BY <1>1, <2>2 DEF Ask, Send, GiveUp, EndCall, Goes
  <2> QED BY <2>1, <2>2
<1>3. CASE \E i \in Jobs : EndJob(i)
  BY <1>1, <1>3 DEF EndJob, Goes
<1>4. CASE CollectionNotFound
  BY <1>1, <1>4 DEF CollectionNotFound, Goes
<1>5. CASE TimeEnds
  BY <1>5 DEF TimeEnds
<1> QED
  BY <1>2, <1>3, <1>4, <1>5
     DEF Next, Prepared, WorldMade, TakePart2, TakePart3, Raise, Leave

LEMMA StopsBesideSafety == Spec => StopsBeside
<1>1. RequestInv /\ [Next]_vars
        => [stage = "failed" =>
              \A j \in Jobs : thread'[j] = "calling" => thread[j] = "calling"]_vars
  <2> SUFFICES ASSUME RequestInv, Next, stage = "failed",
                      NEW j \in Jobs, thread'[j] = "calling"
               PROVE  thread[j] = "calling"
    OBVIOUS
  <2> QED BY NoCallBegins
<1> QED BY <1>1, RequestSafety, PTL DEF Spec, StopsBeside

-----------------------------------------------------------------------------
(* The whole                                                               *)

USE DEF ForBudget, ForRequest, ForGateway, ForLimiter, ForCollections, ForIndex, ForDocument

(* A step of the whole is one of every part, or leaves the part alone.     *)
LEMMA DocumentStepped == [PartNext]_partVars => [D!Next]_(D!vars)
<1> SUFFICES ASSUME [PartNext]_partVars PROVE D!Next \/ UNCHANGED D!vars
  OBVIOUS
<1> USE DEF D!vars, document
<1>1. CASE DocumentNext
  BY <1>1 DEF DocumentNext, D!Next
<1>2. CASE \/ IndexNext \/ BudgetNext \/ RequestNext
           \/ GatewayNext \/ LimiterNext \/ CollectionsNext
           \/ UNCHANGED partVars
  BY <1>2 DEF IndexNext, BudgetNext, RequestNext,
     GatewayNext, LimiterNext, CollectionsNext, partVars
<1> QED BY <1>1, <1>2 DEF PartNext

LEMMA IndexStepped == [PartNext]_partVars => [I!Next]_(I!vars)
<1> SUFFICES ASSUME [PartNext]_partVars PROVE I!Next \/ UNCHANGED I!vars
  OBVIOUS
<1> USE DEF I!vars, I!pod, I!store, I!connections, I!copiers, I!looks, index
<1>1. CASE IndexNext
  BY <1>1 DEF IndexNext, I!Next
<1>2. CASE \/ DocumentNext \/ BudgetNext \/ RequestNext
           \/ GatewayNext \/ LimiterNext \/ CollectionsNext
           \/ UNCHANGED partVars
  BY <1>2 DEF DocumentNext, BudgetNext, RequestNext,
     GatewayNext, LimiterNext, CollectionsNext, partVars
<1> QED BY <1>1, <1>2 DEF PartNext

LEMMA BudgetStepped == [PartNext]_partVars => [B!Next]_(B!vars)
<1> SUFFICES ASSUME [PartNext]_partVars PROVE B!Next \/ UNCHANGED B!vars
  OBVIOUS
<1> USE DEF B!vars, budget
<1>1. CASE BudgetNext
  BY <1>1 DEF BudgetNext, B!Next, B!CallStep
<1>2. CASE \/ DocumentNext \/ IndexNext \/ RequestNext
           \/ GatewayNext \/ LimiterNext \/ CollectionsNext
           \/ UNCHANGED partVars
  BY <1>2 DEF DocumentNext, IndexNext, RequestNext,
     GatewayNext, LimiterNext, CollectionsNext, partVars
<1> QED BY <1>1, <1>2 DEF PartNext

LEMMA RequestStepped == [PartNext]_partVars => [Next]_vars
<1> SUFFICES ASSUME [PartNext]_partVars PROVE Next \/ UNCHANGED vars
  OBVIOUS
<1> USE DEF request
<1>1. CASE RequestNext
  BY <1>1 DEF RequestNext, Next, vars
<1>2. CASE \/ DocumentNext \/ IndexNext \/ BudgetNext
           \/ GatewayNext \/ LimiterNext \/ CollectionsNext
           \/ UNCHANGED partVars
  BY <1>2 DEF DocumentNext, IndexNext, BudgetNext,
     GatewayNext, LimiterNext, CollectionsNext, partVars
<1> QED BY <1>1, <1>2 DEF PartNext

LEMMA GatewayStepped == [PartNext]_partVars => [G!Next]_(G!vars)
<1> SUFFICES ASSUME [PartNext]_partVars PROVE G!Next \/ UNCHANGED G!vars
  OBVIOUS
<1> USE DEF G!vars, gateway
<1>1. CASE GatewayNext
  BY <1>1 DEF GatewayNext, G!Next, G!RequestStep
<1>2. CASE \/ DocumentNext \/ IndexNext \/ BudgetNext
           \/ RequestNext \/ LimiterNext \/ CollectionsNext
           \/ UNCHANGED partVars
  BY <1>2 DEF DocumentNext, IndexNext, BudgetNext,
     RequestNext, LimiterNext, CollectionsNext, partVars
<1> QED BY <1>1, <1>2 DEF PartNext

LEMMA LimiterStepped == [PartNext]_partVars => [L!Next]_(L!vars)
<1> SUFFICES ASSUME [PartNext]_partVars PROVE L!Next \/ UNCHANGED L!vars
  OBVIOUS
<1> USE DEF L!vars, limiter
<1>1. CASE LimiterNext
  BY <1>1 DEF LimiterNext, L!Next
<1>2. CASE \/ DocumentNext \/ IndexNext \/ BudgetNext
           \/ RequestNext \/ GatewayNext \/ CollectionsNext
           \/ UNCHANGED partVars
  BY <1>2 DEF DocumentNext, IndexNext, BudgetNext,
     RequestNext, GatewayNext, CollectionsNext, partVars
<1> QED BY <1>1, <1>2 DEF PartNext

LEMMA CollectionsStepped == [PartNext]_partVars => [C!Next]_(C!vars)
<1> SUFFICES ASSUME [PartNext]_partVars PROVE C!Next \/ UNCHANGED C!vars
  OBVIOUS
<1> USE DEF C!vars, C!repository, C!place, C!part, collections
<1>1. CASE CollectionsNext
  BY <1>1 DEF CollectionsNext, C!Next, C!Step
<1>2. CASE \/ DocumentNext \/ IndexNext \/ BudgetNext
           \/ RequestNext \/ GatewayNext \/ LimiterNext
           \/ UNCHANGED partVars
  BY <1>2 DEF DocumentNext, IndexNext, BudgetNext,
     RequestNext, GatewayNext, LimiterNext, partVars
<1> QED BY <1>1, <1>2 DEF PartNext

(* Every behaviour of the whole is one of each part: what Requests runs    *)
(* beside each other are the parts, none of them bent.                     *)
THEOREM RequestsRunEveryPart ==
  PartSpec => B!Spec /\ Spec /\ G!Spec /\ L!Spec /\ C!Spec /\ I!Spec /\ D!Spec
<1>1. PartInit => B!Init /\ Init /\ G!Init /\ L!Init /\ C!Init /\ I!Init /\ D!Init
  BY DEF PartInit
<1> QED
  BY <1>1, DocumentStepped, IndexStepped, BudgetStepped, RequestStepped, GatewayStepped,
     LimiterStepped, CollectionsStepped, PTL
     DEF PartSpec, B!Spec, Spec, G!Spec, L!Spec, C!Spec, I!Spec, D!Spec

(* The calls of one request never use or reserve more tokens than its      *)
(* budget has, and what is reserved is held by calls under way             *)
(* (app/llm/budget.py).                                                    *)
THEOREM BudgetHolds == PartSpec => []BudgetKept
<1>1. BudgetInv => BudgetKept
  BY BudgetInvKeeps DEF BudgetKept
<1> QED BY <1>1, RequestsRunEveryPart, BudgetSafety, PTL

(* Without a deadline a call is denied only when its tokens cannot be had  *)
(* even if every call under way gave back what it holds                    *)
(* (app/llm/budget.py).                                                    *)
THEOREM DenialsHaveReason == PartSpec => []DeniedForSpentTokens
<1>1. BudgetInv => DeniedForSpentTokens
  BY DEF BudgetInv, DeniedForSpentTokens
<1> QED BY <1>1, RequestsRunEveryPart, BudgetSafety, PTL

(* No client that is not forgotten gets more requests through within a     *)
(* window than the limit says, and one that comes when it was told to gets *)
(* through, however many clients there are (app/api/limits.py).            *)
THEOREM WindowsHold == PartSpec => []WindowKept
<1>1. LimiterInv => WindowKept
  BY LimiterInvKeeps DEF WindowKept
<1> QED BY <1>1, RequestsRunEveryPart, LimiterSafety, PTL

(* A part 3 that lacks materials says so, whoever read or cached the lists *)
(* and whatever cut them, unless the repository ignores the offset and     *)
(* tells a total (app/sources/wlo).                                        *)
THEOREM ListsSayWhatIsMissing == PartSpec => []SaysWhatIsMissing
<1>1. ReaderInv => SaysWhatIsMissing
  BY ReaderInvSays DEF SaysWhatIsMissing
<1> QED BY <1>1, RequestsRunEveryPart, ReaderSafety, PTL

(* No request is shown a list that ends early for the time of another one  *)
(* (app/sources/wlo/part.py).                                              *)
THEOREM ListsEndInOwnTime == PartSpec => []OwnTimeOnly
<1>1. ReaderInv => OwnTimeOnly
  BY ReaderInvSays DEF OwnTimeOnly
<1> QED BY <1>1, RequestsRunEveryPart, ReaderSafety, PTL

(* A request that failed makes no further call or read through the parts   *)
(* beside it (app/service.py:329-330), whatever they were waiting for.     *)
THEOREM NothingStartsAfterFailure == PartSpec => StopsBeside
BY RequestsRunEveryPart, StopsBesideSafety, PTL

(* A worker that reads an index goes on reading it, or a newer one, but    *)
(* for an error, an unusable file, a volume it cannot look at or two       *)
(* copies made while a thread was on its way (app/sources/local_index.py,  *)
(* local_copy.py).                                                         *)
THEOREM IndexesServeOn == PartSpec => ServesOn
BY RequestsRunEveryPart, ServesOnSafety, PTL DEF ServesOn

(* While every number is one that the pattern of a marker takes, each      *)
(* block that is to stay stays, a number has one meaning, and every        *)
(* citation nobody can follow is reported and no other                     *)
(* (app/compose/kept_sources.py, app/synthesis/writer.py).                 *)
THEOREM DocumentsHold ==
  ASSUME MaxNumber <= MarkerLimit
  PROVE  PartSpec => AnswersHold
<1>1. Readable
  BY RegenerationAssumption DEF Readable
<1>2. DocumentInv => D!KeptBlocksStay /\ D!OneMeaning
  BY DEF DocumentInv
<1>3. D!Spec => []DocumentInv
  BY <1>1, DocumentSafety
<1>4. D!Spec => D!Attributed
  BY <1>1, AnswersAttributed
<1> QED BY <1>2, <1>3, <1>4, RequestsRunEveryPart, PTL DEF AnswersHold

(* What the parts of a worker keep for requests is always of the kind      *)
(* their modules declare (app/llm, app/api, app/sources, app/compose).     *)
THEOREM RequestsTyped ==
  ASSUME MaxNumber <= MarkerLimit
  PROVE  PartSpec => []TypesOK
<1>1. Readable
  BY RegenerationAssumption DEF Readable
<1>2. D!Spec => []DocumentInv
  BY <1>1, DocumentSafety
<1>3. BudgetInv /\ RequestInv /\ G!TypeOK /\ LimiterInv /\ ReaderInv /\ IndexInv /\ DocumentInv
        => TypesOK
  BY BudgetInvKeeps, LimiterInvKeeps, ReaderInvSays
     DEF TypesOK, BudgetInv, RequestInv, IndexInv, DocumentInv
<1> QED
  BY <1>2, <1>3, RequestsRunEveryPart, BudgetSafety, RequestSafety, GatewayTyped, LimiterSafety,
     ReaderSafety, IndexSafety, PTL
=============================================================================
