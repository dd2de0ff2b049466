-------------------------- MODULE LlmClientProofs --------------------------
(***************************************************************************)
(* Theorems about the circuit breaker of LlmClient, for any number of      *)
(* threads, request keys, attempts, permits and any length of the stops.   *)
(***************************************************************************)
EXTENDS LlmClient, FiniteSetTheorems, TLAPS

(* The stops stay within their range whatever a critical section does.     *)
LEMMA StopsType ==
  ASSUME NEW left \in StopTime, NEW t \in {Breaker, AuthSuspend}
  PROVE  /\ Closed \in StopTime
         /\ Longer(left, t) \in StopTime
         /\ Elapsed(left) \in StopTime
<1>1. t \in 0 .. AuthSuspend
  BY StopsAssumption
<1>2. QED
  BY <1>1, StopsAssumption DEF Longer, Elapsed, StopTime, Closed

(* A trip, an own-key trip and a close keep the types of the stops.        *)
StopsOK ==
  /\ openLeft \in StopTime
  /\ ownLeft \in StopTime
  /\ probing \in BOOLEAN
  /\ ownProbing \in BOOLEAN

(* A critical section under _state keeps the types of the stops.           *)
LEMMA SectionsType ==
  ASSUME StopsOK,
         \/ UNCHANGED stops
         \/ \E t \in {Breaker, AuthSuspend} : Trip(t) \/ TripOwn(t)
         \/ \E k \in Keys : Close(k)
  PROVE  StopsOK'
<1>1. CASE UNCHANGED stops
  BY <1>1 DEF StopsOK, stops
<1>2. CASE \E t \in {Breaker, AuthSuspend} : Trip(t) \/ TripOwn(t)
  BY <1>2, StopsType DEF StopsOK, Trip, TripOwn
<1>3. CASE \E k \in Keys : Close(k)
  BY <1>3, StopsType DEF StopsOK, Close
<1>4. QED
  BY <1>1, <1>2, <1>3

(* The state apart from the stops.                                         *)
CallsOK ==
  /\ failures \in 0 .. Attempts
  /\ slots \in 0 .. MaxConcurrency
  /\ refused \subseteq RequestKeys
  /\ pc \in [Calls -> {"idle", "ready", "queued", "sent", "answered",
                       "faulted", "tripping", "leaving"}]
  /\ key \in [Calls -> Keys]
  /\ probe \in [Calls -> {"none", "outage", "ownKey"}]
  /\ tries \in [Calls -> 0 .. Attempts]
  /\ made \in [Calls -> 0 .. Attempts]
  /\ said \in [Calls -> Answers \cup {"none"}]

(* The type invariant splits into that of the stops and that of the rest.  *)
LEMMA TypeParts == TypeOK <=> StopsOK /\ CallsOK
  BY DEF TypeOK, StopsOK, CallsOK

(* The permits are a number between none and all of them.                  *)
LEMMA SlotsType ==
  ASSUME CallsOK
  PROVE  slots \in Int /\ slots >= 0 /\ slots <= MaxConcurrency /\ MaxConcurrency \in Int
  BY SlotsAssumption DEF CallsOK

(* The number of attempts on the wire.                                     *)
OnWire == {c \in Calls : At(c, "sent")}

IInv == TypeOK /\ FlagsHaveProbes /\ SlotsConserved

(* The wire holds one attempt more or one less, or stays as it is, with    *)
(* the place the call goes to.                                             *)
LEMMA WireStep ==
  ASSUME CallsOK, NEW c \in Calls, NEW place, GoTo(c, place)
  PROVE  /\ IsFiniteSet(OnWire) /\ Cardinality(OnWire) \in Nat
         /\ pc[c] # "sent" /\ place = "sent"
              => Cardinality(OnWire') = Cardinality(OnWire) + 1
         /\ pc[c] = "sent" /\ place # "sent"
              => Cardinality(OnWire') = Cardinality(OnWire) - 1
         /\ pc[c] # "sent" /\ place # "sent" => OnWire' = OnWire
<1>1. IsFiniteSet(OnWire) /\ IsFiniteSet(OnWire')
  BY CallsAssumption, FS_Subset DEF OnWire
<1>2. Cardinality(OnWire) \in Nat
  BY <1>1, FS_CardinalityType
<1>3. ASSUME pc[c] # "sent", place = "sent"
      PROVE  Cardinality(OnWire') = Cardinality(OnWire) + 1
  <2>1. OnWire' = OnWire \cup {c} /\ c \notin OnWire
    BY <1>3 DEF OnWire, At, GoTo, CallsOK
  <2>2. QED
    BY <2>1, <1>1, FS_AddElement
<1>4. ASSUME pc[c] = "sent", place # "sent"
      PROVE  Cardinality(OnWire') = Cardinality(OnWire) - 1
  <2>1. OnWire' = OnWire \ {c} /\ c \in OnWire
    BY <1>4 DEF OnWire, At, GoTo, CallsOK
  <2>2. QED
    BY <2>1, <1>1, FS_RemoveElement
<1>5. ASSUME pc[c] # "sent", place # "sent" PROVE OnWire' = OnWire
  BY <1>5 DEF OnWire, At, GoTo, CallsOK
<1>6. QED
  BY <1>1, <1>2, <1>3, <1>4, <1>5

(* The permits after a step of call c.                                     *)
LEMMA SlotsStep ==
  ASSUME CallsOK, SlotsConserved, NEW c \in Calls, NEW place, GoTo(c, place),
         \/ pc[c] # "sent" /\ place = "sent" /\ slots' = slots - 1
         \/ pc[c] = "sent" /\ place # "sent" /\ slots' = slots + 1
         \/ pc[c] # "sent" /\ place # "sent" /\ slots' = slots
  PROVE  /\ SlotsConserved'
         /\ slots' \in Int /\ slots' <= MaxConcurrency
         /\ slots > 0 \/ place # "sent" => slots' >= 0
<1>1. SlotsConserved <=> slots + Cardinality(OnWire) = MaxConcurrency
  BY DEF SlotsConserved, OnWire
<1>2. SlotsConserved' <=> slots' + Cardinality(OnWire') = MaxConcurrency
  BY DEF SlotsConserved, OnWire
<1>3. slots \in Int /\ MaxConcurrency \in Int /\ Cardinality(OnWire) \in Nat
  BY SlotsType, WireStep
<1>4. CASE pc[c] # "sent" /\ place = "sent" /\ slots' = slots - 1
  BY <1>1, <1>2, <1>3, <1>4, WireStep, SlotsType
<1>5. CASE pc[c] = "sent" /\ place # "sent" /\ slots' = slots + 1
  <2>1. OnWire # {} /\ IsFiniteSet(OnWire)
    BY <1>5, WireStep DEF OnWire, At
  <2>2. Cardinality(OnWire) # 0
    BY <2>1, FS_EmptySet
  <2>3. Cardinality(OnWire') = Cardinality(OnWire) - 1
    BY <1>5, WireStep
  <2>4. QED
    BY <1>1, <1>2, <1>3, <1>5, <2>2, <2>3, SlotsType
<1>6. CASE pc[c] # "sent" /\ place # "sent" /\ slots' = slots
  BY <1>1, <1>2, <1>3, <1>6, WireStep, SlotsType
<1>7. QED
  BY <1>4, <1>5, <1>6

(* A call that stays out and keeps its probe keeps the flags backed.       *)
LEMMA FlagsStep ==
  ASSUME CallsOK, FlagsHaveProbes, NEW c \in Calls, NEW place,
         GoTo(c, place), place # "idle", pc[c] # "idle",
         probe' = probe, probing' => probing, ownProbing' => ownProbing
  PROVE  FlagsHaveProbes'
<1>1. \A d \in Calls : Out(d) => Out(d)'
  BY DEF GoTo, Out, CallsOK
<1>2. QED
  BY <1>1 DEF FlagsHaveProbes

(* What all steps of a call but its admission and its end have in common.  *)
Step(c, place) ==
  /\ GoTo(c, place)
  /\ pc[c] # "idle"
  /\ \/ UNCHANGED stops
     \/ \E t \in {Breaker, AuthSuspend} : Trip(t) \/ TripOwn(t)
     \/ Close(key[c])
  /\ failures' \in 0 .. Attempts
  /\ \/ pc[c] # "sent" /\ place = "sent" /\ slots > 0 /\ slots' = slots - 1
     \/ pc[c] = "sent" /\ place # "sent" /\ slots' = slots + 1
     \/ pc[c] # "sent" /\ place # "sent" /\ slots' = slots
  /\ \/ refused' = refused
     \/ refused' = refused \cup {key[c]} /\ key[c] # OwnKey
  /\ key' = key /\ probe' = probe /\ tries' = tries
  /\ \/ made' = made
     \/ made' = [made EXCEPT ![c] = @ + 1] /\ made[c] < tries[c]
  /\ \/ said' = said
     \/ \E a \in Answers \cup {"none"} : said' = [said EXCEPT ![c] = a]

(* A step of that shape keeps the inductive invariant.                     *)
LEMMA ProceedStep ==
  ASSUME IInv, NEW c \in Calls,
         NEW place \in {"ready", "queued", "sent", "answered", "faulted",
                        "tripping", "leaving"},
         Step(c, place)
  PROVE  IInv'
<1> USE DEF Step
<1>1. StopsOK /\ CallsOK /\ FlagsHaveProbes /\ SlotsConserved
  BY TypeParts DEF IInv
<1>2. key[c] \in Keys
  BY <1>1 DEF CallsOK
<1>3. StopsOK'
  BY <1>1, <1>2, SectionsType
<1>4. SlotsConserved' /\ slots' \in Int /\ slots' <= MaxConcurrency /\ slots' >= 0
  BY <1>1, SlotsStep
<1>5. slots' \in 0 .. MaxConcurrency
  BY <1>4, SlotsType, <1>1
<1>6. refused' \subseteq RequestKeys
  BY <1>1, <1>2 DEF CallsOK, Keys
<1>7. made' \in [Calls -> 0 .. Attempts]
  <2>1. made[c] \in 0 .. Attempts /\ tries[c] \in 0 .. Attempts
    BY <1>1 DEF CallsOK
  <2>2. made[c] < tries[c] => made[c] + 1 \in 0 .. Attempts
    BY <2>1, AttemptsAssumption
  <2>3. QED
    BY <1>1, <2>2 DEF CallsOK
<1>8. said' \in [Calls -> Answers \cup {"none"}]
  BY <1>1 DEF CallsOK
<1>9. pc' \in [Calls -> {"idle", "ready", "queued", "sent", "answered",
                         "faulted", "tripping", "leaving"}]
  BY <1>1 DEF CallsOK, GoTo
<1>10. CallsOK'
  BY <1>1, <1>5, <1>6, <1>7, <1>8, <1>9 DEF CallsOK
<1>11. (probing' => probing) /\ (ownProbing' => ownProbing)
  <2>1. CASE UNCHANGED stops
    BY <2>1 DEF stops
  <2>2. CASE \E t \in {Breaker, AuthSuspend} : Trip(t) \/ TripOwn(t)
    <3>1. PICK t \in {Breaker, AuthSuspend} : Trip(t) \/ TripOwn(t)
      BY <2>2
    <3>2. CASE Trip(t)
      BY <3>2 DEF Trip
    <3>3. CASE TripOwn(t)
      BY <3>3 DEF TripOwn
    <3>4. QED
      BY <3>1, <3>2, <3>3
  <2>3. CASE Close(key[c])
    BY <2>3, <1>1 DEF Close, StopsOK
  <2>4. QED
    BY <2>1, <2>2, <2>3
<1>12. FlagsHaveProbes'
  BY <1>1, <1>11, FlagsStep
<1>13. TypeOK'
  BY <1>3, <1>10, TypeParts DEF TypeOK, StopsOK, CallsOK
<1>14. QED
  BY <1>4, <1>12, <1>13 DEF IInv

(* An admission sets at most the flag of its own probe.                    *)
LEMMA AdmitStep ==
  ASSUME IInv, NEW c \in Calls, NEW k \in Keys, NEW check \in BOOLEAN,
         Admit(c, k, check)
  PROVE  IInv'
<1>1. StopsOK /\ CallsOK /\ FlagsHaveProbes /\ SlotsConserved
  BY TypeParts DEF IInv
<1>2. ProbeKind(k) \in {"none", "outage", "ownKey"}
  BY DEF ProbeKind
<1>3. StopsOK'
  BY <1>1 DEF StopsOK, Admit
<1>4. CallsOK'
  <2>1. 0 \in 0 .. Attempts /\ 1 \in 0 .. Attempts /\ Attempts \in 0 .. Attempts
    BY AttemptsAssumption
  <2>2. (IF ProbeKind(k) # "none" \/ check THEN 1 ELSE Attempts) \in 0 .. Attempts
    BY <2>1
  <2>3. tries' \in [Calls -> 0 .. Attempts] /\ made' \in [Calls -> 0 .. Attempts]
    BY <1>1, <2>1, <2>2 DEF CallsOK, Admit
  <2>4. QED
    BY <1>1, <1>2, <2>3 DEF CallsOK, Admit, GoTo
<1>5. GoTo(c, "ready") /\ pc[c] = "idle" /\ slots' = slots
  BY DEF Admit, At
<1>6. SlotsConserved'
  BY <1>1, <1>5, SlotsStep
<1>7. FlagsHaveProbes'
  <2>1. /\ Out(c)' /\ (probe[c])' = ProbeKind(k)
        /\ \A d \in Calls : Out(d) => Out(d)' /\ (probe[d])' = probe[d]
    BY <1>1, <1>5 DEF CallsOK, Admit, GoTo, Out
  <2>2. /\ probing' => probing \/ ProbeKind(k) = "outage"
        /\ ownProbing' => ownProbing \/ ProbeKind(k) = "ownKey"
    BY <1>1 DEF Admit, StopsOK
  <2>3. QED
    BY <1>1, <2>1, <2>2 DEF FlagsHaveProbes
<1>8. QED
  BY <1>3, <1>4, <1>6, <1>7, TypeParts DEF IInv, TypeOK, StopsOK, CallsOK

(* A call that ends takes down the flag of its own kind: what remains up   *)
(* is backed by another call.                                              *)
LEMMA LeaveStep ==
  ASSUME IInv, NEW c \in Calls, Leave(c)
  PROVE  IInv'
<1>1. StopsOK /\ CallsOK /\ FlagsHaveProbes /\ SlotsConserved
  BY TypeParts DEF IInv
<1>2. StopsOK'
  BY <1>1 DEF StopsOK, Leave
<1>3. CallsOK'
  <2>1. 0 \in 0 .. Attempts
    BY AttemptsAssumption
  <2>2. QED
    BY <1>1, <2>1 DEF CallsOK, Leave, GoTo, Keys
<1>4. GoTo(c, "idle") /\ pc[c] = "leaving" /\ slots' = slots
  BY DEF Leave, At
<1>5. SlotsConserved'
  BY <1>1, <1>4, SlotsStep
<1>6. FlagsHaveProbes'
  <2>1. \A d \in Calls : d # c /\ Out(d) => Out(d)' /\ (probe[d])' = probe[d]
    BY <1>1, <1>4 DEF CallsOK, Leave, GoTo, Out
  <2>2. /\ probing' => probing /\ probe[c] # "outage"
        /\ ownProbing' => ownProbing /\ probe[c] # "ownKey"
    BY <1>1 DEF Leave, StopsOK
  <2>3. QED
    BY <1>1, <2>1, <2>2 DEF FlagsHaveProbes
<1>7. QED
  BY <1>2, <1>3, <1>5, <1>6, TypeParts DEF IInv, TypeOK, StopsOK, CallsOK

(* Time and the requests leave the calls where they are.                   *)
LEMMA OutsideStep ==
  ASSUME IInv, Tick \/ (\E k \in RequestKeys : NewRequest(k)) \/ UNCHANGED vars
  PROVE  IInv'
<1>1. StopsOK /\ CallsOK /\ FlagsHaveProbes /\ SlotsConserved
  BY TypeParts DEF IInv
<1>2. StopsOK'
  <2>1. Breaker \in {Breaker, AuthSuspend}
    OBVIOUS
  <2>2. QED
    BY <1>1, <2>1, StopsType DEF StopsOK, Tick, NewRequest, vars, stops
<1>3. /\ pc' = pc /\ key' = key /\ probe' = probe /\ tries' = tries
      /\ made' = made /\ said' = said /\ slots' = slots /\ failures' = failures
      /\ probing' = probing /\ ownProbing' = ownProbing
      /\ refused' \subseteq refused
  BY DEF Tick, NewRequest, vars, stops, locals
<1>4. CallsOK'
  BY <1>1, <1>3 DEF CallsOK
<1>5. FlagsHaveProbes' /\ SlotsConserved'
  BY <1>1, <1>3 DEF FlagsHaveProbes, SlotsConserved, Out, At
<1>6. QED
  BY <1>2, <1>4, <1>5, TypeParts DEF IInv, TypeOK, StopsOK, CallsOK

(* Every step of an admitted call: each action is an instance of           *)
(* ProceedStep, but for the end of the call.                               *)
LEMMA CallStep ==
  ASSUME IInv, NEW c \in Calls, Proceed(c)
  PROVE  IInv'
<1>1. CallsOK
  BY TypeParts DEF IInv
<1>2. failures \in 0 .. Attempts
  BY <1>1 DEF CallsOK
<1>3. 0 \in 0 .. Attempts
  BY AttemptsAssumption
<1>4. CASE KeyProblem(c)
  <2>1. /\ GoTo(c, "leaving") /\ pc[c] = "ready"
        /\ UNCHANGED stops
        /\ failures' = failures /\ slots' = slots
        /\ refused' = refused /\ said' = said
        /\ key' = key /\ probe' = probe /\ tries' = tries /\ made' = made
    BY <1>4 DEF KeyProblem, At, stops, locals
  <2>2. failures' \in 0 .. Attempts
    BY <1>2, <1>3, <2>1
  <2>3. pc[c] # "idle" /\ pc[c] # "sent"
    BY <2>1
  <2>4. Step(c, "leaving")
    BY <2>1, <2>2, <2>3 DEF Step
  <2>5. QED
    BY <2>4, ProceedStep
<1>5. CASE HandleOdd(c)
  <2>1. /\ GoTo(c, "leaving") /\ pc[c] = "answered"
        /\ UNCHANGED stops
        /\ failures' = failures /\ slots' = slots
        /\ refused' = refused /\ said' = said
        /\ key' = key /\ probe' = probe /\ tries' = tries /\ made' = made
    BY <1>5 DEF HandleOdd, At, stops, locals
  <2>2. failures' \in 0 .. Attempts
    BY <1>2, <1>3, <2>1
  <2>3. pc[c] # "idle" /\ pc[c] # "sent"
    BY <2>1
  <2>4. Step(c, "leaving")
    BY <2>1, <2>2, <2>3 DEF Step
  <2>5. QED
    BY <2>4, ProceedStep
<1>6. CASE Queue(c)
  <2>1. /\ GoTo(c, "queued") /\ pc[c] = "ready"
        /\ UNCHANGED stops
        /\ failures' = failures /\ slots' = slots
        /\ refused' = refused /\ said' = said
        /\ key' = key /\ probe' = probe /\ tries' = tries /\ made' = made
    BY <1>6 DEF Queue, At, stops, locals
  <2>2. failures' \in 0 .. Attempts
    BY <1>2, <1>3, <2>1
  <2>3. pc[c] # "idle" /\ pc[c] # "sent"
    BY <2>1
  <2>4. Step(c, "queued")
    BY <2>1, <2>2, <2>3 DEF Step
  <2>5. QED
    BY <2>4, ProceedStep
<1>7. CASE TakeSlot(c)
  <2>1. /\ GoTo(c, "sent") /\ pc[c] = "queued"
        /\ UNCHANGED stops
        /\ failures' = failures /\ slots > 0 /\ slots' = slots - 1
        /\ refused' = refused /\ said' = said
        /\ key' = key /\ probe' = probe /\ tries' = tries /\ made' = made
    BY <1>7 DEF TakeSlot, At, stops, locals
  <2>2. failures' \in 0 .. Attempts
    BY <1>2, <1>3, <2>1
  <2>3. pc[c] # "idle" /\ pc[c] # "sent"
    BY <2>1
  <2>4. Step(c, "sent")
    BY <2>1, <2>2, <2>3 DEF Step
  <2>5. QED
    BY <2>4, ProceedStep
<1>8. CASE GiveUp(c)
  <2>1. /\ GoTo(c, "leaving") /\ pc[c] = "queued"
        /\ UNCHANGED stops
        /\ failures' = failures /\ slots' = slots
        /\ refused' = refused /\ said' = said
        /\ key' = key /\ probe' = probe /\ tries' = tries /\ made' = made
    BY <1>8 DEF GiveUp, At, stops, locals
  <2>2. failures' \in 0 .. Attempts
    BY <1>2, <1>3, <2>1
  <2>3. pc[c] # "idle" /\ pc[c] # "sent"
    BY <2>1
  <2>4. Step(c, "leaving")
    BY <2>1, <2>2, <2>3 DEF Step
  <2>5. QED
    BY <2>4, ProceedStep
<1>21. CASE TimeUp(c)
  <2>1. /\ GoTo(c, "leaving") /\ pc[c] = "sent"
        /\ UNCHANGED stops
        /\ failures' = failures /\ slots' = slots + 1
        /\ refused' = refused /\ said' = said
        /\ key' = key /\ probe' = probe /\ tries' = tries /\ made' = made
    BY <1>21 DEF TimeUp, At, stops, locals
  <2>2. failures' \in 0 .. Attempts
    BY <1>2, <1>3, <2>1
  <2>3. pc[c] # "idle"
    BY <2>1
  <2>4. Step(c, "leaving")
    BY <2>1, <2>2, <2>3 DEF Step
  <2>5. QED
    BY <2>4, ProceedStep
<1>9. CASE \E a \in Answers : Answer(c, a)
  <2>1. /\ GoTo(c, "answered") /\ pc[c] = "sent"
        /\ UNCHANGED stops
        /\ failures' = failures /\ slots' = slots + 1
        /\ refused' = refused /\ \E a \in Answers : said' = [said EXCEPT ![c] = a]
        /\ key' = key /\ probe' = probe /\ tries' = tries /\ made' = made
    BY <1>9 DEF Answer, At, stops, locals
  <2>2. failures' \in 0 .. Attempts
    BY <1>2, <1>3, <2>1
  <2>3. pc[c] # "idle"
    BY <2>1
  <2>4. Step(c, "answered")
    BY <2>1, <2>2, <2>3 DEF Step
  <2>5. QED
    BY <2>4, ProceedStep
<1>10. CASE HandleAnswer(c)
  <2>1. /\ GoTo(c, "leaving") /\ pc[c] = "answered"
        /\ Close(key[c])
        /\ failures' = 0 /\ slots' = slots
        /\ refused' = refused /\ said' = said
        /\ key' = key /\ probe' = probe /\ tries' = tries /\ made' = made
    BY <1>10 DEF HandleAnswer, Close, At, stops, locals
  <2>2. failures' \in 0 .. Attempts
    BY <1>2, <1>3, <2>1
  <2>3. pc[c] # "idle" /\ pc[c] # "sent"
    BY <2>1
  <2>4. Step(c, "leaving")
    BY <2>1, <2>2, <2>3 DEF Step
  <2>5. QED
    BY <2>4, ProceedStep
<1>11. CASE HandleTimeout(c)
  <2>1. /\ GoTo(c, "leaving") /\ pc[c] = "answered"
        /\ Trip(Breaker)
        /\ failures' = failures /\ slots' = slots
        /\ refused' = refused /\ said' = said
        /\ key' = key /\ probe' = probe /\ tries' = tries /\ made' = made
    BY <1>11 DEF HandleTimeout, At, stops, locals
  <2>2. failures' \in 0 .. Attempts
    BY <1>2, <1>3, <2>1
  <2>3. pc[c] # "idle" /\ pc[c] # "sent"
    BY <2>1
  <2>4. Step(c, "leaving")
    BY <2>1, <2>2, <2>3 DEF Step
  <2>5. QED
    BY <2>4, ProceedStep
<1>12. CASE RefuseRequestKey(c)
  <2>1. /\ GoTo(c, "leaving") /\ pc[c] = "answered"
        /\ UNCHANGED stops
        /\ failures' = failures /\ slots' = slots
        /\ refused' = refused \cup {key[c]} /\ key[c] # OwnKey /\ said' = said
        /\ key' = key /\ probe' = probe /\ tries' = tries /\ made' = made
    BY <1>12 DEF RefuseRequestKey, At, stops, locals
  <2>2. failures' \in 0 .. Attempts
    BY <1>2, <1>3, <2>1
  <2>3. pc[c] # "idle" /\ pc[c] # "sent"
    BY <2>1
  <2>4. Step(c, "leaving")
    BY <2>1, <2>2, <2>3 DEF Step
  <2>5. QED
    BY <2>4, ProceedStep
<1>13. CASE RefuseOwnKey(c)
  <2>1. /\ GoTo(c, "leaving") /\ pc[c] = "answered"
        /\ Trip(AuthSuspend) \/ TripOwn(AuthSuspend) \/ TripOwn(Breaker)
        /\ failures' = failures /\ slots' = slots
        /\ refused' = refused /\ said' = said
        /\ key' = key /\ probe' = probe /\ tries' = tries /\ made' = made
    BY <1>13 DEF RefuseOwnKey, At, stops, locals
  <2>2. failures' \in 0 .. Attempts
    BY <1>2, <1>3, <2>1
  <2>3. pc[c] # "idle" /\ pc[c] # "sent"
    BY <2>1
  <2>4. Step(c, "leaving")
    BY <2>1, <2>2, <2>3 DEF Step
  <2>5. QED
    BY <2>4, ProceedStep
<1>14. CASE CountFailure(c)
  <2>1. /\ GoTo(c, "faulted") /\ pc[c] = "answered"
        /\ UNCHANGED stops
        /\ failures' \in 0 .. Attempts /\ slots' = slots
        /\ refused' = refused /\ said' = said
        /\ key' = key /\ probe' = probe /\ tries' = tries /\ made' = made
    BY <1>2, AttemptsAssumption, <1>14 DEF CountFailure, At, stops, locals
  <2>2. failures' \in 0 .. Attempts
    BY <1>2, <1>3, <2>1
  <2>3. pc[c] # "idle" /\ pc[c] # "sent"
    BY <2>1
  <2>4. Step(c, "faulted")
    BY <2>1, <2>2, <2>3 DEF Step
  <2>5. QED
    BY <2>4, ProceedStep
<1>15. CASE Retry(c)
  <2>1. /\ GoTo(c, "ready") /\ pc[c] = "faulted"
        /\ UNCHANGED stops
        /\ failures' = failures /\ slots' = slots
        /\ refused' = refused /\ \E a \in Answers \cup {"none"} : said' = [said EXCEPT ![c] = a]
        /\ key' = key /\ probe' = probe /\ tries' = tries /\ made[c] < tries[c]
        /\ made' = [made EXCEPT ![c] = @ + 1]
    BY <1>15 DEF Retry, At, stops, locals
  <2>2. failures' \in 0 .. Attempts
    BY <1>2, <1>3, <2>1
  <2>3. pc[c] # "idle" /\ pc[c] # "sent"
    BY <2>1
  <2>4. Step(c, "ready")
    BY <2>1, <2>2, <2>3 DEF Step
  <2>5. QED
    BY <2>4, ProceedStep
<1>16. CASE Limited(c)
  <2>1. /\ GoTo(c, "leaving") /\ pc[c] = "faulted"
        /\ (UNCHANGED stops \/ TripOwn(Breaker))
        /\ failures' = failures /\ slots' = slots
        /\ (refused' = refused \/ (refused' = refused \cup {key[c]} /\ key[c] # OwnKey)) /\ said' = said
        /\ key' = key /\ probe' = probe /\ tries' = tries /\ made' = made
    BY <1>16 DEF Limited, At, stops, locals
  <2>2. failures' \in 0 .. Attempts
    BY <1>2, <1>3, <2>1
  <2>3. pc[c] # "idle" /\ pc[c] # "sent"
    BY <2>1
  <2>4. Step(c, "leaving")
    BY <2>1, <2>2, <2>3 DEF Step
  <2>5. QED
    BY <2>4, ProceedStep
<1>17. CASE Exhausted(c)
  <2>1. /\ GoTo(c, "tripping") \/ GoTo(c, "leaving")
        /\ pc[c] = "faulted"
        /\ UNCHANGED stops
        /\ failures' = failures /\ slots' = slots
        /\ refused' = refused /\ said' = said
        /\ key' = key /\ probe' = probe /\ tries' = tries /\ made' = made
    BY <1>17 DEF Exhausted, At, stops, locals
  <2>2. failures' \in 0 .. Attempts
    BY <1>2, <1>3, <2>1
  <2>3. pc[c] # "idle" /\ pc[c] # "sent"
    BY <2>1
  <2>4. Step(c, "tripping") \/ Step(c, "leaving")
    BY <2>1, <2>2, <2>3 DEF Step
  <2>5. QED
    BY <2>4, ProceedStep
<1>18. CASE TripAfterFailures(c)
  <2>1. /\ GoTo(c, "leaving") /\ pc[c] = "tripping"
        /\ Trip(Breaker)
        /\ failures' = failures /\ slots' = slots
        /\ refused' = refused /\ said' = said
        /\ key' = key /\ probe' = probe /\ tries' = tries /\ made' = made
    BY <1>18 DEF TripAfterFailures, At, stops, locals
  <2>2. failures' \in 0 .. Attempts
    BY <1>2, <1>3, <2>1
  <2>3. pc[c] # "idle" /\ pc[c] # "sent"
    BY <2>1
  <2>4. Step(c, "leaving")
    BY <2>1, <2>2, <2>3 DEF Step
  <2>5. QED
    BY <2>4, ProceedStep
<1>19. CASE Leave(c)
  BY <1>19, LeaveStep
<1>20. QED
  BY <1>4, <1>5, <1>6, <1>7, <1>8, <1>9, <1>10, <1>11, <1>12,
     <1>13, <1>14, <1>15, <1>16, <1>17, <1>18, <1>19, <1>21 DEF Proceed

(* At the start no call is out, no flag is up and every permit is free.    *)
LEMMA InitIInv == Init => IInv
<1> SUFFICES ASSUME Init PROVE IInv
  OBVIOUS
<1>1. TypeOK
  <2>1. /\ Closed \in StopTime
        /\ 0 \in 0 .. Attempts
        /\ MaxConcurrency \in 0 .. MaxConcurrency
    BY AttemptsAssumption, SlotsAssumption, StopsAssumption DEF StopTime, Closed
  <2>2. QED
    BY <2>1 DEF Init, TypeOK, Keys
<1>2. FlagsHaveProbes
  BY DEF Init, FlagsHaveProbes
<1>3. SlotsConserved
  <2>1. {c \in Calls : At(c, "sent")} = {}
    BY DEF Init, At
  <2>2. QED
    BY <2>1, SlotsAssumption, FS_EmptySet DEF Init, SlotsConserved
<1>4. QED
  BY <1>1, <1>2, <1>3 DEF IInv

(* Every step keeps the inductive invariant: of a call that is admitted, of *)
(* a call on its way, and of time and the requests around them.            *)
LEMMA NextIInv == IInv /\ [Next]_vars => IInv'
<1> SUFFICES ASSUME IInv, [Next]_vars PROVE IInv'
  OBVIOUS
<1>1. ASSUME NEW c \in Calls, NEW k \in Keys, NEW check \in BOOLEAN, Admit(c, k, check)
      PROVE  IInv'
  BY <1>1, AdmitStep
<1>2. ASSUME NEW c \in Calls, Proceed(c) PROVE IInv'
  BY <1>2, CallStep
<1>3. ASSUME Tick \/ (\E k \in RequestKeys : NewRequest(k)) \/ UNCHANGED vars
      PROVE  IInv'
  BY <1>3, OutsideStep
<1>4. QED
  BY <1>1, <1>2, <1>3 DEF Next

(* In every state the client is in: its type, a probe on its way behind    *)
(* every flag that is up, and no permit lost.                              *)
THEOREM Safety == Spec => []IInv
<1>1. Init => IInv
  BY InitIInv
<1>2. IInv /\ [Next]_vars => IInv'
  BY NextIInv
<1>3. QED
  BY <1>1, <1>2, PTL DEF Spec

(* The type invariant of LlmClient.                                        *)
THEOREM TypeCorrect == Spec => []TypeOK
<1>1. IInv => TypeOK
  BY DEF IInv
<1>2. QED
  BY <1>1, Safety, PTL

(* A probe flag is never left behind: _admit's hold on the other calls     *)
(* ends with a call that is on its way.                                    *)
THEOREM NoFlagLeftBehind == Spec => []FlagsHaveProbes
<1>1. IInv => FlagsHaveProbes
  BY DEF IInv
<1>2. QED
  BY <1>1, Safety, PTL

(* Free permits and attempts on the wire add up to MaxConcurrency.         *)
THEOREM NoPermitLost == Spec => []SlotsConserved
<1>1. IInv => SlotsConserved
  BY DEF IInv
<1>2. QED
  BY <1>1, Safety, PTL

(* What the steps of a call that touch neither a stop nor a key do.        *)
LEMMA QuietStep ==
  ASSUME StopsOK, openLeft' = openLeft, ownLeft' = ownLeft, refused' \subseteq refused
  PROVE  StopShortens /\ KeyFault
<1>1. openLeft \in Int /\ ownLeft \in Int
  BY StopsAssumption DEF StopsOK, StopTime, Closed
<1>2. QED
  BY <1>1 DEF StopShortens, KeyFault

(* A call that is about to trip the breaker met a failure, no 429.         *)
TripsAfterFailure == \A c \in Calls : At(c, "tripping") => said[c] = "failed"

(* Only Exhausted leads to a trip, and only from a failed attempt.         *)
LEMMA TripsStep ==
  ASSUME CallsOK, TripsAfterFailure, [Next]_vars
  PROVE  TripsAfterFailure'
<1>1. ASSUME NEW c \in Calls, NEW place, GoTo(c, place),
             \A d \in Calls : d # c => said'[d] = said[d],
             place = "tripping" => said'[c] = "failed"
      PROVE  TripsAfterFailure'
  BY <1>1 DEF TripsAfterFailure, GoTo, At, CallsOK
<1>2. ASSUME pc' = pc, said' = said PROVE TripsAfterFailure'
  BY <1>2 DEF TripsAfterFailure, At
<1>3. CASE Tick \/ (\E k \in RequestKeys : NewRequest(k)) \/ UNCHANGED vars
  BY <1>2, <1>3 DEF Tick, NewRequest, vars
<1>4. ASSUME NEW c \in Calls, NEW k \in Keys, NEW check \in BOOLEAN, Admit(c, k, check)
      PROVE  TripsAfterFailure'
  BY <1>1, <1>4 DEF Admit
<1>5. ASSUME NEW c \in Calls, Proceed(c)
      PROVE  TripsAfterFailure'
  <2>1. CASE \/ KeyProblem(c) \/ Queue(c) \/ TakeSlot(c) \/ GiveUp(c) \/ TimeUp(c)
             \/ HandleAnswer(c) \/ HandleOdd(c) \/ HandleTimeout(c)
             \/ RefuseRequestKey(c) \/ RefuseOwnKey(c) \/ CountFailure(c)
             \/ Limited(c) \/ TripAfterFailures(c)
    BY <1>1, <2>1
       DEF KeyProblem, Queue, TakeSlot, GiveUp, TimeUp, HandleAnswer, HandleOdd,
           HandleTimeout, RefuseRequestKey, RefuseOwnKey, CountFailure,
           Limited, TripAfterFailures
  <2>2. CASE (\E a \in Answers : Answer(c, a)) \/ Retry(c) \/ Leave(c)
    <3>1. \A d \in Calls : d # c => said'[d] = said[d]
      BY <2>2 DEF Answer, Retry, Leave, CallsOK
    <3>2. GoTo(c, "answered") \/ GoTo(c, "ready") \/ GoTo(c, "idle")
      BY <2>2 DEF Answer, Retry, Leave
    <3>3. QED
      BY <1>1, <3>1, <3>2
  <2>3. CASE Exhausted(c)
    <3>1. /\ said' = said /\ said[c] = "failed"
          /\ GoTo(c, "tripping") \/ GoTo(c, "leaving")
      BY <2>3 DEF Exhausted
    <3>2. QED
      BY <1>1, <3>1
  <2>4. QED
    BY <1>5, <2>1, <2>2, <2>3 DEF Proceed
<1>6. QED
  BY <1>3, <1>4, <1>5 DEF Next

(* Of every step: which stops it may move, and which keys it may refuse.   *)
LEMMA StopsStep ==
  ASSUME IInv, TripsAfterFailure, [Next]_vars
  PROVE  StopShortens /\ KeyFault
<1>1. StopsOK /\ CallsOK
  BY TypeParts DEF IInv
<1>2. /\ openLeft \in Int /\ ownLeft \in Int /\ Closed \in Int
      /\ openLeft >= Closed /\ ownLeft >= Closed /\ Closed < 0
  BY <1>1, StopsAssumption DEF StopsOK, StopTime, Closed
<1>3. CASE \/ \E c \in Calls, k \in Keys, check \in BOOLEAN : Admit(c, k, check)
           \/ \E k \in RequestKeys : NewRequest(k)
           \/ UNCHANGED vars
  BY <1>1, <1>3, QuietStep DEF Admit, NewRequest, vars, stops
<1>4. CASE Tick
  BY <1>2, <1>4 DEF Tick, Elapsed, StopShortens, KeyFault
<1>5. ASSUME NEW c \in Calls, Proceed(c)
      PROVE  StopShortens /\ KeyFault
  <2>1. CASE \/ KeyProblem(c) \/ Queue(c) \/ TakeSlot(c) \/ GiveUp(c) \/ TimeUp(c)
             \/ (\E a \in Answers : Answer(c, a)) \/ HandleOdd(c)
             \/ CountFailure(c) \/ Retry(c) \/ Exhausted(c) \/ Leave(c)
    BY <2>1, <1>1, QuietStep
       DEF KeyProblem, Queue, TakeSlot, GiveUp, TimeUp, Answer, HandleOdd,
           CountFailure, Retry, Exhausted, Leave, stops
  <2>2. CASE HandleAnswer(c)
    <3>1. Moves(c) /\ said[c] \in {"ok", "wrong"}
      BY <2>2, <1>1 DEF HandleAnswer, Moves, GoTo, At, CallsOK
    <3>2. /\ openLeft' = Closed /\ refused' = refused
          /\ ownLeft' = ownLeft \/ (ownLeft' = Closed /\ key[c] = OwnKey)
      BY <2>2 DEF HandleAnswer, Close
    <3>3. StopShortens
      BY <1>2, <3>1, <3>2 DEF StopShortens
    <3>4. KeyFault
      BY <1>2, <3>2 DEF KeyFault
    <3>5. QED
      BY <3>3, <3>4
  <2>3. CASE HandleTimeout(c) \/ TripAfterFailures(c)
    <3>1. Moves(c) /\ said[c] \in {"timeout", "failed"}
      BY <2>3, <1>1
         DEF HandleTimeout, TripAfterFailures, Moves, GoTo, At, CallsOK, TripsAfterFailure
    <3>2. /\ openLeft' \in Int /\ openLeft' >= openLeft
          /\ ownLeft' = ownLeft /\ refused' = refused
      BY <2>3, <1>2, StopsAssumption
         DEF HandleTimeout, TripAfterFailures, Trip, Longer
    <3>3. QED
      BY <1>2, <3>1, <3>2 DEF StopShortens, KeyFault
  <2>4. CASE RefuseRequestKey(c)
    <3>1. Moves(c)
      BY <2>4, <1>1 DEF RefuseRequestKey, Moves, GoTo, At, CallsOK
    <3>2. openLeft' = openLeft /\ ownLeft' = ownLeft /\ refused' = refused \cup {key[c]}
      BY <2>4 DEF RefuseRequestKey, stops
    <3>3. QED
      BY <1>2, <3>1, <3>2 DEF StopShortens, KeyFault
  <2>5. CASE RefuseOwnKey(c)
    <3>1. Moves(c) /\ key[c] = OwnKey /\ said[c] \in KeyAnswers /\ refused' = refused
      BY <2>5, <1>1 DEF RefuseOwnKey, Moves, GoTo, At, CallsOK
    <3>2. /\ openLeft' \in Int /\ openLeft' >= openLeft
          /\ ownLeft' \in Int /\ ownLeft' >= ownLeft
          /\ openLeft' # openLeft => said[c] = "noRouter"
      BY <2>5, <1>2, StopsAssumption DEF RefuseOwnKey, Trip, TripOwn, Longer
    <3>3. QED
      BY <1>2, <3>1, <3>2 DEF StopShortens, KeyFault
  <2>6. CASE Limited(c)
    <3>1. Moves(c) /\ said[c] = "limited" /\ openLeft' = openLeft
      BY <2>6, <1>1 DEF Limited, Moves, GoTo, At, CallsOK, stops, TripOwn
    <3>2. /\ refused' = refused \/ refused' = refused \cup {key[c]}
          /\ ownLeft' \in Int /\ ownLeft' >= ownLeft
          /\ ownLeft' # ownLeft => key[c] = OwnKey
      BY <2>6, <1>2, StopsAssumption DEF Limited, stops, TripOwn, Longer
    <3>3. QED
      BY <1>2, <3>1, <3>2 DEF StopShortens, KeyFault
  <2>7. QED
    BY <1>5, <2>1, <2>2, <2>3, <2>4, <2>5, <2>6 DEF Proceed
<1>6. QED
  BY <1>3, <1>4, <1>5 DEF Next

(* So the invariant holds of every state the client is in.                 *)
LEMMA TripsInvariant == Spec => []TripsAfterFailure
<1>1. Init => TripsAfterFailure
  BY DEF Init, TripsAfterFailure, At
<1>2. IInv => CallsOK
  BY TypeParts DEF IInv
<1>3. CallsOK /\ TripsAfterFailure /\ [Next]_vars => TripsAfterFailure'
  BY TripsStep
<1>4. QED
  BY <1>1, <1>2, <1>3, Safety, PTL DEF Spec

(* A stop is never cut short but by time or an answer to a call it holds   *)
(* back: StopsOnlyLengthen of LlmClient.                                   *)
THEOREM StopsKept == Spec => StopsOnlyLengthen
<1>1. IInv /\ TripsAfterFailure /\ [Next]_vars => [StopShortens]_vars
  BY StopsStep
<1>2. QED
  BY <1>1, Safety, TripsInvariant, PTL DEF Spec, StopsOnlyLengthen

(* What one key meets holds back nobody else: KeyFaultsStayWithTheirKey.   *)
THEOREM KeyFaultsContained == Spec => KeyFaultsStayWithTheirKey
<1>1. IInv /\ TripsAfterFailure /\ [Next]_vars => [KeyFault]_vars
  BY StopsStep
<1>2. QED
  BY <1>1, Safety, TripsInvariant, PTL DEF Spec, KeyFaultsStayWithTheirKey
=============================================================================
