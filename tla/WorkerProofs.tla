------------------------ MODULE WorkerProofs ------------------------
(***************************************************************************)
(* Proofs about what a worker keeps for all requests of module Requests:   *)
(* its windows of the rate limit (L), the indexes it reads with their      *)
(* copies (I), and the check of the model (G).                             *)
(***************************************************************************)
EXTENDS Requests, FiniteSetTheorems, SequenceTheorems, TLAPS

LEMMA LimiterBounds ==
  /\ RateLimit \in Nat \ {0} /\ Window \in Nat \ {0} /\ Second \in Nat \ {0}
  /\ MaxClients \in Nat \ {0} /\ MaxTime \in Nat
BY LimiterAssumption DEF L!LimiterAssumption

-----------------------------------------------------------------------------
(* Sequences                                                               *)

Less == {p \in Nat \X Nat : p[1] < p[2]}

LEMMA LessWellFounded == IsWellFoundedOn(Less, Nat)
<1>1. OpToRel(<, Nat) = Less
  BY DEF OpToRel, Less
<1> QED BY <1>1, NatLessThanWellFounded, Zenon

LEMMA Smallest ==
  ASSUME NEW T, T \subseteq Nat, T # {}
  PROVE  \E t \in T : \A u \in T : t <= u
<1>1. PICK t \in T : \A u \in T : ~(<<u, t>> \in Less)
  BY LessWellFounded, WFMin
<1>2. \A u \in T : u < t => <<u, t>> \in Less
  BY DEF Less
<1>3. \A u \in T : ~(u < t)
  BY <1>1, <1>2
<1> QED BY <1>3

(* A sequence without its element k.                                       *)
Dropped(s, k) == SubSeq(s, 1, k - 1) \o SubSeq(s, k + 1, Len(s))

LEMMA DroppedIs ==
  ASSUME NEW S, NEW s \in Seq(S), NEW k \in 1 .. Len(s)
  PROVE  /\ Dropped(s, k) \in Seq(S) /\ Len(Dropped(s, k)) = Len(s) - 1
         /\ \A i \in 1 .. Len(s) - 1 : Dropped(s, k)[i] = IF i < k THEN s[i] ELSE s[i + 1]
<1> DEFINE front == SubSeq(s, 1, k - 1)
           back == SubSeq(s, k + 1, Len(s))
<1>1. Len(s) \in Nat /\ k \in Int /\ k >= 1 /\ k <= Len(s)
  BY LenProperties
<1>2. \A i \in 1 .. Len(s) : s[i] \in S
  BY ElementOfSeq
<1>3. /\ front \in Seq(S) /\ Len(front) = k - 1
      /\ \A i \in 1 .. k - 1 : front[i] = s[i]
  BY <1>1, <1>2, SubSeqProperties
<1>4. /\ back \in Seq(S) /\ Len(back) = Len(s) - k
      /\ \A i \in 1 .. Len(s) - k : back[i] = s[k + i]
  BY <1>1, <1>2, SubSeqProperties
<1> HIDE DEF front, back
<1>5. /\ front \o back \in Seq(S) /\ Len(front \o back) = Len(front) + Len(back)
      /\ \A i \in 1 .. Len(front) + Len(back) :
           (front \o back)[i] = IF i <= Len(front) THEN front[i] ELSE back[i - Len(front)]
  <2>1. front \in Seq(S) /\ back \in Seq(S)
    BY <1>3, <1>4
  <2> QED BY <2>1, ConcatProperties
<1>7. Len(front \o back) = Len(s) - 1
  BY <1>1, <1>3, <1>4, <1>5
<1>6. ASSUME NEW i \in 1 .. Len(s) - 1
      PROVE  (front \o back)[i] = IF i < k THEN s[i] ELSE s[i + 1]
  <2>1. i \in 1 .. Len(front) + Len(back) /\ i \in Int
    BY <1>1, <1>3, <1>4
  <2>2. (front \o back)[i] = IF i <= Len(front) THEN front[i] ELSE back[i - Len(front)]
    BY <2>1, <1>5
  <2>3. CASE i < k
    <3>1. i \in 1 .. k - 1 /\ i <= Len(front)
      BY <1>1, <1>3, <2>1, <2>3
    <3> QED BY <1>3, <2>2, <2>3, <3>1
  <2>4. CASE ~(i < k)
    <3>1. i - Len(front) \in 1 .. Len(s) - k /\ ~(i <= Len(front)) /\ k + (i - Len(front)) = i + 1
      BY <1>1, <1>3, <2>1, <2>4
    <3>2. back[i - Len(front)] = s[i + 1]
      BY <1>4, <3>1
    <3> QED BY <2>2, <2>4, <3>1, <3>2
  <2> QED BY <2>3, <2>4
<1>8. front \o back = Dropped(s, k)
  BY DEF Dropped, front, back
<1> QED BY <1>5, <1>6, <1>7, <1>8

Once(s) == \A i, j \in DOMAIN s : s[i] = s[j] => i = j
In(s) == {s[i] : i \in DOMAIN s}

(* Of elements that come once, one goes and the others stay.               *)
LEMMA DroppedOnce ==
  ASSUME NEW S, NEW s \in Seq(S), NEW k \in 1 .. Len(s), Once(s)
  PROVE  Once(Dropped(s, k)) /\ In(Dropped(s, k)) = In(s) \ {s[k]}
<1> DEFINE t == Dropped(s, k)
<1>1. /\ t \in Seq(S) /\ Len(t) = Len(s) - 1
      /\ \A i \in 1 .. Len(s) - 1 : t[i] = IF i < k THEN s[i] ELSE s[i + 1]
  BY DroppedIs
<1> HIDE DEF t
<1>2. /\ DOMAIN t = 1 .. Len(s) - 1 /\ DOMAIN s = 1 .. Len(s) /\ Len(s) \in Nat
  BY <1>1, LenProperties
<1>3. Once(t)
  <2> SUFFICES ASSUME NEW i \in 1 .. Len(s) - 1, NEW j \in 1 .. Len(s) - 1, t[i] = t[j]
               PROVE  i = j
    BY <1>2 DEF Once
  <2> DEFINE ii == IF i < k THEN i ELSE i + 1
             jj == IF j < k THEN j ELSE j + 1
  <2>1. ii \in DOMAIN s /\ jj \in DOMAIN s /\ t[i] = s[ii] /\ t[j] = s[jj]
    BY <1>1, <1>2
  <2>2. ii = jj
    <3> HIDE DEF ii, jj
    <3> QED BY <2>1 DEF Once
  <2> QED BY <2>2
<1>4. In(t) \subseteq In(s) \ {s[k]}
  BY <1>1, <1>2 DEF Once, In
<1>5. ASSUME NEW i \in DOMAIN s, s[i] # s[k]
      PROVE  s[i] \in In(t)
  <2>1. CASE i < k
    <3>1. i \in DOMAIN t /\ t[i] = s[i]
      BY <1>1, <1>2, <2>1
    <3> QED BY <3>1 DEF In
  <2>2. CASE ~(i < k)
    <3>1. i # k
      BY <1>5
    <3>2. i - 1 \in DOMAIN t /\ t[i - 1] = s[i]
      BY <1>1, <1>2, <2>2, <3>1
    <3> QED BY <3>2 DEF In
  <2> QED BY <2>1, <2>2
<1>6. In(s) \ {s[k]} \subseteq In(t)
  BY <1>5 DEF In
<1> QED BY <1>3, <1>4, <1>6 DEF t

-----------------------------------------------------------------------------
(* L, the windows                                                          *)

(* n times have left the window that begins at a moment.                   *)
Expire(times, begin, n) ==
  /\ n \in 0 .. Len(times)
  /\ \A j \in 1 .. n : times[j] < begin
  /\ n < Len(times) => times[n + 1] >= begin
  /\ Len(L!From(times, begin)) = Len(times) - n
  /\ \A i \in 1 .. Len(times) - n : L!From(times, begin)[i] = times[i + n]

LEMMA FromIs ==
  ASSUME NEW S, S \subseteq Int, NEW times \in Seq(S), NEW begin \in Int
  PROVE  L!From(times, begin) \in Seq(S) /\ \E n \in Nat : Expire(times, begin, n)
<1> DEFINE first == CHOOSE i \in 1 .. Len(times) + 1 :
                      /\ \A j \in 1 .. i - 1 : times[j] < begin
                      /\ i \in DOMAIN times => times[i] >= begin
           stays == {i \in 1 .. Len(times) + 1 : i \in DOMAIN times => times[i] >= begin}
<1>1. /\ Len(times) \in Nat /\ DOMAIN times = 1 .. Len(times)
      /\ \A i \in 1 .. Len(times) : times[i] \in S /\ times[i] \in Int
  BY LenProperties, ElementOfSeq
<1>2. Len(times) + 1 \in stays /\ stays \subseteq Nat
  BY <1>1
<1>3. PICK m \in stays : \A u \in stays : m <= u
  <2> HIDE DEF stays
  <2> QED BY <1>2, Smallest
<1>4. \A j \in 1 .. m - 1 : times[j] < begin
  BY <1>1, <1>3
<1>5. /\ first \in 1 .. Len(times) + 1
      /\ \A j \in 1 .. first - 1 : times[j] < begin
      /\ first \in DOMAIN times => times[first] >= begin
  BY <1>3, <1>4
<1> HIDE DEF first
<1>6. L!From(times, begin) = SubSeq(times, first, Len(times))
  BY DEF L!From, first
<1>7. first \in Int /\ \A i \in first .. Len(times) : times[i] \in S
  BY <1>1, <1>5
<1>8. /\ SubSeq(times, first, Len(times)) \in Seq(S)
      /\ Len(SubSeq(times, first, Len(times)))
           = IF first <= Len(times) THEN Len(times) - first + 1 ELSE 0
      /\ \A i \in 1 .. Len(times) - first + 1 :
           SubSeq(times, first, Len(times))[i] = times[first + i - 1]
  BY <1>1, <1>7, SubSeqProperties
<1>9. /\ first - 1 \in 0 .. Len(times) /\ first - 1 \in Nat
      /\ first - 1 < Len(times) => first \in DOMAIN times
      /\ (IF first <= Len(times) THEN Len(times) - first + 1 ELSE 0) = Len(times) - (first - 1)
      /\ first - 1 + 1 = first /\ Len(times) - (first - 1) = Len(times) - first + 1
      /\ \A i \in Int : first + i - 1 = i + (first - 1)
  BY <1>1, <1>5
<1>10. Expire(times, begin, first - 1)
  BY <1>5, <1>6, <1>8, <1>9 DEF Expire
<1> QED BY <1>6, <1>8, <1>9, <1>10

(* Times that are all in the window stay.                                  *)
LEMMA AllStay ==
  ASSUME NEW S, S \subseteq Int, NEW times \in Seq(S), NEW begin \in Int,
         Len(times) > 0 => times[1] >= begin
  PROVE  L!From(times, begin) = times
<1>1. PICK n \in Nat : Expire(times, begin, n)
  BY FromIs
<1>2. L!From(times, begin) \in Seq(S) /\ Len(times) \in Nat
  BY FromIs, LenProperties
<1>3. n = 0
  <2>1. \A i \in 1 .. Len(times) : times[i] \in Int
    BY ElementOfSeq
  <2> QED BY <1>1, <1>2, <2>1 DEF Expire
<1>4. /\ Len(L!From(times, begin)) = Len(times)
      /\ \A i \in 1 .. Len(times) : L!From(times, begin)[i] = times[i]
  BY <1>1, <1>2, <1>3 DEF Expire
<1> QED BY <1>2, <1>4, SeqEqual

(* What is left of a window that began earlier has left a later one too.   *)
LEMMA FromTwice ==
  ASSUME NEW S, S \subseteq Int, NEW times \in Seq(S), NEW b \in Int, NEW d \in Int, b <= d
  PROVE  L!From(L!From(times, b), d) = L!From(times, d)
<1> DEFINE above == L!From(times, b)
<1>1. PICK n \in Nat : Expire(times, b, n)
  BY FromIs
<1>2. above \in Seq(S) /\ L!From(times, d) \in Seq(S)
  BY FromIs
<1>3. /\ n \in 0 .. Len(times) /\ \A j \in 1 .. n : times[j] < b
      /\ Len(above) = Len(times) - n /\ \A i \in 1 .. Len(times) - n : above[i] = times[i + n]
  BY <1>1 DEF Expire
<1> HIDE DEF above
<1>4. PICK m \in Nat : Expire(above, d, m)
  BY <1>2, FromIs
<1>5. PICK k \in Nat : Expire(times, d, k)
  BY FromIs
<1>6. /\ m \in 0 .. Len(above) /\ \A j \in 1 .. m : above[j] < d
      /\ m < Len(above) => above[m + 1] >= d
      /\ Len(L!From(above, d)) = Len(above) - m
      /\ \A i \in 1 .. Len(above) - m : L!From(above, d)[i] = above[i + m]
  BY <1>4 DEF Expire
<1>7. /\ k \in 0 .. Len(times) /\ \A j \in 1 .. k : times[j] < d
      /\ k < Len(times) => times[k + 1] >= d
      /\ Len(L!From(times, d)) = Len(times) - k
      /\ \A i \in 1 .. Len(times) - k : L!From(times, d)[i] = times[i + k]
  BY <1>5 DEF Expire
<1>8. Len(times) \in Nat /\ \A i \in 1 .. Len(times) : times[i] \in Int
  BY LenProperties, ElementOfSeq
<1>9. \A j \in 1 .. n + m : times[j] < d
  <2> SUFFICES ASSUME NEW j \in 1 .. n + m PROVE times[j] < d
    OBVIOUS
  <2>1. CASE j <= n
    <3>1. times[j] < b /\ times[j] \in Int
      BY <1>3, <1>8, <2>1
    <3> QED BY <3>1
  <2>2. CASE ~(j <= n)
    <3>1. j - n \in 1 .. m /\ j - n \in 1 .. Len(times) - n /\ (j - n) + n = j
      BY <1>3, <1>6, <1>8, <2>2
    <3>2. above[j - n] < d /\ above[j - n] = times[j]
      BY <1>3, <1>6, <3>1
    <3> QED BY <3>2
  <2> QED BY <2>1, <2>2
<1>10. n + m < Len(times) => times[n + m + 1] >= d
  <2> SUFFICES ASSUME n + m < Len(times) PROVE times[n + m + 1] >= d
    OBVIOUS
  <2>1. m < Len(above) /\ m + 1 \in 1 .. Len(times) - n /\ (m + 1) + n = n + m + 1
    BY <1>3, <1>8
  <2>2. above[m + 1] >= d /\ above[m + 1] = times[n + m + 1]
    BY <1>3, <1>6, <2>1
  <2> QED BY <2>2
<1>11. k = n + m
  <2>1. ~(k < n + m)
    <3> SUFFICES ASSUME k < n + m PROVE FALSE
      OBVIOUS
    <3>1. k + 1 \in 1 .. n + m /\ k < Len(times) /\ k + 1 \in 1 .. Len(times)
      BY <1>3, <1>6, <1>8
    <3>2. times[k + 1] < d /\ times[k + 1] >= d /\ times[k + 1] \in Int
      BY <1>7, <1>8, <1>9, <3>1
    <3> QED BY <3>2
  <2>2. ~(n + m < k)
    <3> SUFFICES ASSUME n + m < k PROVE FALSE
      OBVIOUS
    <3>1. n + m + 1 \in 1 .. k /\ n + m < Len(times) /\ n + m + 1 \in 1 .. Len(times)
      BY <1>7, <1>8
    <3>2. times[n + m + 1] < d /\ times[n + m + 1] >= d /\ times[n + m + 1] \in Int
      BY <1>7, <1>8, <1>10, <3>1
    <3> QED BY <3>2
  <2> QED BY <2>1, <2>2
<1>12. L!From(above, d) \in Seq(S)
  BY <1>2, FromIs
<1>13. Len(L!From(above, d)) = Len(L!From(times, d))
  BY <1>3, <1>6, <1>7, <1>8, <1>11
<1>14. ASSUME NEW i \in 1 .. Len(L!From(above, d))
       PROVE  L!From(above, d)[i] = L!From(times, d)[i]
  <2>1. /\ i \in 1 .. Len(above) - m /\ i + m \in 1 .. Len(times) - n
        /\ i \in 1 .. Len(times) - k /\ (i + m) + n = i + k
    BY <1>3, <1>6, <1>7, <1>8, <1>11
  <2> QED BY <1>3, <1>6, <1>7, <2>1
<1>15. L!From(above, d) = L!From(times, d)
  BY <1>2, <1>12, <1>13, <1>14, SeqEqual
<1> QED BY <1>15 DEF above

LEMMA TimesOf ==
  ASSUME NEW times \in Seq(L!Times)
  PROVE  /\ Len(times) \in Nat /\ \A i \in 1 .. Len(times) : times[i] \in Int
         /\ \A begin \in Int :
              /\ L!From(times, begin) \in Seq(L!Times)
              /\ \E n \in Nat : Expire(times, begin, n)
              /\ L!From(L!From(times, begin), begin) = L!From(times, begin)
              /\ (Len(times) > 0 => times[1] >= begin) => L!From(times, begin) = times
<1>1. L!Times \subseteq Int
  BY DEF L!Times
<1>2. Len(times) \in Nat /\ \A i \in 1 .. Len(times) : times[i] \in Int
  BY <1>1, LenProperties, ElementOfSeq
<1>3. ASSUME NEW begin \in Int
      PROVE  L!From(times, begin) \in Seq(L!Times) /\ \E n \in Nat : Expire(times, begin, n)
  BY <1>1, FromIs
<1>4. ASSUME NEW begin \in Int
      PROVE  L!From(L!From(times, begin), begin) = L!From(times, begin)
  <2>1. begin <= begin
    OBVIOUS
  <2> QED BY <1>1, <2>1, FromTwice
<1>5. ASSUME NEW begin \in Int, Len(times) > 0 => times[1] >= begin
      PROVE  L!From(times, begin) = times
  BY <1>1, <1>5, AllStay
<1> QED BY <1>2, <1>3, <1>4, <1>5

LEMMA EmptyStays ==
  ASSUME NEW begin \in Int
  PROVE  L!From(<<>>, begin) = <<>>
<1> DEFINE none == <<>>
<1>1. none \in Seq(L!Times) /\ Len(none) = 0
  BY EmptySeq
<1> HIDE DEF none
<1>2. ~(Len(none) > 0)
  BY <1>1
<1>3. L!From(none, begin) = none
  BY <1>1, <1>2, TimesOf
<1> QED BY <1>3 DEF none

LEMMA Appended ==
  ASSUME NEW S, NEW s \in Seq(S), Once(s), NEW x \in S, x \notin In(s)
  PROVE  /\ Append(s, x) \in Seq(S) /\ Once(Append(s, x))
         /\ In(Append(s, x)) = In(s) \cup {x} /\ Len(Append(s, x)) = Len(s) + 1
<1> DEFINE t == Append(s, x)
<1>1. /\ t \in Seq(S) /\ Len(t) = Len(s) + 1 /\ t[Len(s) + 1] = x
      /\ \A i \in 1 .. Len(s) : t[i] = s[i]
  BY AppendProperties
<1> HIDE DEF t
<1>2. DOMAIN t = 1 .. Len(s) + 1 /\ DOMAIN s = 1 .. Len(s) /\ Len(s) \in Nat
  BY <1>1, LenProperties
<1>3. \A i \in 1 .. Len(s) + 1 : i \in 1 .. Len(s) \/ i = Len(s) + 1
  BY <1>2
<1>4. \A i \in 1 .. Len(s) : s[i] # x
  BY <1>2 DEF In
<1>5. Once(t)
  BY <1>1, <1>2, <1>3, <1>4 DEF Once
<1>6. In(t) = In(s) \cup {x}
  BY <1>1, <1>2, <1>3 DEF In
<1> QED BY <1>1, <1>5, <1>6 DEF t

LEMMA TailDrops ==
  ASSUME NEW S, NEW s \in Seq(S), Once(s), s # <<>>
  PROVE  /\ Tail(s) \in Seq(S) /\ Once(Tail(s)) /\ Len(Tail(s)) = Len(s) - 1
         /\ In(s) \ {Head(s)} \subseteq In(Tail(s))
<1> DEFINE t == Tail(s)
<1>1. /\ t \in Seq(S) /\ Len(t) = Len(s) - 1 /\ \A i \in 1 .. Len(t) : t[i] = s[i + 1]
  BY HeadTailProperties
<1>2. Head(s) = s[1]
  OBVIOUS
<1> HIDE DEF t
<1>3. DOMAIN t = 1 .. Len(t) /\ DOMAIN s = 1 .. Len(s) /\ Len(s) \in Nat
  BY <1>1, LenProperties
<1>4. Once(t)
  BY <1>1, <1>3 DEF Once
<1>5. ASSUME NEW i \in DOMAIN s, i # 1
      PROVE  s[i] \in In(t)
  <2>1. i - 1 \in DOMAIN t /\ t[i - 1] = s[i]
    BY <1>1, <1>3, <1>5
  <2> QED BY <2>1 DEF In
<1>6. In(s) \ {s[1]} \subseteq In(t)
  BY <1>5 DEF In
<1> QED BY <1>1, <1>2, <1>4, <1>6 DEF t

(* The client that was just seen comes last, and nobody comes twice.       *)
LEMMA SeenIs ==
  ASSUME order \in Seq(Clients), Once(order), NEW c \in Clients
  PROVE  /\ L!Seen(c) \in Seq(Clients) /\ Once(L!Seen(c))
         /\ In(L!Seen(c)) = In(order) \cup {c}
         /\ Len(L!Seen(c)) = IF c \in In(order) THEN Len(order) ELSE Len(order) + 1
<1>1. L!Range(order) = In(order) /\ Len(order) \in Nat /\ DOMAIN order = 1 .. Len(order)
  BY LenProperties DEF L!Range, In
<1>2. CASE c \in In(order)
  <2> DEFINE k == CHOOSE i \in DOMAIN order : order[i] = c
             less == Dropped(order, k)
  <2>1. k \in 1 .. Len(order) /\ order[k] = c
    BY <1>1, <1>2 DEF In
  <2>2. L!Seen(c) = Append(less, c)
    BY <1>1, <1>2 DEF L!Seen, L!Without, L!RemoveAt, Dropped
  <2> HIDE DEF k
  <2>3. /\ less \in Seq(Clients) /\ Len(less) = Len(order) - 1
        /\ Once(less) /\ In(less) = In(order) \ {c}
    BY <2>1, DroppedIs, DroppedOnce
  <2> HIDE DEF less
  <2>4. /\ Append(less, c) \in Seq(Clients) /\ Once(Append(less, c))
        /\ In(Append(less, c)) = In(less) \cup {c} /\ Len(Append(less, c)) = Len(less) + 1
    BY <2>3, Appended
  <2> QED BY <1>1, <1>2, <2>2, <2>3, <2>4
<1>3. CASE c \notin In(order)
  <2>1. L!Seen(c) = Append(order, c)
    BY <1>1, <1>3 DEF L!Seen, L!Without
  <2> QED BY <1>3, <2>1, Appended
<1> QED BY <1>2, <1>3

(* Retry-After is no less than what is left of the oldest hit's time.      *)
LEMMA RoundedUp ==
  ASSUME NEW x \in Int
  PROVE  /\ Second * L!Max({1, (x + Second - 1) \div Second}) \in Int
         /\ Second * L!Max({1, (x + Second - 1) \div Second}) >= x
<1> DEFINE y == (x + Second - 1) \div Second
           m == L!Max({1, y})
<1>1. \A z, s \in Int : s > 0 => z \div s \in Int /\ s * (z \div s) >= z - s + 1
  OBVIOUS
<1>2. Second \in Int /\ Second > 0 /\ x + Second - 1 \in Int
  BY LimiterBounds
<1>3. y \in Int /\ Second * y >= (x + Second - 1) - Second + 1
  BY <1>1, <1>2
<1> HIDE DEF y
<1>4. m \in Int /\ m >= y
  <2>1. CASE y <= 1
    <3>1. m = 1
      BY <1>3, <2>1 DEF L!Max
    <3> QED BY <2>1, <3>1
  <2>2. CASE y > 1
    <3>1. m = y
      BY <1>3, <2>2 DEF L!Max
    <3> QED BY <1>3, <3>1
  <2> QED BY <1>3, <2>1, <2>2
<1> HIDE DEF m
<1>5. \A s, a, b \in Int : s > 0 /\ b >= a => s * b \in Int /\ s * a \in Int /\ s * b >= s * a
  OBVIOUS
<1>6. Second * m \in Int /\ Second * y \in Int /\ Second * m >= Second * y
  BY <1>2, <1>3, <1>4, <1>5
<1>7. Second * m >= x
  BY <1>2, <1>3, <1>6
<1> QED BY <1>6, <1>7 DEF y, m

Starts == now - Window + 1

LimiterInv ==
  /\ L!TypeOK
  /\ \A c \in Clients :
       /\ Len(hits[c]) <= RateLimit
       /\ passed[c] = L!Fresh(hits[c])
       /\ hits[c] # <<>> => c \in In(order)
       /\ promised[c] # L!NoPromise =>
            Len(hits[c]) > 0 /\ hits[c][1] + Window <= promised[c]

LEMMA LimiterTyped ==
  LimiterInv => /\ now \in L!Times /\ L!Times \subseteq Int /\ now \in Int /\ Starts \in Int
                /\ hits \in [Clients -> Seq(L!Times)] /\ passed \in [Clients -> Seq(L!Times)]
                /\ order \in Seq(Clients) /\ Once(order) /\ Len(order) <= MaxClients
                /\ promised \in [Clients -> Int]
BY LimiterBounds DEF LimiterInv, L!TypeOK, L!Times, Starts, L!IsInjective, Once

(* The invariant keeps the promises.                                       *)
LEMMA LimiterInvKeeps == LimiterInv => L!TypeOK /\ L!WindowKept
<1> SUFFICES ASSUME LimiterInv, NEW c \in Clients
             PROVE  /\ Len(passed[c]) <= RateLimit
                    /\ promised[c] # L!NoPromise /\ now >= promised[c]
                         => Len(L!Fresh(hits[c])) < RateLimit
  BY DEF LimiterInv, L!WindowKept, L!WithinWindow, L!PromiseKept
<1>1. /\ hits[c] \in Seq(L!Times) /\ L!Times \subseteq Int /\ Starts \in Int /\ now \in Int
      /\ promised[c] \in Int
  BY LimiterTyped
<1>2. PICK n \in Nat : Expire(hits[c], Starts, n)
  BY <1>1, FromIs
<1>3. L!Fresh(hits[c]) = L!From(hits[c], Starts) /\ passed[c] = L!Fresh(hits[c])
  BY DEF L!Fresh, Starts, LimiterInv
<1>4. Len(L!Fresh(hits[c])) = Len(hits[c]) - n /\ n \in 0 .. Len(hits[c])
  BY <1>2, <1>3 DEF Expire
<1>5. Len(hits[c]) \in Nat /\ Len(hits[c]) <= RateLimit /\ RateLimit \in Nat
  BY <1>1, LenProperties, LimiterBounds DEF LimiterInv
<1>6. Len(passed[c]) <= RateLimit
  BY <1>3, <1>4, <1>5
<1>7. ASSUME promised[c] # L!NoPromise, now >= promised[c]
      PROVE  Len(L!Fresh(hits[c])) < RateLimit
  <2>1. Len(hits[c]) > 0 /\ hits[c][1] + Window <= promised[c]
    BY <1>7 DEF LimiterInv
  <2>2. hits[c][1] \in Int
    BY <1>1, <1>5, <2>1, TimesOf
  <2>3. hits[c][1] < Starts
    BY <1>1, <1>7, <2>1, <2>2, LimiterBounds DEF Starts
  <2>4. n # 0
    BY <1>1, <1>2, <2>1, <2>2, <2>3 DEF Expire
  <2> QED BY <1>4, <1>5, <2>4
<1> QED BY <1>6, <1>7

LEMMA TickKeeps == ASSUME LimiterInv, L!Tick PROVE LimiterInv'
<1>1. now' = now + 1 /\ now < MaxTime /\ UNCHANGED <<hits, order, promised>>
  BY DEF L!Tick
<1>2. now' \in L!Times
  BY <1>1, LimiterTyped, LimiterBounds DEF L!Times
<1>3. ASSUME NEW c \in Clients
      PROVE  passed'[c] = L!Fresh(hits[c])' /\ passed'[c] \in Seq(L!Times)
  <2>1. hits[c] \in Seq(L!Times) /\ L!Times \subseteq Int /\ Starts \in Int /\ Starts' = Starts + 1
    BY <1>1, LimiterTyped, LimiterBounds DEF Starts
  <2>2. L!From(L!From(hits[c], Starts), Starts') = L!From(hits[c], Starts')
    <3>1. Starts <= Starts + 1 /\ Starts + 1 \in Int
      BY <2>1
    <3> QED BY <2>1, <3>1, FromTwice
  <2>3. passed'[c] = L!From(passed[c], now' - Window + 1)
    BY DEF L!Tick
  <2>4. now' - Window + 1 = Starts'
    BY DEF Starts
  <2>5. passed[c] = L!From(hits[c], Starts)
    BY DEF LimiterInv, L!Fresh, Starts
  <2>6. L!Fresh(hits[c])' = L!From(hits[c], Starts')
    BY <1>1, <2>4 DEF L!Fresh
  <2>7. L!From(hits[c], Starts') \in Seq(L!Times)
    <3>1. Starts' \in Int
      BY <2>1
    <3> QED BY <2>1, <3>1, FromIs
  <2> QED BY <2>2, <2>3, <2>4, <2>5, <2>6, <2>7
<1>4. passed' \in [Clients -> Seq(L!Times)]
  <2>1. passed' = [c \in Clients |-> passed'[c]]
    BY DEF L!Tick
  <2> QED BY <1>3, <2>1
<1>5. L!TypeOK'
  BY <1>1, <1>2, <1>4 DEF LimiterInv, L!TypeOK, L!IsInjective
<1> QED BY <1>1, <1>3, <1>5 DEF LimiterInv

LEMMA PassKeeps == ASSUME LimiterInv, NEW c \in Clients, L!Pass(c) PROVE LimiterInv'
<1> DEFINE gone == L!Forgotten(c)
<1>1. /\ now' = now /\ Len(L!Fresh(hits[c])) < RateLimit
      /\ hits' = [d \in Clients |-> IF d \in gone THEN <<>>
                                    ELSE IF d = c THEN Append(L!Fresh(hits[c]), now) ELSE hits[d]]
      /\ order' = IF gone = {} THEN L!Seen(c) ELSE Tail(L!Seen(c))
      /\ passed' = [d \in Clients |-> IF d \in gone THEN <<>>
                                      ELSE IF d = c THEN Append(passed[c], now) ELSE passed[d]]
      /\ promised' = [d \in Clients |->
           IF d \in gone \cup {c} THEN L!NoPromise ELSE promised[d]]
  BY DEF L!Pass
<1>2. gone = IF Len(L!Seen(c)) > MaxClients THEN {Head(L!Seen(c))} ELSE {}
  BY DEF L!Forgotten
<1> HIDE DEF gone
<1>3. /\ now \in L!Times /\ L!Times \subseteq Int /\ now \in Int /\ Starts \in Int /\ Starts <= now
      /\ hits \in [Clients -> Seq(L!Times)] /\ passed \in [Clients -> Seq(L!Times)]
      /\ order \in Seq(Clients) /\ Once(order) /\ Len(order) <= MaxClients
      /\ promised \in [Clients -> Int]
  BY LimiterTyped, LimiterBounds DEF Starts
<1>4. /\ L!Seen(c) \in Seq(Clients) /\ Once(L!Seen(c)) /\ In(L!Seen(c)) = In(order) \cup {c}
      /\ Len(L!Seen(c)) = IF c \in In(order) THEN Len(order) ELSE Len(order) + 1
      /\ Len(order) \in Nat
  BY <1>3, SeenIs, LenProperties
<1>5. /\ order' \in Seq(Clients) /\ Once(order') /\ Len(order') <= MaxClients
      /\ In(order) \cup {c} \subseteq In(order') \cup gone
  <2>1. CASE Len(L!Seen(c)) > MaxClients
    <3>1. L!Seen(c) # <<>>
      BY <1>4, EmptySeq, LimiterBounds, <2>1
    <3>2. gone = {Head(L!Seen(c))} /\ order' = Tail(L!Seen(c))
      BY <1>1, <1>2, <2>1
    <3>3. /\ Tail(L!Seen(c)) \in Seq(Clients) /\ Once(Tail(L!Seen(c)))
          /\ Len(Tail(L!Seen(c))) = Len(L!Seen(c)) - 1
          /\ In(L!Seen(c)) \ {Head(L!Seen(c))} \subseteq In(Tail(L!Seen(c)))
      BY <1>4, <3>1, TailDrops
    <3>4. Len(L!Seen(c)) - 1 <= MaxClients
      BY <1>3, <1>4, LimiterBounds
    <3> QED BY <1>4, <3>2, <3>3, <3>4
  <2>2. CASE ~(Len(L!Seen(c)) > MaxClients)
    <3>1. gone = {} /\ order' = L!Seen(c)
      BY <1>1, <1>2, <2>2
    <3>2. Len(L!Seen(c)) <= MaxClients
      BY <1>4, <2>2, LimiterBounds
    <3> QED BY <1>4, <3>1, <3>2
  <2> QED BY <2>1, <2>2
<1> DEFINE window == Append(L!Fresh(hits[c]), now)
<1>6. /\ window \in Seq(L!Times) /\ Len(window) <= RateLimit
      /\ L!From(window, Starts) = window
  <2>1. L!Fresh(hits[c]) = L!From(hits[c], Starts)
    BY DEF L!Fresh, Starts
  <2>2. L!From(hits[c], Starts) \in Seq(L!Times) /\ \E n \in Nat : Expire(hits[c], Starts, n)
    BY <1>3, FromIs
  <2>3. PICK n \in Nat : Expire(hits[c], Starts, n)
    BY <2>2
  <2> DEFINE fresh == L!From(hits[c], Starts)
  <2>4. /\ n \in 0 .. Len(hits[c]) /\ Len(fresh) = Len(hits[c]) - n
        /\ n < Len(hits[c]) => hits[c][n + 1] >= Starts
        /\ \A i \in 1 .. Len(hits[c]) - n : fresh[i] = hits[c][i + n]
    BY <2>3 DEF Expire
  <2>5. fresh \in Seq(L!Times) /\ Len(fresh) < RateLimit /\ window = Append(fresh, now)
    BY <1>1, <2>1, <2>2
  <2> HIDE DEF fresh, window
  <2>6. /\ window \in Seq(L!Times) /\ Len(window) = Len(fresh) + 1 /\ window[Len(fresh) + 1] = now
        /\ \A i \in 1 .. Len(fresh) : window[i] = fresh[i]
    BY <1>3, <2>5, AppendProperties
  <2>7. Len(fresh) \in Nat /\ Len(hits[c]) \in Nat
    BY <1>3, <2>5, LenProperties
  <2>8. window[1] >= Starts
    <3>1. CASE Len(fresh) = 0
      BY <1>3, <2>6, <3>1
    <3>2. CASE Len(fresh) # 0
      <4>1. 1 \in 1 .. Len(fresh) /\ 1 \in 1 .. Len(hits[c]) - n /\ 1 + n = n + 1 /\ n < Len(hits[c])
        BY <2>4, <2>7, <3>2
      <4>2. window[1] = hits[c][n + 1]
        BY <2>4, <2>6, <4>1
      <4> QED BY <2>4, <4>1, <4>2
    <3> QED BY <3>1, <3>2
  <2>9. L!From(window, Starts) = window
    BY <1>3, <2>6, <2>8, AllStay
  <2>10. Len(window) <= RateLimit
    BY <2>5, <2>6, <2>7, LimiterBounds
  <2> QED BY <2>6, <2>9, <2>10
<1>7. <<>> \in Seq(L!Times) /\ Len(<<>>) = 0 /\ L!From(<<>>, Starts) = <<>>
  <2>1. <<>> \in Seq(L!Times) /\ Len(<<>>) = 0
    BY EmptySeq
  <2> QED BY <1>3, <2>1, EmptyStays
<1>8. passed[c] = L!Fresh(hits[c]) /\ \A d \in Clients : L!Fresh(hits[d])' = L!From(hits'[d], Starts)
  BY <1>1 DEF LimiterInv, L!Fresh, Starts
<1> HIDE DEF window
<1>9. ASSUME NEW d \in Clients
      PROVE  /\ hits'[d] \in Seq(L!Times) /\ passed'[d] \in Seq(L!Times) /\ promised'[d] \in Int
             /\ Len(hits'[d]) <= RateLimit
             /\ passed'[d] = L!Fresh(hits[d])'
             /\ hits'[d] # <<>> => d \in In(order')
             /\ promised'[d] # L!NoPromise =>
                  Len(hits'[d]) > 0 /\ hits'[d][1] + Window <= promised'[d]
  <2>1. CASE d \in gone
    <3>1. hits'[d] = <<>> /\ passed'[d] = <<>> /\ promised'[d] = L!NoPromise
      BY <1>1, <2>1
    <3>2. Len(hits'[d]) <= RateLimit /\ L!NoPromise \in Int
      BY <1>7, <3>1, LimiterBounds DEF L!NoPromise
    <3> QED BY <1>7, <1>8, <3>1, <3>2
  <2>2. CASE d = c /\ d \notin gone
    <3>1. hits'[d] = window /\ passed'[d] = window /\ promised'[d] = L!NoPromise
      BY <1>1, <1>8, <2>2 DEF window
    <3>2. L!NoPromise \in Int
      BY DEF L!NoPromise
    <3> QED BY <1>5, <1>6, <1>8, <2>2, <3>1, <3>2
  <2>3. CASE d # c /\ d \notin gone
    <3>1. hits'[d] = hits[d] /\ passed'[d] = passed[d] /\ promised'[d] = promised[d]
      BY <1>1, <2>3
    <3>2. passed[d] = L!Fresh(hits[d]) /\ L!Fresh(hits[d]) = L!From(hits[d], Starts)
      BY DEF LimiterInv, L!Fresh, Starts
    <3>3. /\ hits[d] # <<>> => d \in In(order)
          /\ Len(hits[d]) <= RateLimit
          /\ promised[d] # L!NoPromise =>
                Len(hits[d]) > 0 /\ hits[d][1] + Window <= promised[d]
      BY DEF LimiterInv
    <3> QED BY <1>3, <1>5, <1>8, <2>3, <3>1, <3>2, <3>3
  <2> QED BY <2>1, <2>2, <2>3
<1>10. L!TypeOK'
  <2>1. /\ hits' \in [Clients -> Seq(L!Times)] /\ passed' \in [Clients -> Seq(L!Times)]
        /\ promised' \in [Clients -> Int]
    <3>1. /\ hits' = [d \in Clients |-> hits'[d]] /\ passed' = [d \in Clients |-> passed'[d]]
          /\ promised' = [d \in Clients |-> promised'[d]]
      BY <1>1
    <3> QED BY <1>9, <3>1
  <2> QED BY <1>1, <1>3, <1>5, <2>1 DEF L!TypeOK, L!IsInjective, Once
<1> QED BY <1>9, <1>10 DEF LimiterInv

LEMMA RefuseKeeps == ASSUME LimiterInv, NEW c \in Clients, L!Refuse(c) PROVE LimiterInv'
<1> DEFINE fresh == L!Fresh(hits[c])
           again == now + Second * L!RetryAfter(fresh)
<1>1. /\ UNCHANGED <<now, passed>> /\ Len(fresh) >= RateLimit
      /\ hits' = [hits EXCEPT ![c] = fresh] /\ order' = L!Seen(c)
      /\ promised' = [promised EXCEPT ![c] = again]
  BY DEF L!Refuse
<1>2. /\ now \in L!Times /\ L!Times \subseteq Int /\ now \in Int /\ Starts \in Int
      /\ hits \in [Clients -> Seq(L!Times)] /\ passed \in [Clients -> Seq(L!Times)]
      /\ order \in Seq(Clients) /\ Once(order) /\ Len(order) <= MaxClients
      /\ promised \in [Clients -> Int]
  BY LimiterTyped
<1>3. fresh = L!From(hits[c], Starts)
  BY DEF L!Fresh, Starts
<1>4. fresh \in Seq(L!Times) /\ \E n \in Nat : Expire(hits[c], Starts, n)
  <2>1. hits[c] \in Seq(L!Times)
    BY <1>2
  <2> QED BY <1>2, <1>3, <2>1, TimesOf
<1>5. PICK n \in Nat : Expire(hits[c], Starts, n)
  BY <1>4
<1>6. Len(fresh) \in Nat /\ Len(hits[c]) \in Nat /\ Len(hits[c]) <= RateLimit
  BY <1>2, <1>4, LenProperties DEF LimiterInv
<1>7. Len(fresh) <= RateLimit /\ Len(fresh) > 0 /\ Len(hits[c]) > 0
  BY <1>1, <1>3, <1>5, <1>6, LimiterBounds DEF Expire
<1>8. fresh[1] \in Int
  <2> HIDE DEF fresh
  <2>1. fresh \in Seq(L!Times)
    BY <1>4
  <2>2. \A i \in 1 .. Len(fresh) : fresh[i] \in Int
    BY <2>1, TimesOf
  <2>3. 1 \in 1 .. Len(fresh)
    BY <1>6, <1>7
  <2> QED BY <2>2, <2>3
<1>9. again \in Int /\ fresh[1] + Window <= again
  <2> DEFINE x == fresh[1] + Window - now
  <2>1. x \in Int /\ x + Second - 1 = fresh[1] + Window - now + Second - 1
    BY <1>2, <1>8, LimiterBounds
  <2>2. Head(fresh) = fresh[1]
    OBVIOUS
  <2>3. again = now + Second * L!Max({1, (x + Second - 1) \div Second})
    BY <2>1, <2>2 DEF L!RetryAfter
  <2> DEFINE wait == Second * L!Max({1, (x + Second - 1) \div Second})
  <2> HIDE DEF fresh
  <2>4. wait \in Int /\ wait >= x
    <3> HIDE DEF x
    <3> QED BY <2>1, RoundedUp
  <2>5. again = now + wait
    BY <2>3
  <2> HIDE DEF wait, again
  <2> QED BY <1>2, <1>8, <2>4, <2>5, LimiterBounds
<1> HIDE DEF again
<1>10. L!From(fresh, Starts) = fresh
  <2>1. L!From(L!From(hits[c], Starts), Starts) = L!From(hits[c], Starts)
    BY <1>2, TimesOf
  <2> QED BY <1>3, <2>1
<1>11. /\ order' \in Seq(Clients) /\ Once(order') /\ Len(order') <= MaxClients
       /\ In(order') = In(order) \cup {c}
  <2>1. hits[c] # <<>>
    BY <1>7, EmptySeq
  <2>2. c \in In(order)
    BY <2>1 DEF LimiterInv
  <2> QED BY <1>1, <1>2, <2>2, SeenIs
<1>12. passed[c] = fresh /\ \A d \in Clients : L!Fresh(hits[d])' = L!From(hits'[d], Starts)
  BY <1>1 DEF LimiterInv, L!Fresh, Starts
<1> HIDE DEF fresh
<1>13. ASSUME NEW d \in Clients
       PROVE  /\ hits'[d] \in Seq(L!Times) /\ promised'[d] \in Int
              /\ Len(hits'[d]) <= RateLimit
              /\ passed'[d] = L!Fresh(hits[d])'
              /\ hits'[d] # <<>> => d \in In(order')
              /\ promised'[d] # L!NoPromise =>
                   Len(hits'[d]) > 0 /\ hits'[d][1] + Window <= promised'[d]
  <2>1. CASE d = c
    <3>1. hits'[d] = fresh /\ promised'[d] = again /\ passed'[d] = fresh
      BY <1>1, <1>2, <1>12, <2>1
    <3> QED BY <1>4, <1>7, <1>9, <1>10, <1>11, <1>12, <2>1, <3>1
  <2>2. CASE d # c
    <3>1. hits'[d] = hits[d] /\ passed'[d] = passed[d] /\ promised'[d] = promised[d]
      BY <1>1, <1>2, <2>2
    <3>2. passed[d] = L!Fresh(hits[d]) /\ L!Fresh(hits[d]) = L!From(hits[d], Starts)
      BY DEF LimiterInv, L!Fresh, Starts
    <3>3. /\ hits[d] # <<>> => d \in In(order)
          /\ Len(hits[d]) <= RateLimit
          /\ promised[d] # L!NoPromise =>
                Len(hits[d]) > 0 /\ hits[d][1] + Window <= promised[d]
      BY DEF LimiterInv
    <3> QED BY <1>2, <1>11, <1>12, <3>1, <3>2, <3>3
  <2> QED BY <2>1, <2>2
<1>14. L!TypeOK'
  <2>1. hits' \in [Clients -> Seq(L!Times)] /\ promised' \in [Clients -> Int]
    BY <1>1, <1>2, <1>4, <1>9
  <2> QED BY <1>1, <1>2, <1>11, <2>1 DEF L!TypeOK, L!IsInjective, Once
<1> QED BY <1>13, <1>14 DEF LimiterInv

LEMMA LimiterSafety == L!Spec => []LimiterInv
<1>1. L!Init => LimiterInv
  <2> SUFFICES ASSUME L!Init PROVE LimiterInv
    OBVIOUS
  <2>1. /\ now = 0 /\ hits = [c \in Clients |-> <<>>] /\ order = <<>>
        /\ passed = [c \in Clients |-> <<>>] /\ promised = [c \in Clients |-> L!NoPromise]
    BY DEF L!Init
  <2>2. now \in L!Times /\ Starts \in Int /\ L!Times \subseteq Int
    BY <2>1, LimiterBounds DEF L!Times, Starts
  <2>3. <<>> \in Seq(L!Times) /\ <<>> \in Seq(Clients) /\ Len(<<>>) = 0
    BY EmptySeq
  <2>4. L!From(<<>>, Starts) = <<>>
    BY <2>2, EmptyStays
  <2>5. L!NoPromise \in Int
    BY DEF L!NoPromise
  <2>6. Len(order) <= MaxClients /\ L!IsInjective(order)
    <3>1. DOMAIN order = {}
      BY <2>1
    <3>2. 0 <= MaxClients
      BY LimiterBounds
    <3> QED BY <2>1, <2>3, <3>1, <3>2 DEF L!IsInjective
  <2>7. L!TypeOK
    BY <2>1, <2>2, <2>3, <2>5, <2>6 DEF L!TypeOK
  <2>8. ASSUME NEW c \in Clients
        PROVE  /\ Len(hits[c]) <= RateLimit /\ passed[c] = L!Fresh(hits[c])
               /\ hits[c] = <<>> /\ promised[c] = L!NoPromise
    <3>1. hits[c] = <<>> /\ passed[c] = <<>> /\ promised[c] = L!NoPromise
      BY <2>1
    <3>2. L!Fresh(hits[c]) = L!From(hits[c], Starts)
      BY DEF L!Fresh, Starts
    <3>3. 0 <= RateLimit
      BY LimiterBounds
    <3> QED BY <2>3, <2>4, <3>1, <3>2, <3>3
  <2> QED BY <2>7, <2>8 DEF LimiterInv
<1>2. LimiterInv /\ [L!Next]_(L!vars) => LimiterInv'
  <2>1. LimiterInv /\ UNCHANGED L!vars => LimiterInv'
    BY DEF L!vars, LimiterInv, L!TypeOK, L!Fresh
  <2> QED BY <2>1, TickKeeps, PassKeeps, RefuseKeeps DEF L!Next
<1> QED BY <1>1, <1>2, PTL DEF L!Spec

-----------------------------------------------------------------------------
(* I, the indexes and their copies                                         *)

LEMMA IndexBounds ==
  /\ Pods \subseteq [Lookers -> Workers] /\ I!NoThread \notin Lookers
  /\ MaxVersion \in Nat \ {0} /\ MaxCopies \in Nat /\ MaxFailures \in [Pods -> Nat]
BY IndexAssumption DEF I!IndexAssumption

Copy == [of : I!Versions, holds : I!Versions, nr : 1 .. MaxCopies]

(* Copies in the order they were made, of one version each.                *)
Ordered(s) ==
  /\ \A i, j \in DOMAIN s : i < j => s[i].nr < s[j].nr
  /\ \A i, j \in DOMAIN s : s[i].of = s[j].of => i = j

(* The two newest at most.                                                 *)
Store ==
  /\ copiesMade \in 0 .. MaxCopies
  /\ copies \in Seq(Copy) /\ Ordered(copies) /\ Len(copies) <= 2
  /\ \A i \in DOMAIN copies : copies[i].nr <= copiesMade

LEMMA CopyNumbers ==
  ASSUME NEW s \in Seq(Copy)
  PROVE  /\ Len(s) \in Nat /\ DOMAIN s = 1 .. Len(s)
         /\ \A i \in DOMAIN s : s[i] \in Copy /\ s[i].nr \in Nat \ {0} /\ s[i].nr <= MaxCopies
<1>1. Len(s) \in Nat /\ DOMAIN s = 1 .. Len(s)
  BY LenProperties
<1>2. ASSUME NEW i \in DOMAIN s
      PROVE  s[i] \in Copy /\ s[i].nr \in Nat \ {0} /\ s[i].nr <= MaxCopies
  <2>1. s[i] \in Copy
    BY <1>1, ElementOfSeq
  <2>2. s[i].nr \in 1 .. MaxCopies
    BY <2>1 DEF Copy
  <2> QED BY <2>1, <2>2, IndexBounds
<1> QED BY <1>1, <1>2

(* The copy of a version is the one that is named by it.                   *)
LEMMA CopyOfIs ==
  ASSUME copies \in Seq(Copy), Ordered(copies), NEW i \in DOMAIN copies
  PROVE  /\ copies[i].of \in I!Copied
         /\ I!CopyOf(copies[i].of) = copies[i]
<1>1. copies[i] \in {copies[j] : j \in DOMAIN copies}
  OBVIOUS
<1>2. \A c \in {copies[j] : j \in DOMAIN copies} : c.of = copies[i].of => c = copies[i]
  BY DEF Ordered
<1> QED BY <1>1, <1>2 DEF I!CopyOf, I!Copied

LEMMA CopiedHas ==
  ASSUME copies \in Seq(Copy), Ordered(copies), NEW v \in I!Copied
  PROVE  \E i \in DOMAIN copies : copies[i].of = v /\ I!CopyOf(v) = copies[i]
<1>1. PICK i \in DOMAIN copies : copies[i].of = v
  BY DEF I!Copied
<1> QED BY <1>1, CopyOfIs

(* What stays beside a new copy of a version.                              *)
LEMMA OthersAre ==
  ASSUME Store, NEW v
  PROVE  /\ I!Others(v) \in Seq(Copy) /\ Ordered(I!Others(v)) /\ Len(I!Others(v)) <= 2
         /\ In(I!Others(v)) = {c \in In(copies) : c.of # v}
<1>1. /\ copies \in Seq(Copy) /\ Ordered(copies) /\ Len(copies) <= 2
      /\ Len(copies) \in Nat /\ DOMAIN copies = 1 .. Len(copies)
  BY CopyNumbers DEF Store
<1>2. CASE v \in I!Copied
  <2> DEFINE k == CHOOSE i \in DOMAIN copies : copies[i].of = v
             s == Dropped(copies, k)
  <2>1. k \in 1 .. Len(copies) /\ copies[k].of = v
    BY <1>1, <1>2 DEF I!Copied
  <2>2. I!Others(v) = s
    BY <1>2 DEF I!Others, I!RemoveAt, Dropped
  <2> HIDE DEF k
  <2>3. /\ s \in Seq(Copy) /\ Len(s) = Len(copies) - 1
        /\ \A i \in 1 .. Len(copies) - 1 : s[i] = IF i < k THEN copies[i] ELSE copies[i + 1]
    BY <1>1, <2>1, DroppedIs
  <2>4. Once(copies)
    BY <1>1 DEF Ordered, Once
  <2>5. In(s) = In(copies) \ {copies[k]}
    BY <1>1, <2>1, <2>4, DroppedOnce
  <2>6. DOMAIN s = 1 .. Len(copies) - 1
    BY <2>3, LenProperties
  <2> HIDE DEF s
  <2>7. Ordered(s)
    <3> DEFINE ii(i) == IF i < k THEN i ELSE i + 1
    <3>1. \A i \in DOMAIN s : ii(i) \in DOMAIN copies /\ s[i] = copies[ii(i)]
      BY <1>1, <2>1, <2>3, <2>6
    <3>2. \A i, j \in DOMAIN s : /\ i < j => ii(i) < ii(j)
                                 /\ ii(i) = ii(j) => i = j
      BY <1>1, <2>1, <2>6
    <3> HIDE DEF ii
    <3> QED BY <1>1, <3>1, <3>2 DEF Ordered
  <2>8. {c \in In(copies) : c.of # v} = In(copies) \ {copies[k]}
    BY <1>1, <2>1 DEF In, Ordered
  <2> QED BY <1>1, <2>2, <2>3, <2>5, <2>7, <2>8
<1>3. CASE v \notin I!Copied
  <2>1. I!Others(v) = copies
    BY <1>3 DEF I!Others
  <2>2. {c \in In(copies) : c.of # v} = In(copies)
    BY <1>3 DEF In, I!Copied
  <2> QED BY <1>1, <2>1, <2>2
<1> QED BY <1>2, <1>3

(* A copy is made: it is there, the others are those of before, and one    *)
(* that goes has two newer ones.                                           *)
LEMMA CopyMade ==
  ASSUME Store, NEW v \in I!Versions, copiesMade < MaxCopies, copiesMade' = copiesMade + 1,
         copies' = I!Pruned(Append(I!Others(v), [of |-> v, holds |-> v, nr |-> copiesMade + 1]))
  PROVE  /\ Store'
         /\ v \in I!Copied' /\ I!CopyOf(v)'.nr = copiesMade'
         /\ \A p \in I!Copied' : p # v => p \in I!Copied /\ I!CopyOf(p)' = I!CopyOf(p)
         /\ \A p \in I!Copied : p \notin I!Copied' => copiesMade' >= I!CopyOf(p).nr + 2
<1> DEFINE new == [of |-> v, holds |-> v, nr |-> copiesMade + 1]
           o == I!Others(v)
           kept == Append(o, new)
<1>1. /\ copiesMade \in Nat /\ copiesMade + 1 \in 1 .. MaxCopies /\ copiesMade' \in 0 .. MaxCopies
  BY IndexBounds DEF Store
<1>2. new \in Copy /\ new.of = v /\ new.nr = copiesMade + 1
  BY <1>1 DEF Copy
<1>3. /\ o \in Seq(Copy) /\ Ordered(o) /\ Len(o) <= 2 /\ In(o) = {c \in In(copies) : c.of # v}
  BY OthersAre
<1>4. \A i \in DOMAIN copies : copies[i] \in In(copies) /\ copies[i].nr <= copiesMade
  BY DEF In, Store
<1> HIDE DEF new, o
<1>5. Len(o) \in Nat /\ DOMAIN o = 1 .. Len(o)
  BY <1>3, CopyNumbers
<1>6. \A i \in DOMAIN o : o[i].of # v /\ o[i].nr <= copiesMade /\ o[i].nr \in Nat
  <2>1. \A i \in DOMAIN o : o[i] \in In(o) /\ o[i].nr \in Nat
    BY <1>3, CopyNumbers DEF In
  <2>2. \A c \in In(copies) : c.nr <= copiesMade
    BY <1>4 DEF In
  <2> QED BY <1>3, <2>1, <2>2
<1>7. /\ kept \in Seq(Copy) /\ Len(kept) = Len(o) + 1
      /\ \A i \in 1 .. Len(o) : kept[i] = o[i]
      /\ kept[Len(o) + 1] = new
  BY <1>2, <1>3, AppendProperties
<1> DEFINE first == I!Max({1, Len(kept) - 1})
<1>8. copies' = SubSeq(kept, first, Len(kept))
  BY DEF I!Pruned, new, o
<1> HIDE DEF kept
<1>9. first = IF Len(o) = 2 THEN 2 ELSE 1
  <2>1. CASE Len(o) = 2
    <3>1. {1, Len(kept) - 1} = {1, 2}
      BY <1>7, <2>1
    <3>2. I!Max({1, 2}) = 2
      BY DEF I!Max
    <3> QED BY <2>1, <3>1, <3>2
  <2>2. CASE Len(o) # 2
    <3>1. Len(kept) - 1 = 0 \/ Len(kept) - 1 = 1
      BY <1>3, <1>5, <1>7, <2>2
    <3>2. I!Max({1, 0}) = 1 /\ I!Max({1, 1}) = 1
      BY DEF I!Max
    <3> QED BY <2>2, <3>1, <3>2
  <2> QED BY <2>1, <2>2
<1> HIDE DEF first
<1>10. /\ copies' \in Seq(Copy) /\ Len(copies') = Len(o) + 2 - first
       /\ \A i \in 1 .. Len(o) + 2 - first : copies'[i] = kept[first + i - 1]
  <2>1. first \in Int /\ first >= 1 /\ first <= Len(kept) /\ Len(kept) \in Nat
    BY <1>5, <1>7, <1>9
  <2>2. \A i \in first .. Len(kept) : kept[i] \in Copy
    BY <1>7, <2>1, CopyNumbers
  <2>3. /\ SubSeq(kept, first, Len(kept)) \in Seq(Copy)
        /\ Len(SubSeq(kept, first, Len(kept)))
             = IF first <= Len(kept) THEN Len(kept) - first + 1 ELSE 0
        /\ \A i \in 1 .. Len(kept) - first + 1 :
             SubSeq(kept, first, Len(kept))[i] = kept[first + i - 1]
    BY <2>1, <2>2, SubSeqProperties
  <2>4. Len(kept) - first + 1 = Len(o) + 2 - first
    BY <1>5, <1>7, <2>1
  <2> QED BY <1>8, <2>1, <2>3, <2>4
<1>11. DOMAIN copies' = 1 .. Len(o) + 2 - first
  BY <1>10, CopyNumbers
<1>12. Ordered(kept) /\ DOMAIN kept = 1 .. Len(o) + 1
  <2>1. DOMAIN kept = 1 .. Len(o) + 1
    BY <1>7, CopyNumbers
  <2>2. \A i \in DOMAIN kept : i \in DOMAIN o \/ i = Len(o) + 1
    BY <1>5, <2>1
  <2>3. \A i \in DOMAIN o : kept[i] = o[i] /\ i < Len(o) + 1 /\ ~(Len(o) + 1 < i)
    BY <1>5, <1>7
  <2>4. \A i \in DOMAIN o : kept[i].nr < kept[Len(o) + 1].nr /\ kept[i].of # kept[Len(o) + 1].of
    BY <1>1, <1>2, <1>6, <1>7, <2>3
  <2>5. \A i, j \in DOMAIN kept : i < j => kept[i].nr < kept[j].nr
    BY <1>3, <1>5, <2>2, <2>3, <2>4 DEF Ordered
  <2>6. \A i, j \in DOMAIN kept : kept[i].of = kept[j].of => i = j
    BY <1>3, <1>5, <2>2, <2>3, <2>4 DEF Ordered
  <2> QED BY <2>1, <2>5, <2>6 DEF Ordered
<1>placed. first \in Int /\ 1 <= first /\ Len(o) \in Int
  BY <1>5, <1>9
<1>from. \A i \in DOMAIN copies' : first + i - 1 \in DOMAIN kept /\ copies'[i] = kept[first + i - 1]
  <2>1. \A i \in 1 .. Len(o) + 2 - first : first + i - 1 \in 1 .. Len(o) + 1
    BY <1>placed
  <2> QED BY <1>10, <1>11, <1>12, <2>1
<1>along. \A i, j \in DOMAIN copies' : /\ i < j => first + i - 1 < first + j - 1
                                       /\ first + i - 1 = first + j - 1 => i = j
  <2>1. \A i, j \in 1 .. Len(o) + 2 - first : /\ i < j => first + i - 1 < first + j - 1
                                              /\ first + i - 1 = first + j - 1 => i = j
    BY <1>placed
  <2> QED BY <1>11, <2>1
<1>stays. ASSUME NEW m \in DOMAIN kept, m >= first
          PROVE  \E i \in DOMAIN copies' : copies'[i] = kept[m]
  <2>1. m - first + 1 \in 1 .. Len(o) + 2 - first /\ first + (m - first + 1) - 1 = m
    BY <1>12, <1>placed, <1>stays
  <2>2. m - first + 1 \in DOMAIN copies'
    BY <1>11, <2>1
  <2>3. copies'[m - first + 1] = kept[first + (m - first + 1) - 1]
    BY <1>from, <2>2
  <2> QED BY <2>1, <2>2, <2>3
<1>14. Ordered(copies')
  BY <1>12, <1>from, <1>along DEF Ordered
<1>15. \A i \in DOMAIN kept : kept[i].nr <= copiesMade + 1
  BY <1>1, <1>2, <1>5, <1>6, <1>7, <1>12
<1>16. Store'
  <2>1. Len(copies') <= 2
    BY <1>3, <1>5, <1>9, <1>10
  <2>2. \A i \in DOMAIN copies' : copies'[i].nr <= copiesMade'
    BY <1>from, <1>15
  <2> QED BY <1>1, <1>10, <1>14, <2>1, <2>2 DEF Store, Ordered
<1>17. /\ \A i \in DOMAIN copies' : copies'[i].of \in I!Copied' /\ I!CopyOf(copies[i].of)' = copies'[i]
       /\ \A p \in I!Copied' : \E i \in DOMAIN copies' : copies'[i].of = p /\ I!CopyOf(p)' = copies'[i]
  <2>1. ASSUME NEW i \in DOMAIN copies'
        PROVE  copies'[i].of \in I!Copied' /\ I!CopyOf(copies[i].of)' = copies'[i]
    <3>1. copies'[i] \in {copies'[j] : j \in DOMAIN copies'}
      OBVIOUS
    <3>2. \A c \in {copies'[j] : j \in DOMAIN copies'} : c.of = copies'[i].of => c = copies'[i]
      BY <1>14 DEF Ordered
    <3> QED BY <3>1, <3>2 DEF I!CopyOf, I!Copied
  <2>2. \A p \in I!Copied' : \E i \in DOMAIN copies' : copies'[i].of = p
    BY DEF I!Copied
  <2> QED BY <2>1, <2>2
<1>18. v \in I!Copied' /\ I!CopyOf(v)'.nr = copiesMade'
  <2>1. Len(o) + 1 \in DOMAIN kept /\ Len(o) + 1 >= first
    BY <1>5, <1>9, <1>12
  <2>2. PICK i \in DOMAIN copies' : copies'[i] = kept[Len(o) + 1]
    BY <1>stays, <2>1
  <2> QED BY <1>1, <1>2, <1>7, <1>17, <2>2
<1>19. \A c \in In(o) : c \in In(copies) /\ c.of # v
  BY <1>3
<1>20. /\ \A c \in In(copies) : c.of \in I!Copied /\ I!CopyOf(c.of) = c
       /\ \A p \in I!Copied : \E c \in In(copies) : c.of = p /\ I!CopyOf(p) = c
  BY CopyOfIs, CopiedHas DEF In, Store
<1>21. ASSUME NEW p \in I!Copied', p # v
       PROVE  p \in I!Copied /\ I!CopyOf(p)' = I!CopyOf(p)
  <2>1. PICK i \in DOMAIN copies' : copies'[i].of = p /\ I!CopyOf(p)' = copies'[i]
    BY <1>17
  <2>2. first + i - 1 \in DOMAIN kept /\ copies'[i] = kept[first + i - 1]
    BY <1>from
  <2>3. first + i - 1 # Len(o) + 1
    BY <1>2, <1>7, <1>21, <2>1, <2>2
  <2>4. first + i - 1 \in DOMAIN o /\ kept[first + i - 1] = o[first + i - 1]
    BY <1>5, <1>7, <1>12, <2>2, <2>3
  <2>5. copies'[i] \in In(o)
    BY <2>2, <2>4 DEF In
  <2> QED BY <1>19, <1>20, <2>1, <2>5
<1>22. ASSUME NEW p \in I!Copied, p \notin I!Copied'
       PROVE  copiesMade' >= I!CopyOf(p).nr + 2
  <2>1. PICK c \in In(copies) : c.of = p /\ I!CopyOf(p) = c
    BY <1>20
  <2>2. p # v
    BY <1>18, <1>22
  <2>3. PICK m \in DOMAIN o : o[m] = c
    BY <1>3, <2>1, <2>2 DEF In
  <2>4. m \in DOMAIN kept /\ kept[m] = c
    BY <1>5, <1>7, <1>12, <2>3
  <2>5. ~(m >= first)
    BY <1>stays, <1>17, <1>22, <2>1, <2>4
  <2>6. Len(o) = 2 /\ m = 1
    BY <1>5, <1>9, <2>3, <2>5
  <2>7. o[1].nr < o[2].nr /\ o[2].nr <= copiesMade /\ o[1].nr \in Nat /\ o[2].nr \in Nat
    BY <1>3, <1>5, <1>6, <2>6 DEF Ordered
  <2> QED BY <1>1, <2>1, <2>3, <2>6, <2>7
<1> QED BY <1>16, <1>18, <1>21, <1>22

(* A thread that has been named a copy finds it, or a newer one of its     *)
(* version; when there is none two copies were made since.                 *)
Finds(t) ==
  /\ threadPath[t] \in I!Copied => I!CopyOf(threadPath[t]).nr >= named[t]
  /\ threadPath[t] \notin I!Copied => copiesMade >= named[t] + 2

(* What a thread knows on its way to the file it opens.                    *)
Knows(t) ==
  /\ named[t] <= copiesMade
  /\ threadAt[t] = "copying" => threadPath[t] # I!Volume
  /\ threadAt[t] \in {"named", "seen"} /\ threadPath[t] # I!Volume => Finds(t)
  /\ threadAt[t] = "seen" /\ threadSeen[t] = I!NoFile /\ threadPath[t] # I!Volume
       => copiesMade >= named[t] + 2
  /\ threadAt[t] = "seen" /\ threadSeen[t] # I!NoFile /\ threadPath[t] = I!Volume
       => volume # I!Missing

(* The copy a worker names is there, or two were made since.               *)
Names(w) == copyOf[w] # I!Missing /\ copyOf[w] \notin I!Copied => copiesMade >= 2

IndexInv ==
  /\ I!TypeOK /\ Store
  /\ \A t \in Lookers : Knows(t)
  /\ \A w \in Workers : Names(w)

(* What a path leads to.                                                   *)
LEMMA AtPaths ==
  ASSUME IndexInv, NEW p \in 0 .. MaxVersion
  PROVE  /\ p \in I!Copied => /\ p \in I!Versions /\ p # I!Volume
                              /\ I!CopyOf(p).nr \in 1 .. copiesMade
                              /\ I!CopyOf(p).nr \in 1 .. MaxCopies
                              /\ I!CopyOf(p).holds \in I!Versions
         /\ I!IdentityAt(p) \in I!Identities
         /\ I!ContentAt(p) \in 0 .. MaxVersion
<1>1. copies \in Seq(Copy) /\ Ordered(copies) /\ copiesMade \in Nat /\ volume \in 0 .. MaxVersion
  BY IndexBounds DEF IndexInv, Store, I!TypeOK
<1>2. ASSUME p \in I!Copied
      PROVE  /\ p \in I!Versions /\ p # I!Volume
             /\ I!CopyOf(p).nr \in 1 .. copiesMade /\ I!CopyOf(p).nr \in 1 .. MaxCopies
             /\ I!CopyOf(p).holds \in I!Versions
  <2>1. PICK i \in DOMAIN copies : copies[i].of = p /\ I!CopyOf(p) = copies[i]
    BY <1>1, <1>2, CopiedHas
  <2>2. copies[i] \in Copy /\ copies[i].nr <= copiesMade
    BY <1>1, CopyNumbers DEF IndexInv, Store
  <2>3. copies[i].of \in I!Versions /\ copies[i].holds \in I!Versions /\ copies[i].nr \in 1 .. MaxCopies
    BY <2>2 DEF Copy
  <2>4. p \in I!Versions /\ p # I!Volume
    BY <2>1, <2>3 DEF I!Versions, I!Volume
  <2>5. copies[i].nr \in 1 .. copiesMade
    BY <1>1, <2>2, <2>3, IndexBounds
  <2> QED BY <2>1, <2>3, <2>4, <2>5
<1>3. I!ContentAt(p) \in 0 .. MaxVersion
  BY <1>1, <1>2, IndexBounds DEF I!ContentAt, I!Versions, I!Missing
<1>4. I!IdentityAt(p) \in I!Identities
  <2>1. <<volume, 0>> \in I!Identities
    <3>1. 0 \in 0 .. MaxCopies
      BY IndexBounds
    <3>2. volume = 0 \/ volume \in I!Versions
      BY <1>1, IndexBounds DEF I!Versions
    <3> QED BY <3>1, <3>2 DEF I!Identities, I!NoFile, I!Missing
  <2>2. p \in I!Copied => <<p, I!CopyOf(p).nr>> \in I!Identities
    <3>1. p \in I!Copied => I!CopyOf(p).nr \in 0 .. MaxCopies
      BY <1>2, IndexBounds
    <3> QED BY <1>2, <3>1 DEF I!Identities
  <2>3. I!NoFile \in I!Identities
    BY DEF I!Identities
  <2> QED BY <2>1, <2>2, <2>3 DEF I!IdentityAt
<1> QED BY <1>2, <1>3, <1>4

(* Only a copy that is made changes the store.                             *)
LEMMA StoreChanges ==
  ASSUME [I!Next]_(I!vars)
  PROVE  \/ UNCHANGED <<copies, copiesMade>>
         \/ \E t \in Lookers : I!EndCopy(t)
BY DEF I!Next, I!vars, I!store, I!Swap, I!Drop, I!MinutePasses, I!CopyAgain, I!NameWithoutCopying,
       I!NameWhileCopied, I!NameAtOnce, I!NameUnseen, I!StartCopy, I!CopyFails, I!Stat,
       I!StatFails, I!Reopen

(* The copy a thread makes is one of a version there was.                  *)
LEMMA Copies ==
  ASSUME IndexInv, NEW t \in Lookers, I!EndCopy(t)
  PROVE  /\ threadPath[t] \in I!Versions /\ copiesMade < MaxCopies
         /\ copiesMade' = copiesMade + 1
         /\ copies' = I!Pruned(Append(I!Others(threadPath[t]),
                        [of |-> threadPath[t], holds |-> threadPath[t], nr |-> copiesMade + 1]))
<1>1. threadAt[t] = "copying" /\ threadPath[t] # I!Volume
  BY DEF IndexInv, Knows, I!EndCopy
<1>2. threadPath[t] \in 0 .. MaxVersion
  BY DEF IndexInv, I!TypeOK
<1>3. threadPath[t] \in I!Versions
  BY <1>1, <1>2, IndexBounds DEF I!Versions, I!Volume
<1> QED BY <1>3 DEF I!EndCopy

LEMMA StoreStep ==
  ASSUME IndexInv, [I!Next]_(I!vars)
  PROVE  Store' /\ copiesMade' >= copiesMade
<1>1. copiesMade \in Nat
  BY IndexBounds DEF IndexInv, Store
<1>2. CASE UNCHANGED <<copies, copiesMade>>
  BY <1>1, <1>2 DEF IndexInv, Store, Ordered
<1>3. ASSUME NEW t \in Lookers, I!EndCopy(t)
      PROVE  Store' /\ copiesMade' >= copiesMade
  <2>1. /\ threadPath[t] \in I!Versions /\ copiesMade < MaxCopies /\ copiesMade' = copiesMade + 1
        /\ copies' = I!Pruned(Append(I!Others(threadPath[t]),
                       [of |-> threadPath[t], holds |-> threadPath[t], nr |-> copiesMade + 1]))
    BY <1>3, Copies
  <2>2. Store
    BY DEF IndexInv
  <2>3. Store'
    BY <2>1, <2>2, CopyMade
  <2> QED BY <1>1, <2>1, <2>3
<1> QED BY <1>2, <1>3, StoreChanges

(* The steps a thread makes on its way.                                    *)
Steps(t) ==
  \/ I!NameWithoutCopying(t) \/ I!NameWhileCopied(t) \/ I!NameAtOnce(t) \/ I!NameUnseen(t)
  \/ I!StartCopy(t) \/ I!EndCopy(t) \/ I!CopyFails(t) \/ I!Stat(t) \/ I!StatFails(t)
  \/ I!Reopen(t)

LEMMA IndexSteps ==
  ASSUME [I!Next]_(I!vars)
  PROVE  \/ I!Swap
         \/ \E w \in Workers : I!Drop(w) \/ I!MinutePasses(w) \/ I!CopyAgain(w)
         \/ \E t \in Lookers : Steps(t)
         \/ UNCHANGED I!vars
BY DEF I!Next, Steps

LEMMA IndexTypeStep ==
  ASSUME IndexInv, [I!Next]_(I!vars)
  PROVE  I!TypeOK'
<1> USE DEF I!pod, I!store, I!connections, I!copiers, I!looks, I!vars
<1>1. /\ workerOf \in Pods /\ workerOf \in [Lookers -> Workers]
      /\ volume \in 0 .. MaxVersion /\ copying \in BOOLEAN
      /\ lookDue \in [Workers -> BOOLEAN]
      /\ reads \in [Workers -> 0 .. MaxVersion] /\ identity \in [Workers -> I!Identities]
      /\ copyOf \in [Workers -> 0 .. MaxVersion] /\ failed \in [Workers -> 0 .. MaxVersion]
      /\ copier \in [Workers -> Lookers \cup {I!NoThread}]
      /\ threadAt \in [Lookers -> {"idle", "copying", "named", "seen"}]
      /\ threadPath \in [Lookers -> 0 .. MaxVersion]
      /\ threadSeen \in [Lookers -> I!Identities] /\ named \in [Lookers -> 0 .. MaxCopies]
      /\ misses \in 0 .. MaxFailures[workerOf]
  BY IndexBounds DEF IndexInv, I!TypeOK
<1>2. 0 \in 0 .. MaxVersion /\ 0 \in 0 .. MaxCopies /\ I!NoFile \in I!Identities
  BY IndexBounds DEF I!Identities
<1>3. workerOf' = workerOf /\ copying' = copying
  BY IndexSteps DEF Steps, I!Swap, I!Drop, I!MinutePasses, I!CopyAgain, I!NameWithoutCopying,
     I!NameWhileCopied, I!NameAtOnce, I!NameUnseen, I!StartCopy, I!EndCopy, I!CopyFails, I!Stat,
     I!StatFails, I!Reopen
<1>4. volume' \in 0 .. MaxVersion
  <2>1. volume' = volume \/ (volume < MaxVersion /\ volume' = volume + 1)
    BY IndexSteps DEF Steps, I!Swap, I!Drop, I!MinutePasses, I!CopyAgain, I!NameWithoutCopying,
       I!NameWhileCopied, I!NameAtOnce, I!NameUnseen, I!StartCopy, I!EndCopy, I!CopyFails, I!Stat,
       I!StatFails, I!Reopen
  <2> QED BY <1>1, <2>1, IndexBounds
<1>5. lookDue' \in [Workers -> BOOLEAN]
  BY <1>1, IndexSteps DEF Steps, I!Swap, I!Drop, I!MinutePasses, I!CopyAgain, I!NameWithoutCopying,
     I!NameWhileCopied, I!NameAtOnce, I!NameUnseen, I!StartCopy, I!EndCopy, I!CopyFails, I!Stat,
     I!StatFails, I!Reopen, I!Looks
<1>6. misses' \in 0 .. MaxFailures[workerOf]
  <2>1. misses' = misses \/ (misses < MaxFailures[workerOf] /\ misses' = misses + 1)
    BY IndexSteps DEF Steps, I!Swap, I!Drop, I!MinutePasses, I!CopyAgain, I!NameWithoutCopying,
       I!NameWhileCopied, I!NameAtOnce, I!NameUnseen, I!StartCopy, I!EndCopy, I!CopyFails, I!Stat,
       I!StatFails, I!Reopen
  <2>2. MaxFailures[workerOf] \in Nat
    BY <1>1, IndexBounds
  <2> QED BY <1>1, <2>1, <2>2
<1>7. reads' \in [Workers -> 0 .. MaxVersion]
  <2>1. \/ reads' = reads
        \/ \E w \in Workers : reads' = [reads EXCEPT ![w] = I!Missing]
        \/ \E w \in Workers, t \in Lookers :
             reads' = [reads EXCEPT ![w] = I!ContentAt(threadPath[t])]
    BY <1>1, IndexSteps DEF Steps, I!Swap, I!Drop, I!MinutePasses, I!CopyAgain,
       I!NameWithoutCopying, I!NameWhileCopied, I!NameAtOnce, I!NameUnseen, I!StartCopy,
       I!EndCopy, I!CopyFails, I!Stat, I!StatFails, I!Reopen
  <2>2. \A t \in Lookers : I!ContentAt(threadPath[t]) \in 0 .. MaxVersion
    BY <1>1, AtPaths
  <2> QED BY <1>1, <1>2, <2>1, <2>2 DEF I!Missing
<1>8. identity' \in [Workers -> I!Identities]
  <2>1. \/ identity' = identity
        \/ \E w \in Workers, t \in Lookers : identity' = [identity EXCEPT ![w] = threadSeen[t]]
    BY <1>1, IndexSteps DEF Steps, I!Swap, I!Drop, I!MinutePasses, I!CopyAgain,
       I!NameWithoutCopying, I!NameWhileCopied, I!NameAtOnce, I!NameUnseen, I!StartCopy,
       I!EndCopy, I!CopyFails, I!Stat, I!StatFails, I!Reopen
  <2> QED BY <1>1, <2>1
<1>9. copyOf' \in [Workers -> 0 .. MaxVersion]
  <2>1. \/ copyOf' = copyOf
        \/ \E w \in Workers, t \in Lookers :
             \E v \in {I!Missing, volume, threadPath[t]} : copyOf' = [copyOf EXCEPT ![w] = v]
    BY <1>1, IndexSteps DEF Steps, I!Swap, I!Drop, I!MinutePasses, I!CopyAgain,
       I!NameWithoutCopying, I!NameWhileCopied, I!NameAtOnce, I!NameUnseen, I!StartCopy,
       I!EndCopy, I!CopyFails, I!Stat, I!StatFails, I!Reopen
  <2> QED BY <1>1, <1>2, <2>1 DEF I!Missing
<1>10. failed' \in [Workers -> 0 .. MaxVersion]
  <2>1. \/ failed' = failed
        \/ \E w \in Workers : failed' = [failed EXCEPT ![w] = I!Missing]
        \/ \E w \in Workers, t \in Lookers : failed' = [failed EXCEPT ![w] = threadPath[t]]
    BY <1>1, IndexSteps DEF Steps, I!Swap, I!Drop, I!MinutePasses, I!CopyAgain,
       I!NameWithoutCopying, I!NameWhileCopied, I!NameAtOnce, I!NameUnseen, I!StartCopy,
       I!EndCopy, I!CopyFails, I!Stat, I!StatFails, I!Reopen
  <2> QED BY <1>1, <1>2, <2>1 DEF I!Missing
<1>11. copier' \in [Workers -> Lookers \cup {I!NoThread}]
  <2>1. \/ copier' = copier
        \/ \E w \in Workers : copier' = [copier EXCEPT ![w] = I!NoThread]
        \/ \E w \in Workers, t \in Lookers : copier' = [copier EXCEPT ![w] = t]
    BY <1>1, IndexSteps DEF Steps, I!Swap, I!Drop, I!MinutePasses, I!CopyAgain,
       I!NameWithoutCopying, I!NameWhileCopied, I!NameAtOnce, I!NameUnseen, I!StartCopy,
       I!EndCopy, I!CopyFails, I!Stat, I!StatFails, I!Reopen
  <2> QED BY <1>1, <2>1
<1>12. threadAt' \in [Lookers -> {"idle", "copying", "named", "seen"}]
  <2>1. \/ threadAt' = threadAt
        \/ \E t \in Lookers, place \in {"idle", "copying", "named", "seen"} :
             threadAt' = [threadAt EXCEPT ![t] = place]
    BY <1>1, IndexSteps DEF Steps, I!Swap, I!Drop, I!MinutePasses, I!CopyAgain,
       I!NameWithoutCopying, I!NameWhileCopied, I!NameAtOnce, I!NameUnseen, I!StartCopy,
       I!EndCopy, I!CopyFails, I!Stat, I!StatFails, I!Reopen, I!Goes, I!Done, I!Named
  <2> QED BY <1>1, <2>1
<1>13. threadSeen' \in [Lookers -> I!Identities]
  <2>1. \/ threadSeen' = threadSeen
        \/ \E t \in Lookers : threadSeen' = [threadSeen EXCEPT ![t] = I!NoFile]
        \/ \E t \in Lookers :
             threadSeen' = [threadSeen EXCEPT ![t] = I!IdentityAt(threadPath[t])]
    BY <1>1, IndexSteps DEF Steps, I!Swap, I!Drop, I!MinutePasses, I!CopyAgain,
       I!NameWithoutCopying, I!NameWhileCopied, I!NameAtOnce, I!NameUnseen, I!StartCopy,
       I!EndCopy, I!CopyFails, I!Stat, I!StatFails, I!Reopen, I!Done
  <2>2. \A t \in Lookers : I!IdentityAt(threadPath[t]) \in I!Identities
    BY <1>1, AtPaths
  <2> QED BY <1>1, <1>2, <2>1, <2>2
<1>14. threadPath' \in [Lookers -> 0 .. MaxVersion]
  <2>1. \/ threadPath' = threadPath
        \/ \E t \in Lookers, w \in Workers :
             \E p \in {I!Volume, I!Missing, volume, threadPath[t], copyOf[w]} :
               threadPath' = [threadPath EXCEPT ![t] = p]
    BY <1>1, IndexSteps DEF Steps, I!Swap, I!Drop, I!MinutePasses, I!CopyAgain,
       I!NameWithoutCopying, I!NameWhileCopied, I!NameAtOnce, I!NameUnseen, I!StartCopy,
       I!EndCopy, I!CopyFails, I!Stat, I!StatFails, I!Reopen, I!Done, I!Named
  <2> QED BY <1>1, <1>2, <2>1 DEF I!Volume, I!Missing
<1>15. named' \in [Lookers -> 0 .. MaxCopies]
  <2>1. copiesMade \in Nat /\ (copiesMade < MaxCopies => copiesMade + 1 \in 0 .. MaxCopies)
    BY IndexBounds DEF IndexInv, Store
  <2>2. \A p \in 0 .. MaxVersion : (IF p \in I!Copied THEN I!CopyOf(p).nr ELSE 0) \in 0 .. MaxCopies
    BY <1>2, AtPaths, IndexBounds
  <2>3. ASSUME NEW t \in Lookers, NEW p \in 0 .. MaxVersion, I!Named(t, p)
        PROVE  named' \in [Lookers -> 0 .. MaxCopies]
    BY <1>1, <2>2, <2>3 DEF I!Named
  <2>4. ASSUME NEW t \in Lookers, Steps(t)
        PROVE  named' \in [Lookers -> 0 .. MaxCopies]
    <3>1. CASE I!NameWithoutCopying(t) \/ I!NameWhileCopied(t) \/ I!NameUnseen(t)
      <4>1. \E p \in 0 .. MaxVersion : I!Named(t, p)
        BY <1>1, <1>2, <3>1
           DEF I!NameWithoutCopying, I!NameWhileCopied, I!NameUnseen, I!Volume
      <4> QED BY <2>3, <4>1
    <3>2. CASE I!NameAtOnce(t)
      <4>1. I!Named(t, copyOf'[workerOf[t]]) /\ copyOf'[workerOf[t]] \in 0 .. MaxVersion
        BY <1>1, <1>9, <3>2 DEF I!NameAtOnce
      <4> QED BY <2>3, <4>1
    <3>3. CASE I!CopyFails(t)
      <4>1. \E p \in 0 .. MaxVersion : I!Named(t, p)
        BY <1>1, <1>2, <3>3 DEF I!CopyFails, I!Volume
      <4> QED BY <2>3, <4>1
    <3>4. CASE I!EndCopy(t)
      BY <1>1, <2>1, <3>4 DEF I!EndCopy
    <3>5. CASE I!Stat(t) \/ I!Reopen(t)
      BY <1>1, <1>2, <3>5 DEF I!Stat, I!Reopen, I!Done
    <3>6. CASE I!StartCopy(t) \/ I!StatFails(t)
      BY <1>1, <3>6 DEF I!StartCopy, I!StatFails
    <3> QED BY <2>4, <3>1, <3>2, <3>3, <3>4, <3>5, <3>6 DEF Steps
  <2> QED
    BY <1>1, <2>4, IndexSteps DEF I!Swap, I!Drop, I!MinutePasses, I!CopyAgain
<1>16. copies' \in Seq(Copy) /\ copiesMade' \in 0 .. MaxCopies
  BY StoreStep DEF Store
<1> QED
  BY <1>1, <1>3, <1>4, <1>5, <1>6, <1>7, <1>8, <1>9, <1>10, <1>11, <1>12, <1>13, <1>14, <1>15, <1>16
     DEF I!TypeOK, Copy

(* What a thread finds only gets newer.                                    *)
LEMMA FindsOn ==
  ASSUME IndexInv, [I!Next]_(I!vars), NEW u \in Lookers, Finds(u),
         threadPath'[u] = threadPath[u], named'[u] = named[u]
  PROVE  Finds(u)'
<1>1. /\ named[u] \in Nat /\ copiesMade \in Nat /\ named[u] <= copiesMade
      /\ threadPath[u] \in 0 .. MaxVersion
  BY IndexBounds DEF IndexInv, Store, I!TypeOK, Knows
<1>2. PICK p \in 0 .. MaxVersion : p = threadPath[u]
  BY <1>1
<1>3. PICK n \in Nat : n = named[u]
  BY <1>1
<1>4. p \in I!Copied => I!CopyOf(p).nr \in Nat
  BY AtPaths
<1>5. CASE UNCHANGED <<copies, copiesMade>>
  BY <1>5 DEF Finds, I!Copied, I!CopyOf
<1>6. ASSUME NEW t \in Lookers, I!EndCopy(t)
      PROVE  Finds(u)'
  <2>1. PICK v \in I!Versions : v = threadPath[t]
    BY <1>6, Copies
  <2>2. /\ copiesMade < MaxCopies /\ copiesMade' = copiesMade + 1 /\ Store
        /\ copies' = I!Pruned(Append(I!Others(v), [of |-> v, holds |-> v, nr |-> copiesMade + 1]))
    BY <1>6, <2>1, Copies DEF IndexInv
  <2>3. /\ v \in I!Copied' /\ I!CopyOf(v)'.nr = copiesMade'
        /\ \A q \in I!Copied' : q # v => q \in I!Copied /\ I!CopyOf(q)' = I!CopyOf(q)
        /\ \A q \in I!Copied : q \notin I!Copied' => copiesMade' >= I!CopyOf(q).nr + 2
    BY <2>2, CopyMade
  <2>4. /\ p \in I!Copied => I!CopyOf(p).nr >= n
        /\ p \notin I!Copied => copiesMade >= n + 2
    BY <1>2, <1>3 DEF Finds
  <2>5. p \in I!Copied' => I!CopyOf(p)'.nr >= n
    <3>1. CASE p = v
      <4>1. copiesMade' >= n
        BY <1>1, <1>3, <2>2
      <4> QED BY <2>3, <3>1, <4>1
    <3>2. CASE p # v
      BY <2>3, <2>4, <3>2
    <3> QED BY <3>1, <3>2
  <2>6. p \notin I!Copied' => copiesMade' >= n + 2
    <3>1. CASE p \in I!Copied
      <4> SUFFICES ASSUME p \notin I!Copied' PROVE copiesMade' >= n + 2
        OBVIOUS
      <4>1. copiesMade' >= I!CopyOf(p).nr + 2
        BY <2>3, <3>1
      <4>2. copiesMade' \in Nat
        BY <1>1, <2>2
      <4> QED BY <1>4, <2>4, <3>1, <4>1, <4>2
    <3>2. CASE p \notin I!Copied
      BY <1>1, <2>2, <2>4, <3>2
    <3> QED BY <3>1, <3>2
  <2>7. threadPath'[u] = p /\ named'[u] = n
    BY <1>2, <1>3
  <2> QED BY <2>5, <2>6, <2>7 DEF Finds, I!Copied, I!CopyOf
<1> QED BY <1>5, <1>6, StoreChanges

LEMMA KnowsOn ==
  ASSUME IndexInv, [I!Next]_(I!vars), NEW u \in Lookers,
         threadAt'[u] = threadAt[u], threadPath'[u] = threadPath[u],
         threadSeen'[u] = threadSeen[u], named'[u] = named[u]
  PROVE  Knows(u)'
<1>1. named[u] \in Nat /\ copiesMade \in Nat /\ copiesMade' \in Nat /\ copiesMade' >= copiesMade
  <2>1. named[u] \in Nat /\ copiesMade \in Nat
    BY IndexBounds DEF IndexInv, Store, I!TypeOK
  <2>2. copiesMade' \in 0 .. MaxCopies /\ copiesMade' >= copiesMade
    BY StoreStep DEF Store
  <2> QED BY <2>1, <2>2, IndexBounds
<1>2. Knows(u)
  BY DEF IndexInv
<1>3. Finds(u) => Finds(u)'
  BY FindsOn
<1>4. volume # I!Missing => volume' # I!Missing
  <2>1. volume' = volume \/ (volume < MaxVersion /\ volume' = volume + 1)
    BY IndexSteps DEF Steps, I!Swap, I!Drop, I!MinutePasses, I!CopyAgain, I!NameWithoutCopying,
       I!NameWhileCopied, I!NameAtOnce, I!NameUnseen, I!StartCopy, I!EndCopy, I!CopyFails, I!Stat,
       I!StatFails, I!Reopen, I!vars
  <2>2. volume \in Nat
    BY IndexBounds DEF IndexInv, I!TypeOK
  <2> QED BY <2>1, <2>2 DEF I!Missing
<1>5. named[u] <= copiesMade'
  BY <1>1, <1>2 DEF Knows
<1>6. copiesMade >= named[u] + 2 => copiesMade' >= named[u] + 2
  BY <1>1
<1> QED BY <1>2, <1>3, <1>4, <1>5, <1>6 DEF Knows

(* A thread that was named what is there, or a copy that went.             *)
LEMMA KnowsNamed ==
  ASSUME IndexInv, UNCHANGED <<copies, copiesMade>>, NEW t \in Lookers,
         NEW p \in 0 .. MaxVersion, I!Named(t, p),
         p # I!Volume /\ p \notin I!Copied => copiesMade >= 2
  PROVE  Knows(t)'
<1>1. /\ threadAt \in [Lookers -> {"idle", "copying", "named", "seen"}]
      /\ threadPath \in [Lookers -> 0 .. MaxVersion] /\ named \in [Lookers -> 0 .. MaxCopies]
  BY DEF IndexInv, I!TypeOK
<1>2. /\ threadAt'[t] = "named" /\ threadPath'[t] = p
      /\ named'[t] = IF p \in I!Copied THEN I!CopyOf(p).nr ELSE 0
  BY <1>1 DEF I!Named, I!Goes
<1>3. copiesMade \in Nat /\ (p \in I!Copied => I!CopyOf(p).nr \in 1 .. copiesMade)
  BY AtPaths, IndexBounds DEF IndexInv, Store
<1>4. named'[t] <= copiesMade
  BY <1>2, <1>3
<1>5. I!Copied' = I!Copied /\ I!CopyOf(p)' = I!CopyOf(p) /\ copiesMade' = copiesMade
  BY DEF I!Copied, I!CopyOf
<1>6. p # I!Volume => Finds(t)'
  <2>1. p \in I!Copied => I!CopyOf(p).nr >= named'[t]
    BY <1>2, <1>3
  <2>2. p # I!Volume /\ p \notin I!Copied => copiesMade >= named'[t] + 2
    BY <1>2, <1>3
  <2> QED BY <1>2, <1>5, <2>1, <2>2 DEF Finds, I!Copied, I!CopyOf
<1> QED BY <1>2, <1>4, <1>5, <1>6 DEF Knows

LEMMA KnowsStep ==
  ASSUME IndexInv, [I!Next]_(I!vars), NEW u \in Lookers
  PROVE  Knows(u)'
<1>1. /\ threadAt \in [Lookers -> {"idle", "copying", "named", "seen"}]
      /\ threadPath \in [Lookers -> 0 .. MaxVersion]
      /\ threadSeen \in [Lookers -> I!Identities] /\ named \in [Lookers -> 0 .. MaxCopies]
      /\ copyOf \in [Workers -> 0 .. MaxVersion] /\ workerOf[u] \in Workers
      /\ volume \in 0 .. MaxVersion /\ copiesMade \in Nat /\ named[u] \in Nat
  BY IndexBounds DEF IndexInv, I!TypeOK, Store
<1>2. Knows(u)
  BY DEF IndexInv
<1>3. ASSUME NEW t \in Lookers, Steps(t), u # t
      PROVE  Knows(u)'
  <2>1. /\ threadAt'[u] = threadAt[u] /\ threadPath'[u] = threadPath[u]
        /\ threadSeen'[u] = threadSeen[u] /\ named'[u] = named[u]
    BY <1>1, <1>3 DEF Steps, I!NameWithoutCopying, I!NameWhileCopied, I!NameAtOnce, I!NameUnseen,
       I!StartCopy, I!EndCopy, I!CopyFails, I!Stat, I!StatFails, I!Reopen, I!Named, I!Done, I!Goes
  <2> QED BY <2>1, KnowsOn
<1>4. CASE I!Swap \/ (\E w \in Workers : I!Drop(w) \/ I!MinutePasses(w) \/ I!CopyAgain(w))
           \/ UNCHANGED I!vars
  <2>1. UNCHANGED <<threadAt, threadPath, threadSeen, named>>
    BY <1>4 DEF I!Swap, I!Drop, I!MinutePasses, I!CopyAgain, I!looks, I!vars
  <2> QED BY <2>1, KnowsOn
<1>5. CASE I!NameWithoutCopying(u) \/ I!NameWhileCopied(u)
  <2>1. /\ UNCHANGED <<copies, copiesMade>>
        /\ \/ I!Named(u, I!Volume)
           \/ I!Named(u, copyOf[workerOf[u]]) /\ copyOf[workerOf[u]] \in I!Copied
    BY <1>5 DEF I!NameWithoutCopying, I!NameWhileCopied, I!store, I!Usable
  <2>2. I!Volume \in 0 .. MaxVersion /\ copyOf[workerOf[u]] \in 0 .. MaxVersion
    BY <1>1, IndexBounds DEF I!Volume
  <2> QED BY <2>1, <2>2, KnowsNamed
<1>6. CASE I!NameAtOnce(u)
  <2>1. UNCHANGED <<copies, copiesMade>>
    BY <1>6 DEF I!NameAtOnce, I!store
  <2>2. copyOf'[workerOf[u]] = IF volume \in I!Copied THEN volume ELSE I!Missing
    BY <1>1, <1>6 DEF I!NameAtOnce
  <2>3. I!Named(u, copyOf'[workerOf[u]])
    BY <1>6 DEF I!NameAtOnce
  <2>4. I!Volume \in 0 .. MaxVersion /\ I!Missing = I!Volume
    BY IndexBounds DEF I!Volume, I!Missing
  <2> QED BY <1>1, <2>1, <2>2, <2>3, <2>4, KnowsNamed
<1>7. CASE I!NameUnseen(u)
  <2>1. UNCHANGED <<copies, copiesMade>> /\ I!Named(u, copyOf[workerOf[u]])
    BY <1>7 DEF I!NameUnseen, I!store
  <2>2. copyOf[workerOf[u]] # I!Volume /\ copyOf[workerOf[u]] \notin I!Copied => copiesMade >= 2
    BY <1>1 DEF IndexInv, Names, I!Missing, I!Volume
  <2>3. copyOf[workerOf[u]] \in 0 .. MaxVersion
    BY <1>1
  <2> QED BY <2>1, <2>2, <2>3, KnowsNamed
<1>8. CASE I!CopyFails(u)
  <2>1. /\ UNCHANGED <<copies, copiesMade>>
        /\ \/ I!Named(u, I!Volume)
           \/ I!Named(u, threadPath[u]) /\ threadPath[u] \in I!Copied
    BY <1>8 DEF I!CopyFails, I!store
  <2>2. I!Volume \in 0 .. MaxVersion /\ threadPath[u] \in 0 .. MaxVersion
    BY <1>1, IndexBounds DEF I!Volume
  <2> QED BY <2>1, <2>2, KnowsNamed
<1>9. CASE I!StartCopy(u)
  <2>1. /\ threadAt'[u] = "copying" /\ threadPath'[u] = volume /\ volume # I!Volume
        /\ named'[u] = named[u] /\ copiesMade' = copiesMade
    BY <1>1, <1>9 DEF I!StartCopy, I!Goes, I!store, I!Volume, I!Missing
  <2>2. named[u] <= copiesMade
    BY <1>2 DEF Knows
  <2> QED BY <2>1, <2>2 DEF Knows
<1>10. CASE I!EndCopy(u)
  <2>1. PICK v \in I!Versions : v = threadPath[u]
    BY <1>10, Copies
  <2>2. /\ copiesMade < MaxCopies /\ copiesMade' = copiesMade + 1 /\ Store
        /\ copies' = I!Pruned(Append(I!Others(v), [of |-> v, holds |-> v, nr |-> copiesMade + 1]))
    BY <1>10, <2>1, Copies DEF IndexInv
  <2>3. threadAt'[u] = "named" /\ named'[u] = copiesMade + 1 /\ threadPath'[u] = v
    BY <1>1, <1>10, <2>1 DEF I!EndCopy, I!Goes
  <2>4. v \in I!Copied' /\ I!CopyOf(v)'.nr = copiesMade'
    BY <2>2, CopyMade
  <2>5. I!CopyOf(v)'.nr >= named'[u] /\ named'[u] <= copiesMade'
    BY <1>1, <2>2, <2>3, <2>4
  <2>6. Finds(u)'
    BY <2>3, <2>4, <2>5 DEF Finds, I!Copied, I!CopyOf
  <2> QED BY <2>3, <2>5, <2>6 DEF Knows
<1>11. CASE I!Stat(u)
  <2>1. UNCHANGED <<copies, copiesMade, volume>> /\ threadAt[u] = "named"
    BY <1>11 DEF I!Stat, I!store
  <2>2. CASE I!Done(u)
    <3>1. threadAt'[u] = "idle" /\ named'[u] = 0
      BY <1>1, <2>2 DEF I!Done, I!Goes
    <3> QED BY <1>1, <2>1, <3>1 DEF Knows
  <2>3. CASE ~I!Done(u)
    <3>1. /\ threadAt'[u] = "seen" /\ threadSeen'[u] = I!IdentityAt(threadPath[u])
          /\ threadPath'[u] = threadPath[u] /\ named'[u] = named[u]
      BY <1>1, <1>11, <2>3 DEF I!Stat, I!Goes
    <3>2. threadPath[u] # I!Volume => Finds(u) /\ Finds(u)'
      BY <1>2, <2>1, <3>1, FindsOn DEF Knows
    <3>3. threadPath[u] # I!Volume /\ I!IdentityAt(threadPath[u]) = I!NoFile
            => threadPath[u] \notin I!Copied
      BY DEF I!IdentityAt, I!NoFile, I!Volume, I!Missing
    <3>4. I!IdentityAt(I!Volume) # I!NoFile => volume # I!Missing
      BY DEF I!IdentityAt, I!NoFile, I!Missing
    <3>5. named[u] <= copiesMade
      BY <1>2 DEF Knows
    <3> QED BY <2>1, <3>1, <3>2, <3>3, <3>4, <3>5 DEF Knows, Finds
  <2> QED BY <2>2, <2>3
<1>12. CASE I!StatFails(u)
  <2>1. /\ threadAt'[u] = "seen" /\ threadSeen'[u] = I!NoFile /\ threadPath'[u] = I!Volume
        /\ named'[u] = named[u] /\ copiesMade' = copiesMade
    BY <1>1, <1>12 DEF I!StatFails, I!Goes, I!store
  <2>2. named[u] <= copiesMade
    BY <1>2 DEF Knows
  <2> QED BY <2>1, <2>2 DEF Knows
<1>13. CASE I!Reopen(u)
  <2>1. threadAt'[u] = "idle" /\ named'[u] = 0 /\ copiesMade' = copiesMade
    BY <1>1, <1>13 DEF I!Reopen, I!Done, I!Goes, I!store
  <2> QED BY <1>1, <2>1 DEF Knows
<1> QED
  BY <1>3, <1>4, <1>5, <1>6, <1>7, <1>8, <1>9, <1>10, <1>11, <1>12, <1>13, IndexSteps DEF Steps

LEMMA NamesStep ==
  ASSUME IndexInv, [I!Next]_(I!vars), NEW w \in Workers
  PROVE  Names(w)'
<1>1. /\ copyOf \in [Workers -> 0 .. MaxVersion] /\ copiesMade \in Nat
      /\ threadPath \in [Lookers -> 0 .. MaxVersion]
  BY IndexBounds DEF IndexInv, I!TypeOK, Store
<1>2. Names(w)
  BY DEF IndexInv
<1>3. CASE UNCHANGED <<copies, copiesMade>>
  <2>1. \/ copyOf'[w] = copyOf[w]
        \/ copyOf'[w] = I!Missing
        \/ copyOf'[w] \in I!Copied
    <3>1. ASSUME NEW t \in Lookers, Steps(t)
          PROVE  \/ copyOf'[w] = copyOf[w] \/ copyOf'[w] = I!Missing \/ copyOf'[w] \in I!Copied
      BY <1>1, <1>3, <3>1 DEF Steps, I!NameWithoutCopying, I!NameWhileCopied, I!NameAtOnce,
         I!NameUnseen, I!StartCopy, I!EndCopy, I!CopyFails, I!Stat, I!StatFails, I!Reopen, I!copiers
    <3> QED
      BY <3>1, IndexSteps DEF I!Swap, I!Drop, I!MinutePasses, I!CopyAgain, I!copiers, I!vars
  <2>2. I!Copied' = I!Copied /\ copiesMade' = copiesMade
    BY <1>3 DEF I!Copied
  <2> QED BY <1>2, <2>1, <2>2 DEF Names, I!Missing
<1>4. ASSUME NEW t \in Lookers, I!EndCopy(t)
      PROVE  Names(w)'
  <2>1. PICK v \in I!Versions : v = threadPath[t]
    BY <1>4, Copies
  <2>2. /\ copiesMade < MaxCopies /\ copiesMade' = copiesMade + 1 /\ Store
        /\ copies' = I!Pruned(Append(I!Others(v), [of |-> v, holds |-> v, nr |-> copiesMade + 1]))
    BY <1>4, <2>1, Copies DEF IndexInv
  <2>3. /\ v \in I!Copied'
        /\ \A q \in I!Copied : q \notin I!Copied' => copiesMade' >= I!CopyOf(q).nr + 2
    BY <2>2, CopyMade
  <2>4. copyOf'[w] = v \/ copyOf'[w] = copyOf[w]
    BY <1>1, <1>4, <2>1 DEF I!EndCopy
  <2>5. PICK q \in 0 .. MaxVersion : q = copyOf[w]
    BY <1>1
  <2>6. q \in I!Copied /\ q \notin I!Copied' => copiesMade' >= 2
    <3> SUFFICES ASSUME q \in I!Copied, q \notin I!Copied' PROVE copiesMade' >= 2
      OBVIOUS
    <3>1. I!CopyOf(q).nr \in Nat /\ copiesMade' \in Nat
      BY <1>1, <2>2, AtPaths
    <3> QED BY <2>3, <3>1
  <2>7. q # I!Missing /\ q \notin I!Copied => copiesMade' >= 2
    BY <1>1, <1>2, <2>2, <2>5 DEF Names
  <2>8. q # I!Missing /\ q \notin I!Copied' => copiesMade' >= 2
    BY <2>6, <2>7
  <2>9. copyOf'[w] = v \/ copyOf'[w] = q
    BY <2>4, <2>5
  <2> QED BY <2>3, <2>8, <2>9 DEF Names, I!Copied, I!Missing
<1> QED BY <1>3, <1>4, StoreChanges

LEMMA IndexBegins == I!Init => IndexInv
<1> SUFFICES ASSUME I!Init PROVE IndexInv
  OBVIOUS
<1>1. /\ 0 \in 0 .. MaxVersion /\ 1 \in 0 .. MaxVersion /\ 0 \in 0 .. MaxCopies
      /\ I!NoFile \in I!Identities /\ MaxFailures[workerOf] \in Nat
  BY IndexBounds DEF I!Identities, I!Init
<1>2. volume \in 0 .. MaxVersion /\ <<volume, 0>> \in I!Identities
  <2>1. volume = 0 \/ volume \in I!Versions
    BY IndexBounds DEF I!Init, I!Missing, I!Versions
  <2> QED BY <1>1, <2>1, IndexBounds DEF I!Identities, I!NoFile, I!Missing, I!Versions
<1>3. /\ workerOf \in Pods /\ copying \in BOOLEAN /\ copies = <<>> /\ copiesMade = 0 /\ misses = 0
      /\ lookDue \in [Workers -> BOOLEAN] /\ reads \in [Workers -> 0 .. MaxVersion]
      /\ identity \in [Workers -> I!Identities] /\ copyOf = [w \in Workers |-> I!Missing]
      /\ failed \in [Workers -> 0 .. MaxVersion]
      /\ copier \in [Workers -> Lookers \cup {I!NoThread}]
  BY <1>1, <1>2 DEF I!Init, I!Missing
<1>4. /\ threadAt = [t \in Lookers |-> "idle"] /\ threadPath \in [Lookers -> 0 .. MaxVersion]
      /\ threadSeen \in [Lookers -> I!Identities] /\ named = [t \in Lookers |-> 0]
  BY <1>1 DEF I!Init, I!Volume
<1>5. copies \in Seq(Copy) /\ Len(copies) = 0 /\ DOMAIN copies = {}
  BY <1>3
<1>6. misses \in 0 .. MaxFailures[workerOf]
  <2>1. misses = 0
    BY <1>3
  <2> QED BY <1>1, <2>1
<1>7. I!TypeOK
  <2>1. /\ copiesMade \in 0 .. MaxCopies /\ copyOf \in [Workers -> 0 .. MaxVersion]
        /\ threadAt \in [Lookers -> {"idle", "copying", "named", "seen"}]
        /\ named \in [Lookers -> 0 .. MaxCopies]
    BY <1>1, <1>3, <1>4 DEF I!Missing
  <2>2. copies \in Seq([of : I!Versions, holds : I!Versions, nr : 1 .. MaxCopies])
    BY <1>5 DEF Copy
  <2> QED BY <1>2, <1>3, <1>4, <1>6, <2>1, <2>2 DEF I!TypeOK
<1>8. Store
  BY <1>1, <1>3, <1>5 DEF Store, Ordered
<1>9. \A t \in Lookers : Knows(t)
  BY <1>3, <1>4 DEF Knows
<1>10. \A w \in Workers : Names(w)
  BY <1>3 DEF Names
<1> QED BY <1>7, <1>8, <1>9, <1>10 DEF IndexInv

LEMMA IndexStep ==
  ASSUME IndexInv, [I!Next]_(I!vars)
  PROVE  IndexInv'
<1>1. I!TypeOK' /\ Store'
  BY IndexTypeStep, StoreStep
<1>2. \A t \in Lookers : Knows(t)'
  BY KnowsStep
<1>3. \A w \in Workers : Names(w)'
  BY NamesStep
<1> QED BY <1>1, <1>2, <1>3 DEF IndexInv

LEMMA IndexSafety == I!Spec => []IndexInv
BY IndexBegins, IndexStep, PTL DEF I!Spec

(* What a worker loses.                                                    *)
LEMMA Loses ==
  ASSUME IndexInv, I!Next, NEW w \in Workers, reads[w] # I!Missing, reads'[w] = I!Missing
  PROVE  \/ misses' # misses
         \/ \E t \in Lookers :
              /\ workerOf[t] = w /\ threadAt[t] = "seen"
              /\ \/ I!ContentAt(threadPath[t]) \in Broken
                 \/ threadPath[t] = I!Volume /\ threadSeen[t] = I!NoFile
                 \/ threadPath[t] # I!Volume /\ copiesMade >= named[t] + 2
<1>1. /\ reads \in [Workers -> 0 .. MaxVersion] /\ misses \in Int
      /\ workerOf \in [Lookers -> Workers] /\ threadPath \in [Lookers -> 0 .. MaxVersion]
  <2>1. workerOf \in Pods /\ misses \in 0 .. MaxFailures[workerOf]
    BY DEF IndexInv, I!TypeOK
  <2>2. misses \in Int
    BY <2>1, IndexBounds
  <2> QED BY <2>1, <2>2, IndexBounds DEF IndexInv, I!TypeOK
<1>2. \/ \E x \in Workers : I!Drop(x)
      \/ \E t \in Lookers : I!Reopen(t)
  BY DEF I!Next, I!Swap, I!MinutePasses, I!CopyAgain, I!NameWithoutCopying, I!NameWhileCopied,
     I!NameAtOnce, I!NameUnseen, I!StartCopy, I!EndCopy, I!CopyFails, I!Stat, I!StatFails,
     I!connections
<1>3. ASSUME NEW x \in Workers, I!Drop(x)
      PROVE  misses' # misses
  BY <1>1, <1>3 DEF I!Drop
<1>4. ASSUME NEW t \in Lookers, I!Reopen(t)
      PROVE  /\ workerOf[t] = w /\ threadAt[t] = "seen"
             /\ \/ I!ContentAt(threadPath[t]) \in Broken
                \/ threadPath[t] = I!Volume /\ threadSeen[t] = I!NoFile
                \/ threadPath[t] # I!Volume /\ copiesMade >= named[t] + 2
  <2> DEFINE p == threadPath[t]
             content == I!ContentAt(p)
  <2>1. /\ workerOf[t] = w /\ threadAt[t] = "seen"
        /\ threadSeen[t] = I!NoFile \/ content \in Broken \/ content = I!Missing
    BY <1>1, <1>4 DEF I!Reopen, I!connections
  <2>2. Knows(t)
    BY DEF IndexInv
  <2>3. CASE content \in Broken
    BY <2>1, <2>3
  <2>4. CASE threadSeen[t] = I!NoFile
    BY <2>1, <2>2, <2>4 DEF Knows
  <2>5. CASE threadSeen[t] # I!NoFile /\ content = I!Missing
    <3>1. p \in I!Copied => I!CopyOf(p).holds \in I!Versions
      BY <1>1, AtPaths
    <3>2. p # I!Volume /\ p \notin I!Copied
      <4>1. p = I!Volume => content = volume /\ volume # I!Missing
        BY <2>1, <2>2, <2>5 DEF Knows, I!ContentAt
      <4>2. p # I!Volume /\ p \in I!Copied => content \in I!Versions
        BY <3>1 DEF I!ContentAt
      <4>3. I!Missing \notin I!Versions
        BY IndexBounds DEF I!Missing, I!Versions
      <4> QED BY <2>5, <4>1, <4>2, <4>3
    <3> QED BY <2>1, <2>2, <3>2 DEF Knows, Finds
  <2> QED BY <2>1, <2>3, <2>4, <2>5
<1> QED BY <1>2, <1>3, <1>4

LEMMA ServesOnSafety == I!Spec => I!ServesOn
<1>1. IndexInv /\ [I!Next]_(I!vars)
        => [\A w \in Workers : reads[w] # I!Missing /\ reads'[w] = I!Missing =>
              \/ misses' # misses
              \/ \E t \in Lookers :
                   /\ workerOf[t] = w /\ threadAt[t] = "seen"
                   /\ \/ I!ContentAt(threadPath[t]) \in Broken
                      \/ threadPath[t] = I!Volume /\ threadSeen[t] = I!NoFile
                      \/ threadPath[t] # I!Volume /\ copiesMade >= named[t] + 2]_(I!vars)
  BY Loses
<1> QED BY <1>1, IndexSafety, PTL DEF I!Spec, I!ServesOn

-----------------------------------------------------------------------------
(* The check of the model                                                  *)

LEMMA GatewayTyped == G!Spec => []G!TypeOK
<1> USE DEF G!Goes, G!Sees, G!Checks
<1>0. MaxChanges \in Nat
  BY GatewayAssumption DEF G!GatewayAssumption
<1>1. G!Init => G!TypeOK
  <2> SUFFICES ASSUME G!Init PROVE G!TypeOK
    OBVIOUS
  <2>1. /\ model \in BOOLEAN /\ suspended = FALSE /\ check \in {"ok", "bad"} /\ due = FALSE
        /\ askerAt = [r \in Askers |-> "idle"] /\ seen = [r \in Askers |-> "none"] /\ changes = 0
    BY DEF G!Init
  <2>2. changes \in 0 .. MaxChanges
    BY <1>0, <2>1
  <2> QED BY <2>1, <2>2 DEF G!TypeOK
<1>2. ASSUME G!TypeOK, [G!Next]_(G!vars)
      PROVE  G!TypeOK'
  <2>1. \/ UNCHANGED G!vars \/ G!TimePasses \/ G!ModelChanges \/ G!SuspensionChanges
        \/ \E r \in Askers : G!ReadCheck(r) \/ G!ReadAge(r) \/ G!Told(r) \/ G!KeepCheck(r)
    BY <1>2 DEF G!Next, G!RequestStep
  <2> USE DEF G!TypeOK, G!vars, G!TimePasses, G!ModelChanges, G!SuspensionChanges, G!ReadCheck,
              G!ReadAge, G!Told, G!KeepCheck
  <2>2. model' \in BOOLEAN /\ suspended' \in BOOLEAN /\ due' \in BOOLEAN
    BY <1>2, <2>1
  <2>3. check' \in {"none", "ok", "bad"}
    BY <1>2, <2>1
  <2>4. askerAt' \in [Askers -> {"idle", "read", "asking", "told"}]
    BY <1>2, <2>1
  <2>5. seen' \in [Askers -> {"none", "ok", "bad"}]
    BY <1>2, <2>1
  <2>6. changes' \in 0 .. MaxChanges
    <3>1. \/ changes' = changes
          \/ changes < MaxChanges /\ changes' = changes + 1
      BY <1>2, <2>1
    <3> QED BY <1>0, <1>2, <3>1
  <2> QED BY <2>2, <2>3, <2>4, <2>5, <2>6
<1> QED BY <1>1, <1>2, PTL DEF G!Spec
=============================================================================
