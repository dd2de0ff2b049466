------------------------------ MODULE DataProofs ------------------------------
(***************************************************************************)
(* The theorems of module Data, for any values of its constants: those of  *)
(* its parts A, H and J and of the sync of an index (T's are in            *)
(* TemplatesProofs), and that each behaviour of the whole is one of every  *)
(* part, so that what holds of a part holds of the whole.                  *)
(***************************************************************************)
EXTENDS TemplatesProofs, FiniteSetTheorems

-----------------------------------------------------------------------------
(* J, the loop of an updater                                               *)

(* What a sleep has left is what the request may still wait: a loop only   *)
(* goes to sleep with no request open that waited before, since it took    *)
(* the trigger file right before or saw none.                              *)
RequestPending ==
  /\ J!TypeOK
  /\ asked => trigger
  /\ ~asked => waited = 0
  /\ loopAt \in {"task", "rest"} => waited = 0
  /\ loopAt = "triggered" => trigger
  /\ loopAt = "asleep" => asleep > 0 /\ waited + asleep <= Poll
  /\ waited <= Poll

LEMMA LoopBounds == Interval \in Nat /\ AliveEvery \in Nat /\ Poll \in Nat
  BY LoopAssumption DEF J!LoopAssumption

LEMMA PendingKept ==
  ASSUME RequestPending, [J!Next]_(J!vars)
  PROVE  RequestPending'
<1> USE LoopBounds DEF RequestPending, J!TypeOK, J!Forever
<1>1. CASE UNCHANGED J!vars
  BY <1>1 DEF J!vars
<1>2. CASE J!GiveSignOfLife
  BY <1>2 DEF J!GiveSignOfLife
<1>3. CASE J!Look
  BY <1>3 DEF J!Look
<1>4. CASE J!TakeTrigger
  <2>1. ~asked' /\ asked' \in BOOLEAN /\ trigger' \in BOOLEAN
    BY <1>4 DEF J!TakeTrigger
  <2>2. /\ loopAt' = "task" /\ waited' = 0
        /\ UNCHANGED <<untilRun, untilAlive, asleep>>
    BY <1>4 DEF J!TakeTrigger
  <2> QED BY <2>1, <2>2
<1>5. CASE J!EndTask
  BY <1>5 DEF J!EndTask
<1>6. CASE J!Rest
  BY <1>6 DEF J!Rest, J!Earliest
<1>7. CASE J!Tick
  BY <1>7 DEF J!Tick, J!Later, J!Counted, J!Earliest
<1>8. CASE J!Ask
  BY <1>8 DEF J!Ask
<1>9. CASE J!Restart
  BY <1>9 DEF J!Restart
<1> QED
  BY <1>1, <1>2, <1>3, <1>4, <1>5, <1>6, <1>7, <1>8, <1>9 DEF J!Next

LEMMA LoopSafety == J!Spec => []RequestPending
<1>1. J!Init => RequestPending
  BY LoopBounds DEF J!Init, RequestPending, J!TypeOK, J!Forever
<1>2. RequestPending /\ [J!Next]_(J!vars) => RequestPending'
  BY PendingKept
<1> QED BY <1>1, <1>2, PTL DEF J!Spec

-----------------------------------------------------------------------------
(* A, the archives of a worker                                             *)

(* The operators of FiniteSets are the same in every part.                 *)
LEMMA SameCardinality ==
  ASSUME NEW set
  PROVE  /\ A!Cardinality(set) = Cardinality(set)
         /\ H!Cardinality(set) = Cardinality(set)
         /\ H!IsFiniteSet(set) <=> IsFiniteSet(set)
<1>1. A!Cardinality(set) = Cardinality(set)
  BY DEF A!Cardinality, Cardinality
<1>2. H!Cardinality(set) = Cardinality(set)
  BY DEF H!Cardinality, Cardinality
<1>3. H!IsFiniteSet(set) <=> IsFiniteSet(set)
  BY DEF H!IsFiniteSet, IsFiniteSet
<1> QED BY <1>1, <1>2, <1>3

LEMMA FollowerBounds ==
  Newest \subseteq Archives /\ MaxWrites \in Nat /\ MaxFailures \in Nat
  BY FollowerAssumption DEF A!FollowerAssumption

Places == {"idle", "changed", "reading"}

OneReads ==
  \A t, u \in Threads : thread[t] = "reading" /\ thread[u] = "reading" => t = u

(* A list read under the lock is that of the file, unless another thread   *)
(* saw a newer one and waits to read it, or nobody saw it yet.             *)
LastReadHolds ==
  /\ OneReads
  /\ stage # "serving" => \A t \in Threads : thread[t] = "idle"
  /\ current /\ (\A t \in Threads : thread[t] # "changed")
       /\ (\E t \in Threads : thread[t] = "reading")
     => active = Corrupt \/ names = A!Paths

(* A!TypeOK but for the count of those who read.                           *)
FollowerTyped ==
  /\ active \in A!Contents
  /\ stage \in {"off", "loading", "serving"}
  /\ archives \subseteq Archives /\ skipped \subseteq Archives /\ names \subseteq Archives
  /\ current \in BOOLEAN
  /\ thread \in [Threads -> Places]
  /\ writes \in 0 .. MaxWrites /\ failures \in 0 .. MaxFailures

FollowerInv == FollowerTyped /\ LastReadHolds

LEMMA FollowerBegin == A!Init => FollowerInv
<1> SUFFICES ASSUME A!Init PROVE FollowerInv
  OBVIOUS
<1>1. thread \in [Threads -> Places]
  BY DEF A!Init, Places
<1>2. /\ active \in A!Contents /\ stage = "off"
      /\ archives = {} /\ skipped = {} /\ names = {}
      /\ current = FALSE /\ writes = 0 /\ failures = 0
  BY DEF A!Init
<1>4. writes \in 0 .. MaxWrites /\ failures \in 0 .. MaxFailures
  BY <1>2, FollowerBounds
<1>5. FollowerTyped
  BY <1>1, <1>2, <1>4 DEF FollowerTyped
<1>3. LastReadHolds
  BY DEF A!Init, LastReadHolds, OneReads
<1> QED BY <1>3, <1>5 DEF FollowerInv

(* What a readable active.json names, or newest_dumps finds, is archives.  *)
LEMMA PathsAreArchives ==
  ASSUME active \in A!Contents, active # Corrupt
  PROVE  A!Paths \subseteq Archives
BY FollowerBounds DEF A!Contents, A!Paths

LEMMA FollowerTypeKept ==
  ASSUME FollowerTyped, [A!Next]_(A!vars)
  PROVE  FollowerTyped'
<1> USE FollowerBounds
<1>1. \/ A!OpenArchives \/ A!Watch \/ A!Restart \/ A!Write \/ UNCHANGED A!vars
      \/ \E t \in Threads : A!Look(t) \/ A!Read(t) \/ A!Reload(t) \/ A!ReadFails(t)
  BY DEF A!Next, A!Refresh
<1>2. active' \in A!Contents
  BY <1>1 DEF FollowerTyped, A!OpenArchives, A!Watch, A!Restart, A!Write, A!Look, A!Read,
              A!Reload, A!ReadFails, A!vars
<1>3. stage' \in {"off", "loading", "serving"}
  BY <1>1 DEF FollowerTyped, A!OpenArchives, A!Watch, A!Restart, A!Write, A!Look, A!Read,
              A!Reload, A!ReadFails, A!vars, A!worker
<1>4. names' \subseteq Archives
  BY <1>1, PathsAreArchives
     DEF FollowerTyped, A!OpenArchives, A!Watch, A!Restart, A!Write, A!Look, A!Read,
         A!Reload, A!ReadFails, A!vars, A!worker
<1>9. archives' \subseteq Archives /\ skipped' \subseteq Archives
  <2>1. CASE A!OpenArchives
    BY <2>1, PathsAreArchives DEF FollowerTyped, A!OpenArchives, A!Open
  <2>2. CASE \E t \in Threads : A!Reload(t)
    BY <2>2 DEF FollowerTyped, A!Reload, A!Open
  <2>3. CASE \/ A!Watch \/ A!Restart \/ A!Write \/ UNCHANGED A!vars
             \/ \E t \in Threads : A!Look(t) \/ A!Read(t) \/ A!ReadFails(t)
    BY <2>3 DEF FollowerTyped, A!Watch, A!Restart, A!Write, A!Look, A!Read,
                A!ReadFails, A!vars, A!worker
  <2> QED BY <1>1, <2>1, <2>2, <2>3
<1>5. current' \in BOOLEAN
  BY <1>1 DEF FollowerTyped, A!OpenArchives, A!Watch, A!Restart, A!Write, A!Look, A!Read,
              A!Reload, A!ReadFails, A!vars, A!worker
<1>6. thread' \in [Threads -> Places]
  BY <1>1 DEF FollowerTyped, A!OpenArchives, A!Watch, A!Restart, A!Write, A!Look, A!Read,
              A!Reload, A!ReadFails, A!vars, A!worker, Places
<1>7. /\ writes' = writes \/ (writes < MaxWrites /\ writes' = writes + 1)
      /\ failures' = failures \/ (failures < MaxFailures /\ failures' = failures + 1)
  BY <1>1 DEF A!OpenArchives, A!Watch, A!Restart, A!Write, A!Look, A!Read, A!Reload,
              A!ReadFails, A!vars, A!Open
<1>8. writes' \in 0 .. MaxWrites /\ failures' \in 0 .. MaxFailures
  BY <1>7 DEF FollowerTyped
<1> QED BY <1>2, <1>3, <1>4, <1>5, <1>6, <1>8, <1>9 DEF FollowerTyped

LEMMA LastReadKept ==
  ASSUME FollowerInv, [A!Next]_(A!vars)
  PROVE  LastReadHolds'
<1> USE DEF LastReadHolds, OneReads, A!Paths
<1>0. LastReadHolds /\ DOMAIN thread = Threads
  BY DEF FollowerInv, FollowerTyped
<1>1. CASE UNCHANGED A!vars
  BY <1>0, <1>1 DEF A!vars, A!worker
<1>2. CASE A!OpenArchives \/ A!Watch \/ A!Restart \/ A!Write
  BY <1>0, <1>2 DEF A!OpenArchives, A!Watch, A!Restart, A!Write
<1>3. ASSUME NEW t \in Threads, A!Look(t)
      PROVE  LastReadHolds'
  <2>1. stage' = "serving" /\ thread'[t] = "changed"
    BY <1>0, <1>3 DEF A!Look
  <2>2. \A u \in Threads : u # t => thread'[u] = thread[u]
    BY <1>0, <1>3 DEF A!Look
  <2> QED BY <1>0, <2>1, <2>2
<1>4. ASSUME NEW t \in Threads, A!Read(t)
      PROVE  LastReadHolds'
  <2>1. \A u \in Threads : thread[u] # "reading"
    BY <1>4 DEF A!Read, A!Locked
  <2>2. stage = "serving" /\ stage' = stage
    BY <1>0, <1>4 DEF A!Read
  <2>3. CASE active = Corrupt
    BY <1>0, <1>4, <2>1, <2>2, <2>3 DEF A!Read
  <2>4. CASE active # Corrupt
    BY <1>0, <1>4, <2>1, <2>2, <2>4 DEF A!Read
  <2> QED BY <2>3, <2>4
<1>5. ASSUME NEW t \in Threads, A!Reload(t)
      PROVE  LastReadHolds'
  <2>1. \A u \in Threads : thread'[u] # "reading"
    BY <1>0, <1>5 DEF A!Reload
  <2>2. stage = "serving" /\ stage' = stage
    BY <1>0, <1>5 DEF A!Reload
  <2> QED BY <2>1, <2>2
<1>6. ASSUME NEW t \in Threads, A!ReadFails(t)
      PROVE  LastReadHolds'
  <2>1. stage = "serving" /\ stage' = stage /\ ~current'
    BY <1>0, <1>6 DEF A!ReadFails
  <2>2. \A u \in Threads : thread'[u] = "reading" => thread[u] = "reading"
    BY <1>0, <1>6 DEF A!ReadFails
  <2> QED BY <1>0, <2>1, <2>2
<1> QED
  BY <1>1, <1>2, <1>3, <1>4, <1>5, <1>6 DEF A!Next, A!Refresh

LEMMA FollowerSafety == A!Spec => []FollowerInv
<1>1. FollowerInv /\ [A!Next]_(A!vars) => FollowerInv'
  BY FollowerTypeKept, LastReadKept DEF FollowerInv
<1> QED BY <1>1, FollowerBegin, PTL DEF A!Spec

(* Those who read are one at most.                                         *)
LEMMA FollowerIsTyped == FollowerInv => A!TypeOK
<1> SUFFICES ASSUME FollowerInv PROVE A!TypeOK
  OBVIOUS
<1> DEFINE readers == {t \in Threads : thread[t] = "reading"}
<1>1. Cardinality(readers) <= 1
  <2>1. CASE readers = {}
    <3>1. Cardinality(readers) = 0
      BY <2>1, FS_EmptySet
    <3> QED BY <3>1
  <2>2. CASE readers # {}
    <3>1. PICK t \in Threads : thread[t] = "reading"
      BY <2>2
    <3>2. readers = {t}
      BY <3>1 DEF FollowerInv, LastReadHolds, OneReads
    <3>3. Cardinality(readers) = 1
      BY <3>2, FS_Singleton
    <3> QED BY <3>3
  <2> QED BY <2>1, <2>2
<1>2. FollowerTyped
  BY DEF FollowerInv
<1>3. A!Cardinality(readers) <= 1
  BY <1>1, SameCardinality
<1> QED BY <1>2, <1>3 DEF FollowerTyped, Places, A!TypeOK

LEMMA SettledServes == A!Spec => A!SettledInStep
<1>1. FollowerInv /\ [A!Next]_(A!vars)
        => [stage = "serving" /\ ~A!Settled /\ A!Settled' => A!InStep']_(A!vars)
  <2> SUFFICES ASSUME FollowerInv, A!Next, stage = "serving", ~A!Settled, A!Settled'
               PROVE  A!InStep'
    OBVIOUS
  <2>0. LastReadHolds /\ DOMAIN thread = Threads
    BY DEF FollowerInv, FollowerTyped
  <2>1. CASE A!OpenArchives \/ A!Watch \/ A!Restart \/ A!Write
    BY <2>1 DEF A!OpenArchives, A!Watch, A!Restart, A!Write, A!Settled
  <2>2. ASSUME NEW t \in Threads, A!Look(t) \/ A!ReadFails(t)
        PROVE  A!InStep'
    BY <2>0, <2>2 DEF A!Look, A!ReadFails, A!Settled
  <2>3. ASSUME NEW t \in Threads, A!Read(t)
        PROVE  A!InStep'
    BY <2>0, <2>3 DEF A!Read, A!Settled, A!InStep
  <2>4. ASSUME NEW t \in Threads, A!Reload(t)
        PROVE  A!InStep'
    <3>1. current /\ \A u \in Threads : u # t => thread[u] = "idle"
      BY <2>0, <2>4 DEF A!Reload, A!Settled
    <3>2. thread[t] = "reading" /\ \A u \in Threads : thread[u] # "changed"
      BY <2>4, <3>1 DEF A!Reload
    <3>3. active = Corrupt \/ names = A!Paths
      BY <2>0, <3>1, <3>2 DEF LastReadHolds
    <3>4. archives' \cup skipped' = names /\ active' = active
      BY <2>4 DEF A!Reload, A!Open
    <3> QED BY <3>3, <3>4 DEF A!InStep, A!Paths
  <2> QED BY <2>1, <2>2, <2>3, <2>4 DEF A!Next, A!Refresh
<1> QED BY <1>1, FollowerSafety, PTL DEF A!Spec, A!SettledInStep

-----------------------------------------------------------------------------
(* H, the harvest of the curricula                                         *)

LEMMA HarvestBounds ==
  IsFiniteSet(Curricula) /\ Tolerated \in Nat /\ MaxChanges \in Nat /\ MaxLapses \in Nat
  BY HarvestAssumption, SameCardinality DEF H!HarvestAssumption

LEMMA NothingIsHeld == H!Nothing \in H!Holdings
  BY DEF H!Nothing, H!Holdings

(* What a query that counts or lists names is of the set it asks for.      *)
LEMMA SeenWithin ==
  ASSUME NEW set, NEW remote \in H!Seen(set)
  PROVE  remote \subseteq set
BY DEF H!Seen

LEMMA HarvestTyped ==
  ASSUME H!TypeOK, [H!Next]_(H!vars)
  PROVE  H!TypeOK'
<1> USE DEF H!TypeOK, H!run, H!Goes, H!Fault, H!Ended
<1>1. \/ H!FindDue \/ H!Check \/ H!CheckFails \/ H!Force
      \/ H!Start \/ H!CountFirst \/ H!List \/ H!Pull \/ H!RefuseAnswer \/ H!Judge \/ H!Commit
      \/ H!WriteOutcome \/ H!Crash
      \/ \E place \in {"failing", "stopping"} : H!Stumble(place)
      \/ H!ChangeMem \/ H!BeginReload \/ H!EndReload \/ H!Age \/ H!Damage
      \/ UNCHANGED H!vars
  BY DEF H!Next
<1> USE DEF H!FindDue, H!Check, H!CheckFails, H!Force, H!Start, H!CountFirst, H!List,
            H!Pull, H!RefuseAnswer, H!Judge, H!Commit, H!WriteOutcome, H!Crash,
            H!Stumble, H!ChangeMem, H!BeginReload, H!EndReload, H!Age, H!Damage, H!vars
<1>2. mem' \subseteq Curricula /\ mem' # {}
  BY <1>1
<1>3. cache' \in H!Holdings
  BY <1>1, NothingIsHeld
<1>4. reloading' \in BOOLEAN /\ health' \in {"sound", "broken", "gone"}
  BY <1>1
<1>5. old' \in BOOLEAN /\ forced' \in BOOLEAN
  BY <1>1
<1>6. harvestStatus' \in [state : {"idle", "running", "error"},
                          lastError : BOOLEAN, checkError : BOOLEAN]
  BY <1>1
<1>7. runAt' \in {"idle", "due", "started", "listing", "building", "failing", "stopping",
                  "committed"}
  BY <1>1
<1>8. left' \subseteq Lands
  BY <1>1
<1>9. todo' \subseteq Curricula
  BY <1>1, SeenWithin
<1>10. draft' \in H!Holdings
  <2>1. CASE H!Pull
    <3>1. PICK answer \in {"whole", "mute", "empty"} :
            draft' = [draft EXCEPT ![H!First(todo)] = answer]
      BY <2>1 DEF H!Answers
    <3> QED BY <3>1 DEF H!Holdings
  <2>2. CASE ~H!Pull
    <3>1. draft' = draft \/ draft' = H!Nothing
      BY <1>1, <2>2
    <3> QED BY <3>1, NothingIsHeld
  <2> QED BY <2>1, <2>2
<1>11. /\ changes' = changes \/ (changes < MaxChanges /\ changes' = changes + 1)
       /\ lapses' = lapses \/ (lapses < MaxLapses /\ lapses' = lapses + 1)
  BY <1>1 DEF H!Unread
<1>12. changes' \in 0 .. MaxChanges /\ lapses' \in 0 .. MaxLapses
  BY <1>11, HarvestBounds
<1>13. before' \subseteq Curricula
  BY <1>1 DEF H!Elements, H!In
<1>14. blind' \subseteq {"counts", "roles", "before"}
  BY <1>1
<1> QED
  BY <1>2, <1>3, <1>4, <1>5, <1>6, <1>7, <1>8, <1>9, <1>10, <1>12, <1>13, <1>14

(* What KeepsWhatItHas asks of a swap, had and has what the cache holds    *)
(* before and after, by the parts of it a run could read.                  *)
CountsKept(had, has) ==
  /\ ~H!Lost(H!Listed(had), H!Listed(has))
  /\ ~H!Lost(H!Elements(had), H!Elements(has))
RolesKept(had, has) == ~H!Lost(H!Matchable(had), H!Matchable(has))
FewEmptied(had, has) ==
  Cardinality({c \in H!Elements(had) : has[c] = "empty"}) <= Tolerated

(* What a run knows of the cache holds until it swaps: only it changes the *)
(* cache, or the cache is lost and there is nothing to keep.               *)
GoneIsEmpty == health = "gone" => cache = H!Nothing

BeforeHolds ==
  runAt = "listing" =>
    "before" \in blind \/ cache = H!Nothing \/ before = H!Elements(cache)

DraftKeeps ==
  runAt = "building" /\ ~forced =>
    /\ "counts" \in blind \/ CountsKept(cache, draft)
    /\ "roles" \in blind \/ RolesKept(cache, draft)
    /\ "before" \in blind \/ FewEmptied(cache, draft)

HarvestInv == H!TypeOK /\ GoneIsEmpty /\ BeforeHolds /\ DraftKeeps

(* From a cache with nothing in it nothing is lost.                        *)
LEMMA NothingToLose ==
  ASSUME NEW has \in H!Holdings
  PROVE  CountsKept(H!Nothing, has) /\ RolesKept(H!Nothing, has)
           /\ FewEmptied(H!Nothing, has)
<1>1. /\ H!Listed(H!Nothing) = {} /\ H!Elements(H!Nothing) = {}
      /\ H!Matchable(H!Nothing) = {}
  BY DEF H!Listed, H!Elements, H!Matchable, H!In, H!Nothing
<1>2. ASSUME NEW set \in SUBSET Curricula PROVE ~H!Lost({}, set)
  <2> SUFFICES ASSUME NEW land \in Lands, H!Count(set, land) * 2 < H!Count({}, land)
               PROVE  FALSE
    BY DEF H!Lost
  <2> DEFINE its == {c \in set : LandOf[c] = land}
             none == {c \in {} : LandOf[c] = land}
  <2>1. its \subseteq Curricula /\ IsFiniteSet(Curricula) /\ none = {}
    BY HarvestBounds
  <2>2. Cardinality(its) \in Nat /\ Cardinality(none) = 0
    BY <2>1, FS_Subset, FS_CardinalityType, FS_EmptySet
  <2>3. H!Count(set, land) = Cardinality(its) /\ H!Count({}, land) = Cardinality(none)
    BY SameCardinality DEF H!Count
  <2> HIDE DEF its, none
  <2> QED BY <2>2, <2>3
<1>3. /\ H!Listed(has) \in SUBSET Curricula /\ H!Elements(has) \in SUBSET Curricula
      /\ H!Matchable(has) \in SUBSET Curricula
  BY DEF H!Listed, H!Elements, H!Matchable, H!In
<1>4. Cardinality({c \in {} : has[c] = "empty"}) = 0
  <2>1. {c \in {} : has[c] = "empty"} = {}
    OBVIOUS
  <2> QED BY <2>1, FS_EmptySet
<1> QED
  BY <1>1, <1>2, <1>3, <1>4, HarvestBounds DEF CountsKept, RolesKept, FewEmptied

LEMMA HarvestBegins == H!Init => HarvestInv
<1> SUFFICES ASSUME H!Init PROVE HarvestInv
  OBVIOUS
<1>1. cache \in H!Holdings /\ draft \in H!Holdings
  BY NothingIsHeld DEF H!Init, H!Holdings
<1>2. changes = 0 /\ lapses = 0
  BY DEF H!Init
<1>3. changes \in 0 .. MaxChanges /\ lapses \in 0 .. MaxLapses
  BY <1>2, HarvestBounds
<1>4. harvestStatus \in [state : {"idle", "running", "error"},
                         lastError : BOOLEAN, checkError : BOOLEAN]
  BY DEF H!Init
<1>5. H!TypeOK
  BY <1>1, <1>3, <1>4 DEF H!Init, H!TypeOK
<1>6. GoneIsEmpty /\ BeforeHolds /\ DraftKeeps
  BY DEF H!Init, GoneIsEmpty, BeforeHolds, DraftKeeps
<1> QED BY <1>5, <1>6 DEF HarvestInv

(* What _refuse_a_loss lets through keeps what the run could read.         *)
LEMMA JudgedKeeps ==
  ASSUME HarvestInv, H!Judge
  PROVE  DraftKeeps'
<1> SUFFICES ASSUME runAt' = "building", ~forced'
             PROVE  /\ "counts" \in blind' \/ CountsKept(cache', draft')
                    /\ "roles" \in blind' \/ RolesKept(cache', draft')
                    /\ "before" \in blind' \/ FewEmptied(cache', draft')
  BY DEF DraftKeeps
<1>1. PICK unread \in SUBSET {"counts", "roles"} :
        /\ ~H!Loss(unread)
        /\ blind' = blind \cup unread
        /\ draft' = draft
  BY DEF H!Judge, H!Goes
<1>2. cache' = cache /\ runAt = "listing"
  BY DEF H!Judge
<1>3. "counts" \in blind' \/ CountsKept(cache', draft')
  BY <1>1, <1>2 DEF H!Loss, CountsKept
<1>4. "roles" \in blind' \/ RolesKept(cache', draft')
  BY <1>1, <1>2 DEF H!Loss, RolesKept
<1>5. "before" \in blind' \/ FewEmptied(cache', draft')
  <2>1. CASE "before" \in blind
    BY <1>1, <2>1
  <2>2. CASE cache = H!Nothing
    BY <1>1, <1>2, <2>2, NothingToLose DEF HarvestInv, H!TypeOK
  <2>3. CASE before = H!Elements(cache)
    <3>1. ~(H!Cardinality(H!Emptied) > Tolerated)
      BY <1>1 DEF H!Loss
    <3>2. H!Emptied = {c \in H!Elements(cache) : draft[c] = "empty"}
      BY <2>3 DEF H!Emptied
    <3>3. IsFiniteSet(H!Emptied)
      <4>1. H!Emptied \subseteq Curricula
        BY <3>2 DEF H!Elements, H!In
      <4> QED BY <4>1, HarvestBounds, FS_Subset
    <3>4. H!Cardinality(H!Emptied) = Cardinality(H!Emptied)
      BY SameCardinality
    <3>5. Cardinality(H!Emptied) \in Nat
      BY <3>3, FS_CardinalityType
    <3>6. Cardinality(H!Emptied) <= Tolerated
      BY <3>1, <3>4, <3>5, HarvestBounds
    <3> QED BY <3>2, <3>6, <1>1, <1>2 DEF FewEmptied
  <2> QED BY <1>2, <2>1, <2>2, <2>3 DEF HarvestInv, BeforeHolds
<1> QED BY <1>3, <1>4, <1>5

LEMMA HarvestKept ==
  ASSUME HarvestInv, [H!Next]_(H!vars)
  PROVE  HarvestInv'
<1>1. H!TypeOK'
  BY HarvestTyped DEF HarvestInv
<1> USE DEF GoneIsEmpty, BeforeHolds, DraftKeeps
<1>0. GoneIsEmpty /\ BeforeHolds /\ DraftKeeps /\ draft' \in H!Holdings
  BY <1>1 DEF HarvestInv, H!TypeOK
<1>2. CASE H!CountFirst
  <2>1. /\ runAt' # "building" /\ UNCHANGED <<cache, health>>
        /\ "before" \in blind' \/ before' = H!Elements(cache')
    BY <1>2 DEF H!CountFirst, H!Elements, H!In
  <2> QED BY <1>0, <1>1, <2>1 DEF HarvestInv
<1>3. CASE H!Judge
  <2>1. runAt' # "listing" /\ UNCHANGED <<cache, health>>
    BY <1>3 DEF H!Judge, H!Goes
  <2> QED BY <1>0, <1>1, <1>3, <2>1, JudgedKeeps DEF HarvestInv
<1>4. CASE H!Damage
  <2>1. CASE cache' = cache
    BY <1>0, <1>1, <1>4, <2>1 DEF H!Damage, H!run, HarvestInv
  <2>2. CASE cache' = H!Nothing
    <3>1. CountsKept(cache', draft') /\ RolesKept(cache', draft')
            /\ FewEmptied(cache', draft')
      BY <1>0, <2>2, NothingToLose
    <3> QED BY <1>1, <2>2, <3>1 DEF HarvestInv
  <2> QED BY <1>4, <2>1, <2>2 DEF H!Damage
<1>5. CASE H!Commit
  BY <1>1, <1>5 DEF H!Commit, H!Goes, HarvestInv
<1>6. CASE H!Start \/ H!RefuseAnswer \/ H!WriteOutcome \/ H!Crash \/ H!FindDue
           \/ H!Check \/ H!Force
           \/ \E place \in {"failing", "stopping"} : H!Stumble(place)
  <2>1. runAt' \notin {"listing", "building"} /\ UNCHANGED <<cache, health>>
    BY <1>6 DEF H!Start, H!RefuseAnswer, H!WriteOutcome, H!Crash, H!FindDue, H!Check,
                H!Force, H!Stumble, H!Goes, H!Ended
  <2> QED BY <1>0, <1>1, <2>1 DEF HarvestInv
<1>7. CASE H!List \/ H!Pull
  <2>1. runAt' = "listing" /\ UNCHANGED <<cache, health, before, blind>> /\ runAt = runAt'
    BY <1>7 DEF H!List, H!Pull
  <2> QED BY <1>0, <1>1, <2>1 DEF HarvestInv
<1>8. CASE H!CheckFails \/ H!ChangeMem \/ H!BeginReload \/ H!EndReload \/ H!Age
           \/ UNCHANGED H!vars
  <2>1. UNCHANGED <<cache, health, runAt, forced, draft, before, blind>>
    BY <1>8 DEF H!CheckFails, H!ChangeMem, H!BeginReload, H!EndReload, H!Age, H!run,
                H!vars
  <2> QED BY <1>0, <1>1, <2>1 DEF HarvestInv
<1> QED
  BY <1>2, <1>3, <1>4, <1>5, <1>6, <1>7, <1>8 DEF H!Next

LEMMA HarvestSafety == H!Spec => []HarvestInv
BY HarvestBegins, HarvestKept, PTL DEF H!Spec

LEMMA NothingIsLost == H!Spec => H!KeepsWhatItHas
<1>1. ASSUME HarvestInv, H!Next, cache' # cache, health' = "sound", ~forced
      PROVE  /\ "counts" \in blind \/ CountsKept(cache, cache')
             /\ "roles" \in blind \/ RolesKept(cache, cache')
             /\ "before" \in blind \/ FewEmptied(cache, cache')
  <2>1. H!Commit
    BY <1>1 DEF H!Next, H!FindDue, H!Check, H!CheckFails, H!Force, H!Start, H!CountFirst,
       H!List, H!Pull, H!RefuseAnswer, H!Judge, H!WriteOutcome, H!Crash, H!Stumble,
       H!ChangeMem, H!BeginReload, H!EndReload, H!Age, H!Damage
  <2>2. runAt = "building" /\ cache' = draft
    BY <2>1 DEF H!Commit
  <2> QED BY <1>1, <2>2 DEF HarvestInv, DraftKeeps
<1>2. HarvestInv /\ [H!Next]_(H!vars)
        => [cache' # cache /\ health' = "sound" /\ ~forced =>
             /\ "counts" \in blind \/ CountsKept(cache, cache')
             /\ "roles" \in blind \/ RolesKept(cache, cache')
             /\ "before" \in blind \/ FewEmptied(cache, cache')]_(H!vars)
  BY <1>1
<1>3. ASSUME [cache' # cache /\ health' = "sound" /\ ~forced =>
               /\ "counts" \in blind \/ CountsKept(cache, cache')
               /\ "roles" \in blind \/ RolesKept(cache, cache')
               /\ "before" \in blind \/ FewEmptied(cache, cache')]_(H!vars)
      PROVE  [cache' # cache /\ health' = "sound" /\ ~forced =>
               /\ "counts" \in blind \/ /\ ~H!Lost(H!Listed(cache), H!Listed(cache'))
                                        /\ ~H!Lost(H!Elements(cache), H!Elements(cache'))
               /\ "roles" \in blind \/ ~H!Lost(H!Matchable(cache), H!Matchable(cache'))
               /\ "before" \in blind
                    \/ H!Cardinality({c \in H!Elements(cache) : cache'[c] = "empty"})
                         <= Tolerated]_(H!vars)
  BY <1>3, SameCardinality DEF CountsKept, RolesKept, FewEmptied
<1> QED BY <1>2, <1>3, HarvestSafety, PTL DEF H!Spec, H!KeepsWhatItHas

-----------------------------------------------------------------------------
(* The sync of an index: the index file refines IndexFile, and a success   *)
(* is only reported with its release in place.                             *)

(* A process between its lock and its release of it.                       *)
Busy(p) == pc[p] \notin {"idle", "due"}

(* The lock is the one thing that keeps the sync and a build by hand       *)
(* apart: a lock goes stale only when its process is dead.                 *)
LockHeld == \A p \in Processes : Busy(p) => lock = p

(* What a process writes is the .part file there is, of its release.       *)
PartKnown ==
  \A p \in Processes :
    /\ pc[p] \in {"found", "downloaded", "building", "built"}
         => release[p] \in Releases
    /\ pc[p] \in {"building", "built"} => part.by = p /\ part.of = release[p]
    /\ pc[p] = "built" => part.whole

(* The run that is about to report success put its release in place.       *)
RunInPlace == pc[Loop] \in {"swapped", "cleaned"} => index = release[Loop]

IInv == TypeOK /\ LockHeld /\ PartKnown /\ RunInPlace

LEMMA InitEstablishes == Init => IInv
  BY DumpAssumption
     DEF Init, IInv, TypeOK, LockHeld, PartKnown, RunInPlace, Busy, Parts, Statuses,
         Releases, Processes, Loop, Hand, NoRelease, NoPart

(* Two processes are never busy at once.                                   *)
LEMMA OneBusy ==
  ASSUME LockHeld, NEW p \in Processes, Busy(p),
         NEW q \in Processes, Busy(q)
  PROVE  p = q
  BY DEF LockHeld

USE DEF Processes, Loop, Hand, Goes, Fault, Busy, files, world

(* The steps of a process that leave the index and the .part file alone.   *)
LEMMA QuietStep ==
  ASSUME IInv,
         \/ FindDue \/ CheckCurrent \/ CheckFails \/ Acquire \/ MarkRunning
         \/ Find \/ Download \/ Clean \/ WriteOutcome \/ WriteFails
         \/ \E p \in Processes : Release(p) \/ Crash(p)
         \/ BuildByHand
  PROVE  IInv'
<1>1. TypeOK'
  <2>1. CASE FindDue \/ Acquire
    BY <2>1 DEF IInv, TypeOK, FindDue, Acquire
  <2>2. CASE CheckCurrent \/ CheckFails
    <3>1. status' \in Statuses
      BY <2>2, DumpAssumption
         DEF IInv, TypeOK, CheckCurrent, CheckFails, Recorded, Statuses, Releases,
             NoRelease
    <3>2. faults' \in 0 .. MaxFaults
      BY <2>2, DumpAssumption DEF IInv, TypeOK, CheckCurrent, CheckFails
    <3> QED
      BY <2>2, <3>1, <3>2 DEF IInv, TypeOK, CheckCurrent, CheckFails
  <2>3. CASE MarkRunning \/ Find \/ Download \/ Clean
    BY <2>3, DumpAssumption
       DEF IInv, TypeOK, MarkRunning, Find, Download, Clean, Statuses, Releases,
           PartKnown, LockHeld
  <2>4. CASE WriteOutcome
    <3>1. status' \in Statuses
      BY <2>4 DEF IInv, TypeOK, WriteOutcome, Statuses
    <3> QED
      BY <2>4, <3>1 DEF IInv, TypeOK, WriteOutcome
  <2>5. CASE WriteFails
    BY <2>5, DumpAssumption DEF IInv, TypeOK, WriteFails
  <2>6. CASE \E p \in Processes : Release(p) \/ Crash(p)
    BY <2>6, DumpAssumption DEF IInv, TypeOK, Release, Crash, NoRelease
  <2>7. CASE BuildByHand
    BY <2>7, DumpAssumption DEF IInv, TypeOK, BuildByHand, Releases
  <2> QED BY <2>1, <2>2, <2>3, <2>4, <2>5, <2>6, <2>7
<1>2. LockHeld'
  BY DEF IInv, TypeOK, LockHeld, FindDue, CheckCurrent, CheckFails, Acquire,
         MarkRunning, Find, Download, Clean, WriteOutcome, WriteFails, Release, Crash,
         BuildByHand
<1>3. PartKnown'
  <2>1. CASE Find
    BY <2>1 DEF IInv, TypeOK, PartKnown, Find
  <2>2. CASE BuildByHand
    BY <2>2, DumpAssumption DEF IInv, TypeOK, PartKnown, BuildByHand, Releases
  <2>3. CASE \E p \in Processes : Release(p) \/ Crash(p)
    BY <2>3 DEF IInv, TypeOK, PartKnown, Release, Crash
  <2>4. CASE \/ FindDue \/ CheckCurrent \/ CheckFails \/ Acquire \/ MarkRunning
             \/ Download \/ Clean \/ WriteOutcome \/ WriteFails
    BY <2>4 DEF IInv, TypeOK, PartKnown, FindDue, CheckCurrent, CheckFails, Acquire,
                MarkRunning, Download, Clean, WriteOutcome, WriteFails
  <2> QED BY <2>1, <2>2, <2>3, <2>4
<1>4. RunInPlace'
  BY DEF IInv, TypeOK, RunInPlace, FindDue, CheckCurrent, CheckFails, Acquire,
         MarkRunning, Find, Download, Clean, WriteOutcome, WriteFails, Release, Crash,
         BuildByHand
<1> QED BY <1>1, <1>2, <1>3, <1>4 DEF IInv

(* The steps that write the .part file, put it in place or remove it: only *)
(* its process is busy.                                                    *)
LEMMA BuildStep ==
  ASSUME IInv, NEW p \in Processes,
         \/ BeginPart(p) \/ EndPart(p) \/ Swap(p)
         \/ p = Loop /\ \E place \in {"failing", "stopping"} : Stumble(place)
         \/ p = Hand /\ HandFails
  PROVE  IInv' /\ [File!Replace]_index
<1>1. \A q \in Processes : q # p => pc[q] \in {"idle", "due"} /\ pc'[q] = pc[q]
  BY OneBusy DEF IInv, TypeOK, LockHeld, BeginPart, EndPart, Swap, Stumble, HandFails
<1>2. TypeOK'
  <2>1. CASE BeginPart(p)
    BY <2>1 DEF IInv, TypeOK, PartKnown, BeginPart, Parts
  <2>2. CASE EndPart(p)
    BY <2>2 DEF IInv, TypeOK, EndPart, Parts
  <2>3. CASE Swap(p)
    BY <2>3 DEF IInv, TypeOK, PartKnown, Swap, Parts
  <2>4. CASE \E place \in {"failing", "stopping"} : Stumble(place)
    BY <2>4, DumpAssumption DEF IInv, TypeOK, Stumble, Parts
  <2>5. CASE HandFails
    BY <2>5, DumpAssumption DEF IInv, TypeOK, HandFails, Parts
  <2> QED BY <2>1, <2>2, <2>3, <2>4, <2>5
<1>3. LockHeld'
  BY DEF IInv, TypeOK, LockHeld, BeginPart, EndPart, Swap, Stumble, HandFails
<1>4. PartKnown'
  BY <1>1 DEF IInv, TypeOK, PartKnown, Parts, BeginPart, EndPart, Swap, Stumble,
              HandFails
<1>5. RunInPlace'
  BY <1>1 DEF IInv, TypeOK, PartKnown, RunInPlace, BeginPart, EndPart, Swap, Stumble,
              HandFails
<1>6. [File!Replace]_index
  <2>1. CASE Swap(p)
    <3>1. part.of \in Releases /\ part.whole
      BY <2>1 DEF IInv, PartKnown, Swap
    <3>2. index' = part.of
      BY <2>1, <3>1 DEF Swap
    <3> QED BY <3>1, <3>2 DEF File!Replace
  <2>2. CASE ~Swap(p)
    BY <2>2 DEF BeginPart, EndPart, Stumble, HandFails
  <2> QED BY <2>1, <2>2
<1> QED BY <1>2, <1>3, <1>4, <1>5, <1>6 DEF IInv

(* Releases, archives, damaged pages, and the lock of a dead process.      *)
LEMMA WorldStep ==
  ASSUME IInv, Publish \/ Activate \/ Damage \/ Stale
  PROVE  IInv'
<1>1. TypeOK'
  <2>1. newest' \in Releases /\ faults' \in 0 .. MaxFaults
    BY DumpAssumption DEF IInv, TypeOK, Releases, Publish, Activate, Damage, Stale
  <2>2. archive' \in 0 .. MaxRelease + 1
    <3>1. newest \in 1 .. MaxRelease /\ archive \in 0 .. MaxRelease + 1
      BY DEF IInv, TypeOK, Releases
    <3>2. archive' = archive \/ archive' \in 0 .. newest + 1
      BY DEF Publish, Activate, Damage, Stale
    <3> QED BY <3>1, <3>2, DumpAssumption
  <2> QED
    BY <2>1, <2>2 DEF IInv, TypeOK, Publish, Activate, Damage, Stale
<1>2. LockHeld'
  BY DEF IInv, LockHeld, Publish, Activate, Damage, Stale
<1>3. PartKnown' /\ RunInPlace'
  BY DEF IInv, PartKnown, RunInPlace, Publish, Activate, Damage, Stale
<1> QED BY <1>1, <1>2, <1>3 DEF IInv

(* The index only changes when a whole one takes its place.                *)
LEMMA Inductive ==
  ASSUME IInv, [Next]_vars
  PROVE  IInv' /\ [File!Replace]_index
<1>1. CASE UNCHANGED vars
  BY <1>1 DEF IInv, TypeOK, LockHeld, PartKnown, RunInPlace, vars
<1>2. CASE Publish \/ Activate \/ Damage \/ Stale
  BY <1>2, WorldStep DEF Publish, Activate, Damage, Stale
<1>3. CASE \/ \E p \in Processes : BeginPart(p) \/ EndPart(p) \/ Swap(p)
           \/ \E place \in {"failing", "stopping"} : Stumble(place)
           \/ HandFails
  BY <1>3, BuildStep
<1>4. CASE \/ FindDue \/ CheckCurrent \/ CheckFails \/ Acquire \/ MarkRunning
           \/ Find \/ Download \/ Clean \/ WriteOutcome \/ WriteFails
           \/ \E p \in Processes : Release(p) \/ Crash(p)
           \/ BuildByHand
  <2>1. UNCHANGED index
    BY <1>4 DEF FindDue, CheckCurrent, CheckFails, Acquire, MarkRunning, Find, Download,
                Clean, WriteOutcome, WriteFails, Release, Crash, BuildByHand
  <2> QED BY <1>4, <2>1, QuietStep
<1> QED BY <1>1, <1>2, <1>3, <1>4 DEF Next

(* What holds of the index file, the .part file, the status and the lock   *)
(* at every moment (app/sources/dump_sync.py, local_index.py).             *)
THEOREM SyncSafety == Spec => []IInv
<1>1. IInv /\ [Next]_vars => IInv'
  BY Inductive
<1> QED BY InitEstablishes, <1>1, PTL DEF Spec

(* The index sync implements what it promises the workers: the file they   *)
(* read is replaced by whole indexes and never goes away                   *)
(* (local_index.py, write_atomically).                                     *)
THEOREM SyncImplements == Spec => Implements
<1>1. Init => File!Init
  BY DumpAssumption DEF Init, File!Init, Releases, NoRelease
<1>2. IInv /\ [Next]_vars => [File!Replace]_index
  BY Inductive
<1> QED BY <1>1, <1>2, SyncSafety, PTL DEF Spec, Implements, File!Spec

(* A success in the status means the release is in place (dump_sync.py).   *)
THEOREM SuccessIsInPlace == Spec => ReportsWhatIsThere
<1> DEFINE Reported == status'.state = "idle" /\ status'.ok = "yes" /\ status' # status
<1>1. IInv /\ [Next]_vars => [Reported => index >= status'.of]_vars
  <2> SUFFICES ASSUME IInv, Next, Reported
               PROVE  index >= status'.of
    OBVIOUS
  <2>1. CASE CheckCurrent
    BY <2>1 DEF CheckCurrent, Recorded, Asked, Behind, IInv, TypeOK, Releases, NoRelease
  <2>2. CASE WriteOutcome
    BY <2>2 DEF WriteOutcome, IInv, TypeOK, RunInPlace, Releases, NoRelease
  <2>3. CheckCurrent \/ WriteOutcome
    BY DEF Next, FindDue, CheckFails, Recorded, Acquire, MarkRunning, Find, Download,
           BeginPart, EndPart, Swap, Release, Crash, Clean, WriteFails, Stumble,
           BuildByHand, HandFails, Publish, Activate, Damage, Stale, IInv, TypeOK, Statuses
  <2> QED BY <2>1, <2>2, <2>3
<1> QED BY <1>1, SyncSafety, PTL DEF Spec, ReportsWhatIsThere

HIDE DEF Processes, Loop, Hand, Goes, Fault, Busy, files, world

-----------------------------------------------------------------------------
(* The whole                                                               *)

USE DEF ForFollower, ForDump, ForHarvest, ForLoop, ForTemplates, dump

(* A step of the whole is one of every part, or leaves the part alone.     *)
LEMMA FollowerStep == [SystemNext]_systemVars => [A!Next]_(A!vars)
<1> SUFFICES ASSUME [SystemNext]_systemVars PROVE A!Next \/ UNCHANGED A!vars
  OBVIOUS
<1> USE DEF A!vars, A!worker, follower
<1>1. CASE FollowerNext
  BY <1>1 DEF FollowerNext, A!Next, A!Refresh
<1>2. CASE TemplatesNext \/ DumpNext \/ HarvestNext \/ LoopNext \/ UNCHANGED systemVars
  BY <1>2 DEF TemplatesNext, DumpNext, HarvestNext, LoopNext, systemVars
<1> QED BY <1>1, <1>2 DEF SystemNext

LEMMA DumpStep == [SystemNext]_systemVars => [Next]_vars
<1> SUFFICES ASSUME [SystemNext]_systemVars PROVE Next \/ UNCHANGED vars
  OBVIOUS
<1>1. CASE DumpNext
  BY <1>1 DEF DumpNext, Next
<1>2. CASE TemplatesNext \/ FollowerNext \/ HarvestNext \/ LoopNext \/ UNCHANGED systemVars
  BY <1>2 DEF TemplatesNext, FollowerNext, HarvestNext, LoopNext, systemVars
<1> QED BY <1>1, <1>2 DEF SystemNext

LEMMA HarvestStep == [SystemNext]_systemVars => [H!Next]_(H!vars)
<1> SUFFICES ASSUME [SystemNext]_systemVars PROVE H!Next \/ UNCHANGED H!vars
  OBVIOUS
<1> USE DEF H!vars, H!run, harvest
<1>1. CASE HarvestNext
  BY <1>1 DEF HarvestNext, H!Next
<1>2. CASE TemplatesNext \/ FollowerNext \/ DumpNext \/ LoopNext \/ UNCHANGED systemVars
  BY <1>2 DEF TemplatesNext, FollowerNext, DumpNext, LoopNext, systemVars
<1> QED BY <1>1, <1>2 DEF SystemNext

LEMMA LoopStepped == [SystemNext]_systemVars => [J!Next]_(J!vars)
<1> SUFFICES ASSUME [SystemNext]_systemVars PROVE J!Next \/ UNCHANGED J!vars
  OBVIOUS
<1> USE DEF J!vars, loop
<1>1. CASE LoopNext
  BY <1>1 DEF LoopNext, J!Next
<1>2. CASE TemplatesNext \/ FollowerNext \/ DumpNext \/ HarvestNext \/ UNCHANGED systemVars
  BY <1>2 DEF TemplatesNext, FollowerNext, DumpNext, HarvestNext, systemVars
<1> QED BY <1>1, <1>2 DEF SystemNext

LEMMA TemplatesStep == [SystemNext]_systemVars => [T!Next]_(T!vars)
<1> SUFFICES ASSUME [SystemNext]_systemVars PROVE T!Next \/ UNCHANGED T!vars
  OBVIOUS
<1> USE DEF T!vars, T!stored, T!client, templates
<1>1. CASE TemplatesNext
  BY <1>1 DEF TemplatesNext, T!Next, T!Read, T!Write
<1>2. CASE FollowerNext \/ DumpNext \/ HarvestNext \/ LoopNext \/ UNCHANGED systemVars
  BY <1>2 DEF FollowerNext, DumpNext, HarvestNext, LoopNext, systemVars
<1> QED BY <1>1, <1>2 DEF SystemNext

(* Every behaviour of the whole is one of each part: what Data runs        *)
(* together are the parts, none of them bent.                              *)
THEOREM RunsEveryPart ==
  SystemSpec => A!Spec /\ Spec /\ H!Spec /\ J!Spec /\ T!Spec
<1>1. SystemInit => A!Init /\ Init /\ H!Init /\ J!Init /\ T!Init
  BY DEF SystemInit
<1> QED
  BY <1>1, FollowerStep, DumpStep, HarvestStep, LoopStepped, TemplatesStep, PTL
     DEF SystemSpec, A!Spec, Spec, H!Spec, J!Spec, T!Spec

(* What the updaters and the workers keep of the data is always of the     *)
(* kind its module declares (app/jobs, app/sources, app/templates).        *)
THEOREM DataTyped == SystemSpec => []TypesOK
<1>1. FollowerInv /\ IInv /\ HarvestInv /\ RequestPending /\ TInv => TypesOK
  BY FollowerIsTyped DEF IInv, HarvestInv, RequestPending, TInv, TypesOK
<1> QED
  BY <1>1, RunsEveryPart, FollowerSafety, SyncSafety, HarvestSafety, LoopSafety,
     TemplatesSafety, PTL

(* A run that the API asks for waits for one sleep of the updater at most  *)
(* (jobs/runner.py, run_periodically): a trigger file written while a task *)
(* runs, or in the moment one begins, is seen before the next sleep.       *)
THEOREM RequestsRunSoon == SystemSpec => []RequestRunsSoon
<1>1. RequestPending => RequestRunsSoon
  BY DEF RequestPending, RequestRunsSoon, J!RequestRunsSoon
<1> QED BY <1>1, RunsEveryPart, LoopSafety, PTL

(* Each archive active.json names is served, or was found not to open, by  *)
(* a worker that has just nothing left to read (sources/zim/refresh.py,    *)
(* registry.py:42-45): no thread puts an older list over a newer one, no   *)
(* failed read counts as seen.                                             *)
THEOREM WorkersServeWhatIsNamed == SystemSpec => SettledInStep
BY RunsEveryPart, SettledServes, PTL DEF SettledInStep

(* A harvest nobody forced costs no state more than half of what the cache *)
(* has of it at the swap, a run after the first look, nor more than a few  *)
(* curricula their elements, for any states, whatever MEM answers and      *)
(* breaks meanwhile - but for what the run could not read to compare       *)
(* (sources/lehrplan/harvest.py, store.py).                                *)
THEOREM CacheKeeps == SystemSpec => KeepsWhatItHas
BY RunsEveryPart, NothingIsLost, PTL DEF KeepsWhatItHas

(* A read of a template answers with a text its file held since the        *)
(* request came, whatever the other threads and workers do                 *)
(* (app/templates/manager.py, _custom).                                    *)
THEOREM FreshReads == SystemSpec => []ReadsAreFresh
<1>1. TInv => ReadsAreFresh
  BY DEF TInv, ReadsFollow, ReadsAreFresh, T!ReadsAreFresh
<1> QED BY <1>1, RunsEveryPart, TemplatesSafety, PTL

(* A write with If-Match replaces the very text its draft was read from,   *)
(* while no deletion ended between its unlink and its note (manager.py,    *)
(* save, delete).                                                          *)
THEOREM DraftsMeetTheirText == SystemSpec => NoLostUpdate
BY RunsEveryPart, NoUpdateLost, PTL DEF NoLostUpdate
=============================================================================
