---------------------------- MODULE ZimSyncProofs ----------------------------
(***************************************************************************)
(* The theorems of module ZimSync: for any subscriptions, profiles, dumps, *)
(* retention, room on the volume and number of faults.                     *)
(***************************************************************************)
EXTENDS ZimSync, WellFoundedInduction, FiniteSetTheorems, TLAPS

-----------------------------------------------------------------------------
(* The newest of some dumps                                                *)

Less == {p \in Nat \X Nat : p[1] < p[2]}

LEMMA LessWellFounded == IsWellFoundedOn(Less, Nat)
<1>1. OpToRel(<, Nat) = Less
  BY DEF OpToRel, Less
<1> QED BY <1>1, NatLessThanWellFounded, Zenon

LEMMA Smallest ==
  ASSUME NEW T, T \subseteq Nat, T # {}
  PROVE  \E t \in T : \A u \in T : t <= u
<1>1. PICK t \in T : \A u \in T : ~(<<u, t>> \in Less)
  BY LessWellFounded, WFMin
<1>2. \A u \in T : u < t => <<u, t>> \in Less
  BY DEF Less
<1>3. \A u \in T : ~(u < t)
  BY <1>1, <1>2
<1> QED BY <1>3

LEMMA MaxIsIn ==
  ASSUME NEW n \in Nat, NEW S \in SUBSET (0 .. n), S # {}
  PROVE  Max(S) \in S
<1> DEFINE T == {n - x : x \in S}
<1>1. \A x \in S : x \in Nat /\ n - x \in Nat
  OBVIOUS
<1>2. \A u \in T : \E x \in S : u = n - x
  OBVIOUS
<1>3. \A x \in S : n - x \in T
  OBVIOUS
<1> HIDE DEF T
<1>4. T \subseteq Nat
  BY <1>1, <1>2
<1>5. T # {}
  BY <1>3
<1>6. PICK t \in T : \A u \in T : t <= u
  BY <1>4, <1>5, Smallest
<1>7. PICK m \in S : t = n - m
  BY <1>2
<1>8. \A x \in S : m >= x
  BY <1>1, <1>3, <1>6, <1>7
<1> QED BY <1>8 DEF Max

-----------------------------------------------------------------------------
(* Files, and the states of active.json                                    *)

LEMMA FileIsPair ==
  ASSUME NEW f \in Files
  PROVE  /\ f = <<f[1], f[2]>> /\ f[1] \in Subs
         /\ f[2] \in 1 .. Offers[f[1]] /\ f[2] \in Nat \ {0}
BY ZimAssumption DEF Files

LEMMA OfferIsFile ==
  ASSUME NEW s \in Subs, NEW d \in 1 .. Offers[s]
  PROVE  <<s, d>> \in Files
BY DEF Files

LEMMA NewestIsFile ==
  ASSUME NEW s \in Subs, NEW G \in SUBSET FilesOf(s), G # {}
  PROVE  <<s, Max({Dump(f) : f \in G})>> \in G
<1> DEFINE S == {Dump(f) : f \in G}
<1>1. Offers[s] \in Nat
  BY ZimAssumption
<1>2. \A f \in G : f = <<s, f[2]>> /\ f[2] \in 0 .. Offers[s]
  BY FileIsPair DEF FilesOf
<1>3. \A d \in S : d \in 0 .. Offers[s]
  BY <1>2 DEF Dump
<1>4. \A d \in S : <<s, d>> \in G
  BY <1>2 DEF Dump
<1>5. S # {}
  OBVIOUS
<1> HIDE DEF S
<1>6. Max(S) \in S
  BY <1>1, <1>3, <1>5, MaxIsIn
<1>7. <<s, Max(S)>> \in G
  BY <1>4, <1>6
<1> QED BY <1>7 DEF S

LEMMA StateParts ==
  ASSUME NEW st \in States
  PROVE  /\ st.archives \in [Subs -> Nat]
         /\ \A s \in Subs : st.archives[s] = None \/ <<s, st.archives[s]>> \in Files
         /\ st.retired \subseteq Files \X (0 .. Retention)
         /\ st.unreadable \subseteq Files /\ st.profile \in Profiles
         /\ st # Missing /\ st # Corrupt
BY MissingAssumption DEF States

LEMMA ActiveIsFile ==
  ASSUME NEW st \in States
  PROVE  /\ Active(st) \subseteq Files
         /\ \A f \in Files : f \in Active(st) <=> st.archives[f[1]] = f[2]
<1>1. \A f \in Active(st) : \E s \in Subs : st.archives[s] # None /\ f = <<s, st.archives[s]>>
  BY DEF Active
<1>2. \A s \in Subs : st.archives[s] # None => <<s, st.archives[s]>> \in Active(st)
  BY DEF Active
<1>3. Active(st) \subseteq Files
  BY <1>1, StateParts
<1>4. ASSUME NEW f \in Files
      PROVE  f \in Active(st) <=> st.archives[f[1]] = f[2]
  <2>1. f[1] \in Subs /\ f = <<f[1], f[2]>> /\ f[2] # None
    BY FileIsPair DEF None
  <2> QED BY <1>1, <1>2, <2>1
<1> QED BY <1>3, <1>4

LEMMA RetiredIsFile ==
  ASSUME NEW st \in States
  PROVE  RetiredFiles(st) \subseteq Files
BY StateParts DEF RetiredFiles

LEMMA RetireIsTimed ==
  ASSUME NEW F \in SUBSET Files
  PROVE  Retire(F) \subseteq Files \X (0 .. Retention)
BY ZimAssumption DEF Retire

(* What a run saves when an archive becomes active.                        *)
LEMMA SwitchIsState ==
  ASSUME NEW st \in States, NEW f \in Files, NEW R \in SUBSET Files
  PROVE  [st EXCEPT !.archives[f[1]] = f[2], !.retired = @ \cup Retire(R)] \in States
<1>1. f[1] \in Subs /\ f = <<f[1], f[2]>> /\ f[2] \in Nat
  BY FileIsPair
<1>2. Retire(R) \subseteq Files \X (0 .. Retention)
  BY RetireIsTimed
<1> QED BY <1>1, <1>2 DEF States

LEMMA ReadableIsState ==
  ASSUME NEW st \in States, NEW U
  PROVE  [st EXCEPT !.unreadable = @ \ U] \in States
BY DEF States

LEMMA OlderIsState ==
  ASSUME NEW st \in States
  PROVE  /\ Older(st) \in States /\ Older(st).archives = st.archives
         /\ RetiredFiles(Older(st)) = RetiredFiles(st)
<1> DEFINE left(n) == IF n = 0 THEN 0 ELSE n - 1
           aged == {<<r[1], left(r[2])>> : r \in st.retired}
<1>1. \A r \in st.retired : r[1] \in Files /\ r[2] \in 0 .. Retention
  BY StateParts
<1>2. \A n \in 0 .. Retention : left(n) \in 0 .. Retention
  BY ZimAssumption
<1>3. Older(st) = [st EXCEPT !.retired = aged]
  BY DEF Older
<1> HIDE DEF left
<1>4. ASSUME NEW r \in st.retired
      PROVE  <<r[1], left(r[2])>> \in Files \X (0 .. Retention)
  BY <1>1, <1>2
<1>5. aged \subseteq Files \X (0 .. Retention)
  BY <1>4
<1>6. \A a \in aged : \E r \in st.retired : a[1] = r[1]
  OBVIOUS
<1>7. ASSUME NEW r \in st.retired
      PROVE  \E a \in aged : a[1] = r[1]
  <2>1. <<r[1], left(r[2])>> \in aged
    OBVIOUS
  <2> QED BY <2>1
<1> HIDE DEF aged
<1>8. Older(st).retired = aged /\ Older(st).archives = st.archives
  BY <1>3 DEF States
<1>9. {a[1] : a \in aged} = {r[1] : r \in st.retired}
  BY <1>6, <1>7
<1> QED BY <1>3, <1>5, <1>8, <1>9 DEF States, RetiredFiles

-----------------------------------------------------------------------------
(* A clean-up keeps what is active, and lists no archive it did not find   *)
(* listed.                                                                 *)

LEMMA CleanUpKeeps ==
  ASSUME TypeOK, NEW st \in States, CleanUp(st)
  PROVE  /\ state' \in States /\ state'.archives = st.archives
         /\ RetiredFiles(state') \subseteq RetiredFiles(st)
         /\ disk' \in [Files -> {"absent", "whole", "torn"}]
         /\ \A f \in Files : disk'[f] # disk[f] => f \in Doomed(st) /\ disk'[f] = "absent"
         /\ parts' \subseteq parts
         /\ faults' \in 0 .. MaxFaults
<1> PICK failed \in SUBSET (Doomed(st) \cup DeadParts(st)) :
      /\ failed # {} => faults < MaxFaults
      /\ faults' = IF failed # {} THEN faults + 1 ELSE faults
      /\ disk' = [f \in Files |-> IF f \in Doomed(st) \ failed THEN "absent" ELSE disk[f]]
      /\ parts' = parts \ (DeadParts(st) \ failed)
      /\ state' = [st EXCEPT !.retired =
                     {r \in @ : r \in Due(st) => r[1] \in Doomed(st) \cap failed}]
  BY DEF CleanUp
<1>1. state' \in States /\ state'.archives = st.archives
  BY DEF States
<1>2. state'.retired \subseteq st.retired
  BY DEF States
<1>3. RetiredFiles(state') \subseteq RetiredFiles(st)
  BY <1>2 DEF RetiredFiles
<1>4. /\ disk' \in [Files -> {"absent", "whole", "torn"}]
      /\ \A f \in Files : disk'[f] # disk[f] => f \in Doomed(st) /\ disk'[f] = "absent"
  BY DEF TypeOK
<1>5. faults' \in 0 .. MaxFaults
  BY ZimAssumption DEF TypeOK
<1> QED BY <1>1, <1>3, <1>4, <1>5

LEMMA SettledIsState ==
  ASSUME TypeOK
  PROVE  Settled \in States
<1> DEFINE others == {f \in Active(state) : f[1] \notin Wants[profile]}
           kept == [s \in Subs |-> IF s \in Wants[profile] THEN state.archives[s] ELSE None]
<1>1. state \in States
  BY DEF TypeOK
<1>2. Retire(others) \subseteq Files \X (0 .. Retention)
  BY <1>1, ActiveIsFile, RetireIsTimed
<1>3. /\ kept \in [Subs -> Nat]
      /\ \A s \in Subs : kept[s] = None \/ <<s, kept[s]>> \in Files
  BY <1>1, StateParts DEF None
<1>4. [state EXCEPT !.archives = kept, !.retired = @ \cup Retire(others)] \in States
  BY <1>1, <1>2, <1>3 DEF States
<1> QED BY <1>1, <1>4 DEF Settled

-----------------------------------------------------------------------------
(* Types                                                                   *)

LEMMA InitTyped == Init => TypeOK
<1> SUFFICES ASSUME Init PROVE TypeOK
  OBVIOUS
<1>1. \E f \in Files : TRUE
  <2> PICK s \in Subs : TRUE
    BY ZimAssumption
  <2>1. 1 \in 1 .. Offers[s]
    BY ZimAssumption
  <2> QED BY <2>1, OfferIsFile
<1>2. target \in Files
  BY <1>1 DEF Init
<1>3. \A s \in Subs : latest[s] \in 0 .. Offers[s]
  BY ZimAssumption DEF Init
<1>4. Fresh \in States
  BY DEF Init, Fresh, States, None
<1>5. Cardinality(judged) <= 1
  BY FS_EmptySet DEF Init
<1>6. faults \in 0 .. MaxFaults
  BY ZimAssumption DEF Init
<1> QED BY <1>2, <1>3, <1>4, <1>5, <1>6 DEF Init, TypeOK

LEMMA FreshIsState ==
  ASSUME TypeOK
  PROVE  Fresh \in States
BY DEF TypeOK, Fresh, States, None

(* A finished file has no .part beside it.                                 *)
PartsUnfinished == \A f \in parts : disk[f] # "whole"

LEMMA PartsKept ==
  ASSUME TypeOK, PartsUnfinished, [Next]_vars
  PROVE  PartsUnfinished'
<1>1. CASE Clean \/ Finish
  <2>1. state \in States /\ Settled \in States
    BY SettledIsState DEF TypeOK
  <2> QED BY <1>1, <2>1, CleanUpKeeps DEF Clean, Finish, PartsUnfinished, TypeOK
<1>2. CASE Downloaded \/ DownloadFails \/ DropUnreadable \/ Delete
  BY <1>2 DEF Downloaded, DownloadFails, DropUnreadable, Delete, PartsUnfinished, TypeOK
<1>3. ASSUME NEW s \in Subs, Download(s)
      PROVE  PartsUnfinished'
  BY <1>3 DEF Download, Complete, PartsUnfinished
<1>4. ASSUME NEW f \in Files, Damage(f)
      PROVE  PartsUnfinished'
  BY <1>4 DEF Damage, PartsUnfinished, TypeOK
<1>5. CASE UNCHANGED <<disk, parts>>
  BY <1>5 DEF PartsUnfinished
<1>6. CASE \/ Begin \/ Adopted \/ Activate \/ NoteUnreadable \/ Updated \/ End
           \/ Crash \/ Lose \/ ChangeProfile \/ Tick \/ DownloadLost \/ FindNoSync
           \/ UNCHANGED vars
  BY <1>5, <1>6 DEF Begin, Adopted, Activate, NoteUnreadable, Updated, End, Crash,
     Lose, ChangeProfile, Tick, DownloadLost, FindNoSync, vars
<1>7. ASSUME NEW s \in Subs,
             AdoptNothing(s) \/ Adopt(s) \/ UpdateNothing(s) \/ UpdateFails(s) \/ Publish(s)
      PROVE  PartsUnfinished'
  BY <1>5, <1>7 DEF AdoptNothing, Adopt, UpdateNothing, UpdateFails, Publish
<1>8. ASSUME NEW f \in Files, JudgeUnused(f)
      PROVE  PartsUnfinished'
  BY <1>5, <1>8 DEF JudgeUnused
<1> QED BY <1>1, <1>2, <1>3, <1>4, <1>6, <1>7, <1>8 DEF Next, Job

LEMMA TypeKept ==
  ASSUME TypeOK, PartsUnfinished, [Next]_vars
  PROVE  TypeOK'
<1> state \in States /\ target \in Files
  BY DEF TypeOK
<1>1. CASE UNCHANGED vars
  BY <1>1 DEF TypeOK, vars, job
<1>2. CASE Begin
  <2> DEFINE start == IF active \notin {Missing, Corrupt} THEN active ELSE Fresh
  <2>1. start \in States
    BY FreshIsState DEF TypeOK
  <2>2. [start EXCEPT !.profile = profile] \in States
    BY <2>1 DEF States, TypeOK
  <2>3. state' \in States /\ (written' = Missing \/ written' \in States)
    BY <1>2, <2>2 DEF Begin, TypeOK
  <2>4. todo' \subseteq Subs
    BY <1>2, ZimAssumption DEF Begin, TypeOK
  <2> QED BY <1>2, <2>3, <2>4 DEF Begin, GoTo, World, TypeOK
<1>3. CASE Adopted
  BY <1>3 DEF Adopted, GoTo, World, TypeOK
<1>4. CASE Clean
  <2>1. todo' \subseteq Subs
    BY <1>4, ZimAssumption DEF Clean, TypeOK
  <2> QED BY <1>4, <2>1, CleanUpKeeps DEF Clean, GoTo, World, TypeOK
<1>5. CASE DownloadFails
  BY <1>5, ZimAssumption DEF DownloadFails, GoTo, World, TypeOK
<1>6. CASE Downloaded
  BY <1>6 DEF Downloaded, GoTo, World, TypeOK
<1>7. CASE Activate
  <2> DEFINE replaced == {<<target[1], Local(target[1])>>} \cap {f \in Active(state) : f # target}
  <2>1. replaced \subseteq Files
    BY ActiveIsFile
  <2>2. state' \in States /\ active' = state' /\ written' = state'
    <3> HIDE DEF replaced
    <3> DEFINE switched == [state EXCEPT !.archives[target[1]] = target[2],
                                         !.retired = @ \cup Retire(replaced)]
    <3>1. state' = [switched EXCEPT !.unreadable = @ \ FilesOf(target[1])]
      BY <1>7 DEF Activate, Save, Dump, replaced, States
    <3>2. switched \in States
      BY <2>1, SwitchIsState
    <3> HIDE DEF switched
    <3> QED BY <1>7, <3>1, <3>2, ReadableIsState DEF Activate, Save
  <2> QED BY <1>7, <2>2 DEF Activate, GoTo, World, TypeOK
<1>8. CASE DropUnreadable
  BY <1>8, ZimAssumption DEF DropUnreadable, GoTo, World, TypeOK
<1>9. CASE NoteUnreadable
  <2>1. [state EXCEPT !.unreadable = @ \cup {target}] \in States
    BY DEF States
  <2> QED BY <1>9, <2>1 DEF NoteUnreadable, Save, GoTo, World, TypeOK
<1>10. CASE Updated
  BY <1>10 DEF Updated, GoTo, World, TypeOK
<1>11. CASE Finish
  <2>1. Settled \in States
    BY SettledIsState
  <2> QED BY <1>11, <2>1, CleanUpKeeps DEF Finish, GoTo, World, TypeOK
<1>12. CASE End
  BY <1>12, FreshIsState DEF End, NoJob, World, TypeOK
<1>13. ASSUME NEW s \in Subs, AdoptNothing(s)
       PROVE  TypeOK'
  BY <1>13 DEF AdoptNothing, Visit, World, TypeOK
<1>14. ASSUME NEW s \in Subs, Adopt(s)
       PROVE  TypeOK'
  <2> DEFINE candidates == {f \in FilesOf(s) : disk[f] # "absent" /\ f # <<s, state.archives[s]>>}
             opening == {g \in candidates : Opens(g)}
             newest == Max({Dump(f) : f \in opening})
             older == {f \in candidates : Dump(f) < newest} \ RetiredFiles(state)
  <2>1. older \subseteq Files /\ opening \subseteq FilesOf(s)
    BY DEF FilesOf
  <2>2. CASE \E f \in candidates : Opens(f)
    <3>1. <<s, newest>> \in Files
      <4>1. opening # {}
        BY <2>2
      <4>2. <<s, newest>> \in opening
        <5> HIDE DEF opening
        <5> QED BY <2>1, <4>1, NewestIsFile
      <4> QED BY <2>1, <4>2 DEF FilesOf
    <3>2. state' = [state EXCEPT !.archives[s] = newest, !.retired = @ \cup Retire(older)]
      BY <1>14, <2>2 DEF Adopt, Save
    <3>3. active' = state' /\ written' = state'
      BY <1>14, <2>2 DEF Adopt, Save
    <3> HIDE DEF candidates, opening, newest, older
    <3>4. state' \in States
      <4> DEFINE f == <<s, newest>>
      <4>1. f \in Files /\ f[1] = s /\ f[2] = newest
        BY <3>1
      <4> HIDE DEF f
      <4> QED BY <2>1, <3>2, <4>1, SwitchIsState
    <3> QED BY <1>14, <3>3, <3>4 DEF Adopt, Visit, World, TypeOK
  <2>3. CASE ~ \E f \in candidates : Opens(f)
    <3>1. state' = [state EXCEPT !.archives[s] = None] /\ UNCHANGED <<active, written>>
      BY <1>14, <2>3 DEF Adopt
    <3>2. state' \in States
      BY <3>1 DEF States, None
    <3> QED BY <1>14, <3>1, <3>2 DEF Adopt, Visit, World, TypeOK
  <2> QED BY <2>2, <2>3
<1>15. ASSUME NEW s \in Subs, UpdateNothing(s) \/ UpdateFails(s)
       PROVE  TypeOK'
  BY <1>15, ZimAssumption DEF UpdateNothing, UpdateFails, Visit, World, TypeOK
<1>16. ASSUME NEW s \in Subs, Download(s)
       PROVE  TypeOK'
  <2>1. Remote(s) \in Files
    <3>1. latest[s] \in 1 .. Offers[s]
      BY <1>16, StateParts, ZimAssumption DEF Download, Wanted, Local, TypeOK
    <3> QED BY <3>1, OfferIsFile DEF Remote
  <2> QED
    BY <1>16, <2>1 DEF Download, Complete, Visit, GoTo, World, TypeOK, PartsUnfinished
<1>17. CASE Crash
  BY <1>17, FreshIsState, ZimAssumption DEF Crash, Fault, NoJob, World, TypeOK
<1>18. CASE Lose
  BY <1>18, ZimAssumption DEF Lose, Fault, job, World, TypeOK
<1>19. CASE ChangeProfile
  <2>1. state' \in States
    BY <1>19 DEF ChangeProfile, States
  <2> QED BY <1>19, <2>1, ZimAssumption DEF ChangeProfile, Fault, TypeOK
<1>20. CASE Tick
  BY <1>20, OlderIsState DEF Tick, World, TypeOK
<1>21. CASE Delete
  <2>1. judged' = {} /\ Cardinality(judged') <= 1
    BY <1>21, FS_EmptySet DEF Delete
  <2>2. disk' \in [Files -> {"absent", "whole", "torn"}] /\ parts' \subseteq Files
    BY <1>21 DEF Delete, TypeOK
  <2> QED BY <1>21, <2>1, <2>2 DEF Delete, job, TypeOK
<1>25. CASE DownloadLost
  BY <1>25 DEF DownloadLost, GoTo, World, TypeOK
<1>26. CASE FindNoSync
  <2>1. judged' = judged \/ judged' = {}
    BY <1>26 DEF FindNoSync
  <2>2. judged' \subseteq Files /\ Cardinality(judged') <= 1
    BY <2>1, FS_EmptySet DEF TypeOK
  <2>3. cleared' \in BOOLEAN /\ (cleared' => judged' # {})
    BY <1>26 DEF FindNoSync, TypeOK
  <2> QED BY <1>26, <2>2, <2>3 DEF FindNoSync, job, TypeOK
<1>22. ASSUME NEW f \in Files, Damage(f)
       PROVE  TypeOK'
  BY <1>22, ZimAssumption DEF Damage, Fault, job, World, TypeOK
<1>23. ASSUME NEW f \in Files, JudgeUnused(f)
       PROVE  TypeOK'
  <2>1. judged' = {f} /\ Cardinality({f}) = 1
    BY <1>23, FS_Singleton DEF JudgeUnused
  <2>2. judged' \subseteq Files /\ Cardinality(judged') <= 1
    BY <2>1
  <2> QED BY <1>23, <2>2, ZimAssumption DEF JudgeUnused, Fault, job, TypeOK
<1>24. ASSUME NEW s \in Subs, Publish(s)
       PROVE  TypeOK'
  <2>1. \A t \in Subs : latest'[t] \in 0 .. Offers[t]
    BY <1>24, ZimAssumption DEF Publish, TypeOK
  <2> QED BY <1>24, <2>1 DEF Publish, job, TypeOK
<1> QED
  BY <1>1, <1>2, <1>3, <1>4, <1>5, <1>6, <1>7, <1>8, <1>9, <1>10, <1>11, <1>12, <1>13,
     <1>14, <1>15, <1>16, <1>17, <1>18, <1>19, <1>20, <1>21, <1>22, <1>23, <1>24,
     <1>25, <1>26
     DEF Next, Job

(* The type invariant of the job: ZIM_PROFILE, active.json, the files, the *)
(* run's memory and the judgement of an admin's request.                   *)
THEOREM TypeCorrect == Spec => []TypeOK
<1>1. Init => PartsUnfinished
  BY DEF Init, PartsUnfinished
<1>2. TypeOK /\ PartsUnfinished /\ [Next]_vars => TypeOK' /\ PartsUnfinished'
  BY TypeKept, PartsKept
<1> QED BY <1>1, <1>2, InitTyped, PTL DEF Spec

-----------------------------------------------------------------------------
(* What the run has in memory, and what active.json says                   *)

Known == active \notin {Missing, Corrupt}

(* Until its last clean-up, a run lists no retired archive that            *)
(* active.json does not list.                                              *)
RetiredAreListed ==
  pc \notin {"idle", "saving"} /\ Known => RetiredFiles(state) \subseteq RetiredFiles(active)

(* The run has the archive active.json names, or none: that one does not   *)
(* open; or the run has just fetched it anew; or other profiles' archives  *)
(* are given up, the required ones being there.                            *)
Repaired(s) == pc = "loaded" /\ target = <<s, active.archives[s]>>

GivenUp(s) ==
  pc = "saving" /\ s \notin Wants[profile] /\ \A r \in Requires[profile] : state.archives[r] # None

Kept(s) ==
  \/ state.archives[s] = active.archives[s]
  \/ state.archives[s] = None /\ ~Opens(<<s, active.archives[s]>>)
  \/ state.archives[s] = None /\ Repaired(s)
  \/ state.archives[s] = None /\ GivenUp(s)

ServingAreKept == pc # "idle" /\ Known => \A s \in Subs : Kept(s)

Inv == TypeOK /\ PartsUnfinished /\ RetiredAreListed /\ ServingAreKept

LEMMA KnownIsState ==
  ASSUME TypeOK
  PROVE  Known => active \in States
BY DEF TypeOK, Known

LEMMA ListedKept ==
  ASSUME TypeOK, RetiredAreListed, [Next]_vars
  PROVE  RetiredAreListed'
<1> state \in States
  BY DEF TypeOK
<1>1. CASE Begin
  <2>1. Known => state'.retired = active.retired
    BY <1>1, KnownIsState DEF Begin, Known, States
  <2>2. pc' = "adopting" /\ UNCHANGED active
    BY <1>1 DEF Begin, GoTo
  <2> QED BY <2>1, <2>2 DEF RetiredAreListed, RetiredFiles, Known
<1>2. CASE Clean
  BY <1>2, CleanUpKeeps DEF Clean, GoTo, RetiredAreListed, RetiredFiles, Known
<1>3. CASE Activate \/ NoteUnreadable
  BY <1>3 DEF Activate, NoteUnreadable, Save, RetiredAreListed
<1>4. ASSUME NEW s \in Subs, Adopt(s)
      PROVE  RetiredAreListed'
  <2>1. CASE state' = active'
    BY <2>1 DEF RetiredAreListed
  <2>2. CASE state' # active'
    <3>1. state' = [state EXCEPT !.archives[s] = None] /\ UNCHANGED active /\ pc = "adopting"
      BY <1>4, <2>2 DEF Adopt, Save
    <3>2. state'.retired = state.retired
      BY <3>1 DEF States
    <3> QED BY <3>1, <3>2 DEF RetiredAreListed, RetiredFiles, Known
  <2> QED BY <2>1, <2>2
<1>5. CASE Finish \/ End \/ Crash
  BY <1>5 DEF Finish, End, Crash, GoTo, NoJob, RetiredAreListed
<1>6. CASE Lose
  BY <1>6 DEF Lose, RetiredAreListed, Known
<1>7. CASE ChangeProfile
  BY <1>7 DEF ChangeProfile, RetiredAreListed
<1>8. CASE Tick
  <2>1. RetiredFiles(state)' = RetiredFiles(state)
    BY <1>8, OlderIsState DEF Tick, RetiredFiles
  <2>2. Known' => Known
    BY <1>8 DEF Tick, Known
  <2>3. Known => RetiredFiles(active)' = RetiredFiles(active)
    BY <1>8, KnownIsState, OlderIsState DEF Tick, RetiredFiles, Known
  <2> QED BY <1>8, <2>1, <2>2, <2>3 DEF Tick, RetiredAreListed
<1>9. CASE /\ UNCHANGED <<state, active>>
           /\ pc' \notin {"idle", "saving"} => pc \notin {"idle", "saving"}
  BY <1>9 DEF RetiredAreListed, RetiredFiles, Known
<1>10. CASE \/ Adopted \/ DownloadFails \/ Downloaded \/ DownloadLost \/ DropUnreadable
            \/ Updated \/ FindNoSync \/ Delete \/ UNCHANGED vars
  BY <1>9, <1>10 DEF Adopted, DownloadFails, Downloaded, DownloadLost, DropUnreadable,
     Updated, FindNoSync, Delete, GoTo, job, vars
<1>11. ASSUME NEW s \in Subs,
              AdoptNothing(s) \/ UpdateNothing(s) \/ UpdateFails(s) \/ Download(s) \/ Publish(s)
       PROVE  RetiredAreListed'
  BY <1>9, <1>11 DEF AdoptNothing, UpdateNothing, UpdateFails, Download, Publish, GoTo, job
<1>12. ASSUME NEW f \in Files, Damage(f) \/ JudgeUnused(f)
       PROVE  RetiredAreListed'
  BY <1>9, <1>12 DEF Damage, JudgeUnused, job
<1> QED
  BY <1>1, <1>2, <1>3, <1>4, <1>5, <1>6, <1>7, <1>8, <1>10, <1>11, <1>12 DEF Next, Job

LEMMA NamedIsFile ==
  ASSUME TypeOK, Known, NEW s \in Subs
  PROVE  active.archives[s] = None \/ <<s, active.archives[s]>> \in Files
BY KnownIsState, StateParts

(* Steps that leave the run's archives and those of active.json alone, and *)
(* after which no file opens that did not.                                 *)
LEMMA StillKept ==
  ASSUME TypeOK, ServingAreKept,
         pc # "idle", Known' => Known /\ active'.archives = active.archives,
         state'.archives = state.archives, UNCHANGED profile,
         (pc' \notin {"loaded", "saving"} /\ pc # "saving") \/ UNCHANGED <<pc, target>>,
         pc = "loaded" => pc' = "loaded" /\ UNCHANGED target,
         \A f \in Files : Opens(f)' => Opens(f)
  PROVE  ServingAreKept'
<1> SUFFICES ASSUME Known', NEW s \in Subs
             PROVE  Kept(s)'
  BY DEF ServingAreKept
<1>1. Known /\ Kept(s) /\ active'.archives = active.archives
  BY DEF ServingAreKept
<1>2. active.archives[s] = None \/ <<s, active.archives[s]>> \in Files
  BY <1>1, NamedIsFile
<1>3. CASE state.archives[s] = active.archives[s]
  BY <1>1, <1>3 DEF Kept
<1>4. CASE state.archives[s] = None /\ ~Opens(<<s, active.archives[s]>>)
  BY <1>1, <1>2, <1>4 DEF Kept
<1>5. CASE state.archives[s] = None /\ Repaired(s)
  BY <1>1, <1>5 DEF Kept, Repaired
<1>6. CASE state.archives[s] = None /\ GivenUp(s)
  BY <1>1, <1>6 DEF Kept, GivenUp
<1> QED BY <1>1, <1>3, <1>4, <1>5, <1>6 DEF Kept

LEMMA SavedIsKept ==
  ASSUME state' = active'
  PROVE  ServingAreKept'
BY DEF ServingAreKept, Kept

LEMMA ServingKept ==
  ASSUME TypeOK, ServingAreKept, [Next]_vars
  PROVE  ServingAreKept'
<1> state \in States /\ target \in Files /\ DOMAIN disk = Files
  BY DEF TypeOK
<1>1. CASE Begin
  <2>1. Known => state'.archives = active.archives /\ UNCHANGED active
    BY <1>1, KnownIsState DEF Begin, Known, States
  <2>2. UNCHANGED active
    BY <1>1 DEF Begin
  <2> QED BY <2>1, <2>2 DEF ServingAreKept, Kept, Known
<1>2. CASE Clean
  <2>1. \A f \in Files : Opens(f)' => Opens(f)
    BY <1>2, CleanUpKeeps DEF Clean, Opens
  <2> QED
    BY <1>2, <2>1, CleanUpKeeps, StillKept DEF Clean, GoTo, World, Known
<1>3. CASE Downloaded
  <2> SUFFICES ASSUME Known', NEW s \in Subs
               PROVE  Kept(s)'
    BY DEF ServingAreKept
  <2>1. /\ pc = "loading" /\ pc' = "loaded" /\ UNCHANGED <<active, state, target>>
        /\ \A f \in Files : f # target => disk'[f] = disk[f]
    BY <1>3 DEF Downloaded, GoTo
  <2>2. Known /\ Kept(s)
    BY <2>1 DEF ServingAreKept, Known
  <2>3. \/ state.archives[s] = active.archives[s]
        \/ state.archives[s] = None /\ ~Opens(<<s, active.archives[s]>>)
    BY <2>1, <2>2 DEF Kept, Repaired, GivenUp
  <2>4. active.archives[s] = None \/ <<s, active.archives[s]>> \in Files
    BY <2>2, NamedIsFile
  <2>5. CASE <<s, active.archives[s]>> = target
    BY <2>1, <2>3, <2>5 DEF Kept, Repaired
  <2>6. CASE <<s, active.archives[s]>> # target
    BY <2>1, <2>3, <2>4, <2>6 DEF Kept, Opens
  <2> QED BY <2>5, <2>6
<1>4. CASE Activate \/ NoteUnreadable
  BY <1>4, SavedIsKept DEF Activate, NoteUnreadable, Save
<1>5. CASE DropUnreadable
  <2> SUFFICES ASSUME Known', NEW s \in Subs
               PROVE  Kept(s)'
    BY DEF ServingAreKept
  <2>1. /\ pc = "loaded" /\ UNCHANGED <<active, state>>
        /\ disk' = [disk EXCEPT ![target] = "absent"] \/ UNCHANGED disk
        /\ ~Opens(target)
    BY <1>5 DEF DropUnreadable, GoTo
  <2>2. Known /\ Kept(s)
    BY <2>1 DEF ServingAreKept, Known
  <2>3. active.archives[s] = None \/ <<s, active.archives[s]>> \in Files
    BY <2>2, NamedIsFile
  <2>4. \A f \in Files : Opens(f)' => Opens(f) /\ f # target
    BY <2>1 DEF Opens
  <2>5. CASE state.archives[s] = active.archives[s]
    BY <2>1, <2>5 DEF Kept
  <2>6. CASE state.archives[s] = None /\ ~Opens(<<s, active.archives[s]>>)
    BY <2>1, <2>3, <2>4, <2>6 DEF Kept
  <2>7. CASE state.archives[s] = None /\ Repaired(s)
    BY <2>1, <2>3, <2>4, <2>7 DEF Kept, Repaired
  <2> QED BY <2>1, <2>2, <2>5, <2>6, <2>7 DEF Kept, GivenUp
<1>6. CASE Finish
  <2> SUFFICES ASSUME Known', NEW s \in Subs
               PROVE  Kept(s)'
    BY DEF ServingAreKept
  <2>1. pc = "finishing" /\ pc' = "saving" /\ UNCHANGED <<active, profile>>
    BY <1>6 DEF Finish, GoTo, World
  <2>2. Known /\ Kept(s)
    BY <2>1 DEF ServingAreKept, Known
  <2>3. active.archives[s] = None \/ <<s, active.archives[s]>> \in Files
    BY <2>2, NamedIsFile
  <2>4. /\ state'.archives = Settled.archives
        /\ \A f \in Files : Opens(f)' => Opens(f)
    BY <1>6, SettledIsState, CleanUpKeeps DEF Finish, Opens
  <2>5. \/ state.archives[s] = active.archives[s]
        \/ state.archives[s] = None /\ ~Opens(<<s, active.archives[s]>>)
    BY <2>1, <2>2 DEF Kept, Repaired, GivenUp
  <2>6. CASE Settled.archives[s] = state.archives[s]
    BY <2>1, <2>3, <2>4, <2>5, <2>6 DEF Kept
  <2>7. CASE Settled.archives[s] # state.archives[s]
    <3>1. /\ \A r \in Requires[profile] : state.archives[r] # None
          /\ Settled.archives = [t \in Subs |-> IF t \in Wants[profile]
                                                  THEN state.archives[t] ELSE None]
      BY <2>7 DEF Settled, States
    <3>2. s \notin Wants[profile] /\ Settled.archives[s] = None
      BY <2>7, <3>1
    <3>3. \A r \in Requires[profile] : r \in Wants[profile] /\ r \in Subs
      BY ZimAssumption DEF TypeOK
    <3>4. \A r \in Requires[profile] : Settled.archives[r] # None
      BY <3>1, <3>3
    <3> QED BY <2>1, <2>4, <3>2, <3>4 DEF Kept, GivenUp
  <2> QED BY <2>6, <2>7
<1>7. ASSUME NEW s \in Subs, Adopt(s)
      PROVE  ServingAreKept'
  <2>1. CASE state' = active'
    BY <2>1, SavedIsKept
  <2>2. CASE state' # active'
    <3>1. /\ state' = [state EXCEPT !.archives[s] = None] /\ pc = "adopting"
          /\ ~(state.archives[s] # None /\ Opens(<<s, state.archives[s]>>))
          /\ UNCHANGED <<active, pc, disk, profile>>
      BY <1>7, <2>2 DEF Adopt, Save, World
    <3>2. SUFFICES ASSUME Known', NEW t \in Subs
                   PROVE  Kept(t)'
      BY DEF ServingAreKept
    <3>3. Known /\ Kept(t)
      BY <3>1, <3>2 DEF ServingAreKept, Known
    <3>4. \/ state.archives[t] = active.archives[t]
          \/ state.archives[t] = None /\ ~Opens(<<t, active.archives[t]>>)
      BY <3>1, <3>3 DEF Kept, Repaired, GivenUp
    <3>5. /\ t = s => state'.archives[t] = None
          /\ t # s => state'.archives[t] = state.archives[t]
      BY <3>1 DEF States
    <3> QED BY <3>1, <3>4, <3>5 DEF Kept, Opens
  <2> QED BY <2>1, <2>2
<1>8. CASE End \/ Crash
  BY <1>8 DEF End, Crash, NoJob, ServingAreKept
<1>9. CASE Lose
  BY <1>9 DEF Lose, ServingAreKept, Known
<1>10. CASE ChangeProfile
  BY <1>10 DEF ChangeProfile, ServingAreKept
<1>11. CASE Tick
  <2>1. CASE pc = "idle"
    BY <1>11, <2>1 DEF Tick, ServingAreKept
  <2>2. CASE pc # "idle"
    <3>1. state'.archives = state.archives
      BY <1>11, OlderIsState DEF Tick
    <3>2. Known' => Known
      BY <1>11 DEF Tick, Known
    <3>3. Known => active'.archives = active.archives
      BY <1>11, KnownIsState, OlderIsState DEF Tick, Known
    <3> QED
      BY <1>11, <2>2, <3>1, <3>2, <3>3, StillKept DEF Tick, World, Opens
  <2> QED BY <2>1, <2>2
<1>12. ASSUME UNCHANGED <<active, state, profile>>,
              pc = "idle" => pc' = "idle",
              (pc' \notin {"loaded", "saving"} /\ pc # "saving") \/ UNCHANGED <<pc, target>>,
              pc = "loaded" => pc' = "loaded" /\ UNCHANGED target,
              \A f \in Files : disk'[f] = disk[f] \/ disk'[f] # "whole"
       PROVE  ServingAreKept'
  <2>1. CASE pc = "idle"
    BY <1>12, <2>1 DEF ServingAreKept
  <2>2. CASE pc # "idle"
    BY <1>12, <2>2, StillKept DEF Known, Opens
  <2> QED BY <2>1, <2>2
<1>13. CASE \/ Adopted \/ DownloadFails \/ DownloadLost \/ Updated \/ FindNoSync
            \/ UNCHANGED vars
  BY <1>12, <1>13 DEF Adopted, DownloadFails, DownloadLost, Updated, FindNoSync, GoTo,
     World, job, vars
<1>14. CASE Delete
  <2>1. \A f \in Files : disk'[f] = disk[f] \/ disk'[f] # "whole"
    BY <1>14 DEF Delete
  <2> QED BY <1>12, <1>14, <2>1 DEF Delete, job
<1>15. ASSUME NEW s \in Subs,
              AdoptNothing(s) \/ UpdateNothing(s) \/ UpdateFails(s) \/ Publish(s)
       PROVE  ServingAreKept'
  BY <1>12, <1>15 DEF AdoptNothing, UpdateNothing, UpdateFails, Publish, World, job
<1>16. ASSUME NEW s \in Subs, Download(s)
       PROVE  ServingAreKept'
  <2> SUFFICES ASSUME Known', NEW t \in Subs
               PROVE  Kept(t)'
    BY DEF ServingAreKept
  <2>1. pc = "updating" /\ UNCHANGED <<active, state, disk>>
    BY <1>16 DEF Download
  <2>2. Kept(t)
    BY <2>1 DEF ServingAreKept, Known
  <2> QED BY <2>1, <2>2 DEF Kept, Repaired, GivenUp, Opens
<1>17. ASSUME NEW f \in Files, Damage(f) \/ JudgeUnused(f)
       PROVE  ServingAreKept'
  BY <1>12, <1>17 DEF Damage, JudgeUnused, World, job
<1> QED
  BY <1>1, <1>2, <1>3, <1>4, <1>5, <1>6, <1>7, <1>8, <1>9, <1>10, <1>11, <1>13, <1>14,
     <1>15, <1>16, <1>17 DEF Next, Job

LEMMA InvKept == Inv /\ [Next]_vars => Inv'
  BY TypeKept, PartsKept, ListedKept, ServingKept DEF Inv

(* The inductive invariant: what a run has in memory is never worse than   *)
(* what active.json says, whatever fails and wherever a run dies.          *)
THEOREM Safety == Spec => []Inv
<1>1. Init => Inv
  BY InitTyped DEF Init, Inv, PartsUnfinished, RetiredAreListed, ServingAreKept
<1> QED BY <1>1, InvKept, PTL DEF Spec

-----------------------------------------------------------------------------
(* What a step may never do                                                *)

(* Only the clean-ups, an unreadable dump and an admin's request take a    *)
(* file away.                                                              *)
LEMMA WhatGoes ==
  ASSUME TypeOK, [Next]_vars, NEW f \in Files, disk[f] = "whole", disk'[f] = "absent"
  PROVE  \/ Clean \/ Finish \/ Delete \/ DropUnreadable
<1> disk \in [Files -> {"absent", "whole", "torn"}]
  BY DEF TypeOK
<1>1. ~UNCHANGED disk
  OBVIOUS
<1>2. ~Downloaded /\ \A g \in Files : ~Damage(g)
  BY DEF Downloaded, Damage
<1>3. \A s \in Subs : ~(\/ AdoptNothing(s) \/ Adopt(s) \/ UpdateNothing(s) \/ UpdateFails(s)
                        \/ Download(s) \/ Publish(s))
  BY <1>1 DEF AdoptNothing, Adopt, UpdateNothing, UpdateFails, Download, Publish
<1>4. /\ ~Begin /\ ~Adopted /\ ~DownloadFails /\ ~Activate /\ ~NoteUnreadable /\ ~Updated
      /\ ~End /\ ~Crash /\ ~Lose /\ ~ChangeProfile /\ ~Tick /\ ~UNCHANGED vars
      /\ ~DownloadLost /\ ~FindNoSync /\ \A g \in Files : ~JudgeUnused(g)
  BY <1>1 DEF DownloadLost, FindNoSync, Begin, Adopted, DownloadFails, Activate, NoteUnreadable, Updated, End,
     Crash, Lose, ChangeProfile, Tick, JudgeUnused, vars
<1> QED BY <1>2, <1>3, <1>4 DEF Next, Job

(* An archive that opens and that active.json names stays on the disk,     *)
(* wherever a run dies; the exceptions are those of NamedArchivesStay.     *)
THEOREM NamedStay == Spec => NamedArchivesStay
<1> DEFINE Excused(f) == \/ f \in judged \/ f \in RetiredFiles(active)
                         \/ Retention = 0 /\ f[1] \notin Wants[profile]
<1>1. ASSUME Inv, [Next]_vars, NEW f \in Files, f \in Named', Opens(f), disk'[f] = "absent"
      PROVE  Excused(f)
  <2>1. TypeOK /\ state \in States /\ disk \in [Files -> {"absent", "whole", "torn"}]
    BY <1>1 DEF Inv, TypeOK
  <2>2. disk[f] = "whole" /\ f \notin Unopenable
    BY <1>1 DEF Opens
  <2>3. CASE Delete
    BY <2>1, <2>2, <2>3, <1>1 DEF Delete
  <2>4. CASE DropUnreadable
    <3>1. f = target
      BY <2>1, <2>2, <2>4, <1>1 DEF DropUnreadable
    <3> QED BY <2>4, <3>1, <1>1 DEF DropUnreadable
  <2>5. CASE Clean \/ Finish
    <3>1. UNCHANGED active /\ pc \notin {"idle", "saving"}
      BY <2>5 DEF Clean, Finish
    <3>2. Known
      BY <1>1, <3>1 DEF Named, Known
    <3>3. RetiredFiles(state) \subseteq RetiredFiles(active)
      BY <1>1, <3>1, <3>2 DEF Inv, RetiredAreListed
    <3>4. CASE Clean
      <4>1. f \in Doomed(state)
        BY <1>1, <2>1, <2>2, <3>4, CleanUpKeeps DEF Clean
      <4> QED BY <3>3, <4>1 DEF Doomed, Due, RetiredFiles
    <3>5. CASE Finish
      <4>1. f \in Doomed(Settled)
        <5>1. Settled \in States
          BY <2>1, SettledIsState
        <5> QED BY <1>1, <2>1, <2>2, <3>5, <5>1, CleanUpKeeps DEF Finish
      <4>2. PICK r \in Settled.retired : r[1] = f /\ r[2] = 0
        BY <4>1 DEF Doomed, Due
      <4>3. CASE r \in state.retired
        BY <3>3, <4>2, <4>3 DEF RetiredFiles
      <4>4. CASE r \notin state.retired
        <5>1. r \in Retire({g \in Active(state) : g[1] \notin Wants[profile]})
          BY <2>1, <4>2, <4>4 DEF Settled, States
        <5> QED BY <4>2, <5>1 DEF Retire
      <4> QED BY <4>3, <4>4
    <3> QED BY <2>5, <3>4, <3>5
  <2> QED BY <1>1, <2>1, <2>2, <2>3, <2>4, <2>5, WhatGoes
<1>2. Inv /\ [Next]_vars
        => [\A f \in Files : f \in Named' /\ Opens(f) /\ disk'[f] = "absent"
              => Excused(f)]_vars
  BY <1>1
<1> QED BY <1>2, Safety, PTL DEF Spec, NamedArchivesStay

LEMMA ServesByName ==
  ASSUME TypeOK, NEW s \in Subs
  PROVE  Serves(s) => /\ Known /\ active \in States /\ Opens(<<s, active.archives[s]>>)
                      /\ <<s, active.archives[s]>> \in Files
<1> SUFFICES ASSUME Serves(s)
             PROVE  /\ Known /\ active \in States /\ Opens(<<s, active.archives[s]>>)
                    /\ <<s, active.archives[s]>> \in Files
  OBVIOUS
<1>1. PICK f \in Named \cap FilesOf(s) : Opens(f)
  BY DEF Serves
<1>2. Known /\ active \in States /\ f \in Active(active)
  BY <1>1, KnownIsState DEF Named, Known
<1>3. f \in Files /\ active.archives[s] = f[2] /\ f = <<s, f[2]>>
  BY <1>1, <1>2, ActiveIsFile, FileIsPair DEF FilesOf
<1> QED BY <1>1, <1>2, <1>3

LEMMA NamedServes ==
  ASSUME NEW s \in Subs, NEW d, Known', active'.archives[s] = d, <<s, d>> \in Files,
         Opens(<<s, d>>)'
  PROVE  Serves(s)'
<1>1. d # None
  BY FileIsPair DEF None
<1>2. <<s, d>> \in Named' /\ <<s, d>> \in FilesOf(s)
  BY <1>1 DEF Named, Active, Known, FilesOf
<1> QED BY <1>2 DEF Serves

LEMMA FirstOfPair ==
  ASSUME NEW S, NEW x, NEW y, <<x, y>> \in S
  PROVE  x \in {g[1] : g \in S}
<1>1. <<x, y>>[1] = x
  OBVIOUS
<1> QED BY <1>1, Zenon

(* No step of a run takes an archive that opens from service, unless it is *)
(* another profile's and the required ones of this profile are active.     *)
THEOREM ServingGoesOn == Spec => ServesOn
<1> DEFINE Excused(s) == /\ s \notin Wants[profile]
                         /\ \A r \in Requires[profile] : r \in {f[1] : f \in Named'}
<1>1. ASSUME Inv, Inv', Job, NEW s \in Subs, Serves(s), ~Serves(s)'
      PROVE  Excused(s)
  <2> DEFINE d == active.archives[s]
             f == <<s, d>>
  <2>1. /\ TypeOK /\ state \in States /\ target \in Files
        /\ disk \in [Files -> {"absent", "whole", "torn"}]
    BY <1>1 DEF Inv, TypeOK
  <2>2. Known /\ active \in States /\ Opens(f) /\ f \in Files /\ d # None
    BY <1>1, <2>1, ServesByName, FileIsPair DEF None
  <2>3. pc # "idle" => Kept(s)
    BY <1>1, <2>2 DEF Inv, ServingAreKept
  <2>4. ASSUME Known', active'.archives[s] = d, Opens(f)'
        PROVE  FALSE
    BY <1>1, <2>2, <2>4, NamedServes
  <2>5. ASSUME UNCHANGED active, Opens(f)'
        PROVE  FALSE
    BY <2>2, <2>4, <2>5 DEF Known
  <2>6. ASSUME UNCHANGED <<active, disk>>
        PROVE  FALSE
    BY <2>2, <2>5, <2>6 DEF Opens
  <2>7. ASSUME active' = state', state'.archives[s] = d, UNCHANGED disk
        PROVE  FALSE
    <3>1. state' \in States
      BY <1>1 DEF Inv, TypeOK
    <3> QED BY <2>2, <2>4, <2>7, <3>1, StateParts DEF Known, Opens
  <2>8. CASE \/ Begin \/ Adopted \/ DownloadFails \/ DownloadLost \/ Updated
             \/ \E t \in Subs : \/ AdoptNothing(t) \/ UpdateNothing(t)
                                \/ UpdateFails(t) \/ Download(t)
    BY <2>6, <2>8 DEF Begin, Adopted, DownloadFails, DownloadLost, Updated, AdoptNothing, UpdateNothing,
       UpdateFails, Download
  <2>9. ASSUME NEW t \in Subs, Adopt(t)
        PROVE  FALSE
    <3>1. /\ pc = "adopting" /\ UNCHANGED disk
          /\ ~(state.archives[t] # None /\ Opens(<<t, state.archives[t]>>))
      BY <2>9 DEF Adopt
    <3>2. state.archives[s] = d
      BY <2>2, <2>3, <3>1 DEF Kept, Repaired, GivenUp
    <3>3. t # s
      BY <2>2, <3>1, <3>2
    <3>4. UNCHANGED active \/ (active' = state' /\ state'.archives[s] = state.archives[s])
      BY <2>1, <2>9, <3>3 DEF Adopt, Save, States
    <3> QED BY <2>6, <2>7, <3>1, <3>2, <3>4
  <2>10. CASE Clean
    <3>1. state.archives[s] = d
      BY <2>2, <2>3, <2>10 DEF Clean, Kept, Repaired, GivenUp
    <3>2. f \in Active(state)
      BY <2>1, <2>2, <3>1, ActiveIsFile
    <3>3. disk'[f] = disk[f]
      BY <2>1, <2>2, <2>10, <3>2, CleanUpKeeps DEF Clean, Doomed
    <3> QED BY <2>2, <2>5, <2>10, <3>3 DEF Clean, Opens
  <2>11. CASE Downloaded
    BY <2>1, <2>2, <2>5, <2>11 DEF Downloaded, Opens
  <2>12. CASE DropUnreadable
    BY <2>1, <2>2, <2>5, <2>12 DEF DropUnreadable, Opens
  <2>13. CASE Activate
    <3>1. /\ pc = "loaded" /\ Opens(target) /\ UNCHANGED disk /\ active' = state'
          /\ state'.archives = [state.archives EXCEPT ![target[1]] = target[2]]
      BY <2>1, <2>13 DEF Activate, Save, Dump, States
    <3>2. target = <<target[1], target[2]>> /\ target[1] \in Subs
      BY <2>1, FileIsPair
    <3>3. CASE target[1] = s
      <4>1. state'.archives[s] = target[2] /\ target = <<s, target[2]>>
        BY <2>1, <3>1, <3>2, <3>3, StateParts
      <4>2. Known'
        <5>1. state' \in States
          BY <1>1 DEF Inv, TypeOK
        <5> QED BY <3>1, <5>1, StateParts DEF Known
      <4>3. Serves(s)'
        BY <2>1, <3>1, <4>1, <4>2, NamedServes DEF Opens
      <4> QED BY <1>1, <4>3
    <3>4. CASE target[1] # s
      <4>1. state.archives[s] = d
        BY <2>2, <2>3, <3>1, <3>4 DEF Kept, Repaired, GivenUp
      <4>2. state'.archives[s] = d
        BY <2>1, <3>1, <3>4, <4>1, StateParts
      <4> QED BY <2>7, <3>1, <4>2
    <3> QED BY <3>3, <3>4
  <2>14. CASE NoteUnreadable
    <3>1. state.archives[s] = d
      BY <2>2, <2>3, <2>14 DEF NoteUnreadable, Kept, Repaired, GivenUp
    <3> QED BY <2>1, <2>7, <2>14, <3>1 DEF NoteUnreadable, Save, States
  <2>15. CASE Finish
    <3>1. pc = "finishing" /\ UNCHANGED active
      BY <2>15 DEF Finish
    <3>2. state.archives[s] = d
      BY <2>2, <2>3, <3>1 DEF Kept, Repaired, GivenUp
    <3>3. disk'[f] # disk[f]
      BY <2>2, <2>5, <3>1 DEF Opens
    <3>4. Settled \in States /\ f \notin Active(Settled)
      BY <2>1, <2>2, <2>15, <3>3, SettledIsState, CleanUpKeeps DEF Finish, Doomed
    <3>5. Settled.archives[s] # d
      BY <2>2, <3>4, ActiveIsFile
    <3>6. /\ s \notin Wants[profile]
          /\ \A r \in Requires[profile] : state.archives[r] # None
      BY <2>1, <3>2, <3>5 DEF Settled, States
    <3>7. \A r \in Requires[profile] : r \in Subs /\ Kept(r)
      BY <1>1, <2>1, <2>2, <3>1, ZimAssumption DEF Inv, ServingAreKept, TypeOK
    <3>8. \A r \in Requires[profile] : active'.archives[r] # None
      BY <3>1, <3>6, <3>7 DEF Kept
    <3>9. \A r \in Requires[profile] : <<r, active'.archives[r]>> \in Named'
      BY <2>2, <3>1, <3>7, <3>8 DEF Named, Active, Known
    <3>10. \A r \in Requires[profile] : r \in {g[1] : g \in Named'}
      BY <3>9, FirstOfPair
    <3> QED BY <3>6, <3>10
  <2>16. CASE End
    <3>1. pc = "saving" /\ UNCHANGED disk
      BY <2>16 DEF End
    <3>2. active' = state
      BY <2>6, <2>16 DEF End
    <3>3. Known'
      BY <2>1, <3>2, StateParts DEF Known
    <3>4. state.archives[s] # d
      BY <2>2, <2>4, <3>1, <3>2, <3>3 DEF Opens
    <3>5. GivenUp(s)
      BY <2>2, <2>3, <3>1, <3>4 DEF Kept, Repaired
    <3>6. \A r \in Requires[profile] : r \in Subs /\ active'.archives[r] # None
      BY <2>1, <3>2, <3>5, ZimAssumption DEF GivenUp, TypeOK
    <3>7. \A r \in Requires[profile] : <<r, active'.archives[r]>> \in Named'
      BY <3>3, <3>6 DEF Named, Active, Known
    <3>8. \A r \in Requires[profile] : r \in {g[1] : g \in Named'}
      BY <3>7, FirstOfPair
    <3> QED BY <3>5, <3>8 DEF GivenUp
  <2> QED
    BY <1>1, <2>8, <2>9, <2>10, <2>11, <2>12, <2>13, <2>14, <2>15, <2>16 DEF Job
<1>2. Inv /\ Inv' /\ [Next]_vars
        => [Job => \A s \in Subs :
              Serves(s) /\ ~Serves(s)'
                => s \notin Wants[profile]
                     /\ \A r \in Requires[profile] : r \in {f[1] : f \in Named'}]_vars
  BY <1>1
<1> QED BY <1>2, Safety, PTL DEF Spec, ServesOn
=============================================================================
