---------------------------- MODULE LockFileProofs ----------------------------
(***************************************************************************)
(* The theorems of module LockFile, for any set of runs and inodes and any *)
(* number of crashes.  Two of them need a volume that gives no new file    *)
(* the inode of one a run still goes by; MCLockFileReuse.cfg shows why.    *)
(***************************************************************************)
EXTENDS LockFile, TLAPS

(* A run from the creation of the file to the end of its job.              *)
Owns(r) == pc[r] \in {"created", "written", "held"}

(* The file of a run that lives is there, fresh, and of this run alone.    *)
OwnersFile ==
  /\ \A r \in Runs : Owns(r) => file # NoFile /\ file.node = node[r] /\ ~file.stale
  /\ \A r, s \in Runs : Owns(r) /\ Owns(s) => r = s

(* A file that a run is about to remove is stale as long as it is there.   *)
RemovesStale ==
  \A r \in Runs :
    pc[r] = "removing" /\ file # NoFile /\ file.node = node[r] => file.stale

(* All of it while nobody pauses past the limit.                           *)
IInv == TypeOK /\ (~pauses => OwnersFile /\ RemovesStale)

-----------------------------------------------------------------------------
LEMMA InitType == Init => TypeOK
  BY LockAssumption DEF Init, TypeOK, Places, Tries

USE DEF GoTo, Remember, Forget, Leave

(* The next attempt is one of three.                                       *)
LEMMA AttemptType ==
  ASSUME TypeOK, NEW r \in Runs, NextAttempt(r)
  PROVE  attempt' \in [Runs -> 1 .. Tries] /\ pc' \in [Runs -> Places]
  BY DEF TypeOK, NextAttempt, Tries, Places

LEMMA NextType ==
  ASSUME TypeOK, [Next]_vars
  PROVE  TypeOK'
<1>1. CASE UNCHANGED vars
  BY <1>1 DEF TypeOK, vars
<1>2. CASE Age
  BY <1>2 DEF TypeOK, Age, Files
<1>3. ASSUME NEW r \in Runs, Begin(r) \/ FileExists(r) \/ Held(r) \/ Identify(r)
      PROVE  TypeOK'
  BY <1>3 DEF TypeOK, Begin, FileExists, Held, Identify, Places, Tries, Files
<1>4. ASSUME NEW r \in Runs, LookGone(r) \/ RemoveIfUnchanged(r)
      PROVE  TypeOK'
  <2>1. NextAttempt(r)
    BY <1>4 DEF LookGone, RemoveIfUnchanged
  <2> QED
    BY <1>4, <2>1, AttemptType DEF TypeOK, LookGone, RemoveIfUnchanged
<1>5. ASSUME NEW r \in Runs, JudgeStale(r)
      PROVE  TypeOK'
  BY <1>5 DEF TypeOK, JudgeStale, Files, Places
<1>6. ASSUME NEW r \in Runs, Create(r)
      PROVE  TypeOK'
  BY <1>6 DEF TypeOK, Create, Files, Places
<1>7. ASSUME NEW r \in Runs, Write(r) \/ Refresh(r) \/ Release(r)
      PROVE  TypeOK'
  BY <1>7 DEF TypeOK, Write, Refresh, Release, Ours, Unchanged, Files, Places
<1>8. ASSUME NEW r \in Runs, Crash(r)
      PROVE  TypeOK'
  BY <1>8, LockAssumption DEF TypeOK, Crash, Places, Tries
<1> QED
  BY <1>1, <1>2, <1>3, <1>4, <1>5, <1>6, <1>7, <1>8 DEF Next, Run

(* The lock file, the places of the runs and what each remembers are of    *)
(* their kinds (app/locks.py, acquire_lock and HeldLock).                  *)
THEOREM TypeCorrect == Spec => []TypeOK
  BY InitType, NextType, PTL DEF Spec

-----------------------------------------------------------------------------
(* What keeps the lock of a run that lives: it never goes stale, a run     *)
(* that removes a stale lock looks at the inode first, and a new lock has  *)
(* an inode nobody goes by.                                                *)
LEMMA OwnersKept ==
  ASSUME TypeOK, TypeOK', ~InodeReuse, ~pauses, OwnersFile, RemovesStale, [Next]_vars
  PROVE  OwnersFile' /\ RemovesStale'
<1> USE DEF OwnersFile, RemovesStale, Owns
<1>1. CASE UNCHANGED vars
  BY <1>1 DEF vars
<1>2. CASE Age
  BY <1>2 DEF Age, Alive, TypeOK, Files
<1>3. ASSUME NEW r \in Runs, Begin(r) \/ FileExists(r) \/ Held(r) \/ JudgeStale(r)
      PROVE  OwnersFile' /\ RemovesStale'
  BY <1>3 DEF Begin, FileExists, Held, JudgeStale, TypeOK
<1>4. ASSUME NEW r \in Runs, LookGone(r)
      PROVE  OwnersFile' /\ RemovesStale'
  BY <1>4 DEF LookGone, NextAttempt, TypeOK
<1>5. ASSUME NEW r \in Runs, RemoveIfUnchanged(r)
      PROVE  OwnersFile' /\ RemovesStale'
  <2>1. Unchanged(r) => \A s \in Runs : ~Owns(s)
    BY <1>5 DEF RemoveIfUnchanged, Unchanged
  <2>2. pc'[r] \in {"trying", "idle"} /\ \A s \in Runs : s # r => pc'[s] = pc[s]
    BY <1>5 DEF RemoveIfUnchanged, NextAttempt, TypeOK
  <2>3. \A s \in Runs : s # r => node'[s] = node[s]
    BY <1>5 DEF RemoveIfUnchanged, TypeOK
  <2> QED BY <1>5, <2>1, <2>2, <2>3 DEF RemoveIfUnchanged
<1>6. ASSUME NEW r \in Runs, Create(r)
      PROVE  OwnersFile' /\ RemovesStale'
  <2>1. PICK i \in Inodes :
          /\ Free(i)
          /\ file' = [node |-> i, text |-> NoText, stale |-> FALSE]
          /\ node' = [node EXCEPT ![r] = i]
    BY <1>6 DEF Create
  <2>2. \A s \in Runs : ~Owns(s) /\ node[s] # i
    BY <1>6, <2>1 DEF Create, Free
  <2>3. file' # NoFile
    <3> file' \in Files
      BY <2>1 DEF Files
    <3> QED BY NoFileAssumption
  <2>4. node'[r] = i /\ \A s \in Runs : s # r => pc'[s] = pc[s] /\ node'[s] = node[s]
    BY <1>6, <2>1 DEF Create, TypeOK
  <2>5. pc'[r] = "created"
    BY <1>6 DEF Create, TypeOK
  <2>6. file'.node = i /\ ~file'.stale
    BY <2>1
  <2> QED BY <2>2, <2>3, <2>4, <2>5, <2>6
<1>7. ASSUME NEW r \in Runs, Write(r) \/ Refresh(r)
      PROVE  OwnersFile' /\ RemovesStale'
  <2>1. Owns(r) /\ file \in Files /\ file' \in Files
    <3>1. Owns(r)
      BY <1>7 DEF Write, Refresh
    <3>2. file \in Files
      BY <3>1 DEF TypeOK
    <3> QED BY <1>7, <3>1, <3>2 DEF Write, Refresh, Files
  <2>2. file'.node = file.node /\ ~file'.stale /\ node' = node
    BY <1>7, <2>1 DEF Write, Refresh, Files
  <2>3. file' # NoFile
    BY <2>1, NoFileAssumption
  <2>4. \A s \in Runs : Owns(s)' => s = r
    BY <1>7 DEF Write, Refresh, TypeOK
  <2>5. \A s \in Runs : pc'[s] = "removing" => pc[s] = "removing"
    BY <1>7 DEF Write, Refresh, TypeOK
  <2> QED BY <2>1, <2>2, <2>3, <2>4, <2>5
<1>8. ASSUME NEW r \in Runs, Identify(r)
      PROVE  OwnersFile' /\ RemovesStale'
  BY <1>8 DEF Identify, TypeOK
<1>9. ASSUME NEW r \in Runs, Release(r) \/ Crash(r)
      PROVE  OwnersFile' /\ RemovesStale'
  BY <1>9 DEF Release, Crash, TypeOK
<1> QED
  BY <1>1, <1>2, <1>3, <1>4, <1>5, <1>6, <1>7, <1>8, <1>9 DEF Next, Run

LEMMA Inductive ==
  ASSUME ~InodeReuse, IInv, [Next]_vars
  PROVE  IInv'
<1>1. pauses' = pauses
  BY DEF Next, vars, Run, Begin, Create, FileExists, LookGone, Held, JudgeStale,
         RemoveIfUnchanged, Write, Identify, Refresh, Release, Crash, Age
<1> QED BY <1>1, NextType, OwnersKept DEF IInv

(* Fresh locks belong to runs that live, and what is removed is stale      *)
(* (app/locks.py, _remove_if_unchanged).                                   *)
THEOREM Safety == ~InodeReuse => (Spec => []IInv)
<1> SUFFICES ASSUME ~InodeReuse PROVE Spec => []IInv
  OBVIOUS
<1>1. Init => IInv
  BY InitType DEF IInv, Init, OwnersFile, RemovesStale, Owns
<1>2. IInv /\ [Next]_vars => IInv'
  BY Inductive
<1> QED BY <1>1, <1>2, PTL DEF Spec

(* One run at most holds the lock (locks.py, "jobs that must never run     *)
(* twice at once on the same volume").                                     *)
THEOREM OneHolder == ~InodeReuse => (Spec => []MutualExclusion)
<1> SUFFICES ASSUME ~InodeReuse PROVE Spec => []MutualExclusion
  OBVIOUS
<1>1. IInv => MutualExclusion
  BY DEF IInv, OwnersFile, Owns, MutualExclusion
<1> QED BY <1>1, Safety, PTL

(* A lock goes when it is stale or its own run ends (_remove_if_unchanged, *)
(* HeldLock.release).                                                      *)
THEOREM LocksKept == ~InodeReuse => (Spec => ForeignLockKept)
<1> DEFINE Justified ==
      \/ file.stale
      \/ \E r \in Runs : pc[r] = "held" /\ pc'[r] = "idle" /\ file.text = r
<1> SUFFICES ASSUME ~InodeReuse PROVE Spec => ForeignLockKept
  OBVIOUS
<1>1. IInv /\ [Next]_vars
        => [~pauses /\ file # NoFile /\ file' = NoFile => Justified]_vars
  <2> SUFFICES ASSUME IInv, Next, ~pauses, file # NoFile, file' = NoFile
               PROVE  Justified
    OBVIOUS
  <2>1. ASSUME NEW r \in Runs, RemoveIfUnchanged(r)
        PROVE  Justified
    BY <2>1 DEF RemoveIfUnchanged, Unchanged, IInv, RemovesStale
  <2>2. ASSUME NEW r \in Runs, Release(r)
        PROVE  Justified
    BY <2>2 DEF Release, Ours, IInv, TypeOK
  <2>3. \E r \in Runs : RemoveIfUnchanged(r) \/ Release(r)
    <3>1. file \in Files
      BY DEF IInv, TypeOK
    <3>2. ASSUME NEW r \in Runs, Write(r) \/ Refresh(r)
          PROVE  FALSE
      BY <3>1, <3>2, NoFileAssumption DEF Write, Refresh, Files, IInv, TypeOK
    <3>3. ~Age
      BY <3>1, NoFileAssumption DEF Age, Files
    <3> QED
      BY <3>2, <3>3 DEF Next, Run, Begin, Create, FileExists, LookGone, Held,
                        JudgeStale, Identify, Crash
  <2> QED BY <2>1, <2>2, <2>3
<1> QED BY <1>1, Safety, PTL DEF Spec, ForeignLockKept

(* A run touches a lock only while its own text is in it (HeldLock._ours,  *)
(* in refresh and release), also when it paused past the limit.            *)
THEOREM OthersLocksKept == Spec => PausedRunKeepsOff
<1> DEFINE Revived ==
      /\ file # NoFile /\ file' # NoFile /\ file.stale /\ ~file'.stale
         => \E r \in Runs : pc[r] = "held" /\ file.text = r
<1> DEFINE Released ==
      \A r \in Runs : pc[r] = "held" /\ pc'[r] = "idle" /\ file' # file
        => file.text = r
<1>1. TypeOK /\ [Next]_vars => [Revived /\ Released]_vars
  <2> SUFFICES ASSUME TypeOK, Next
               PROVE  Revived /\ Released
    OBVIOUS
  <2>1. CASE Age
    BY <2>1 DEF Age, TypeOK, Files
  <2>2. ASSUME NEW r \in Runs, Release(r)
        PROVE  Revived /\ Released
    BY <2>2 DEF Release, Ours, TypeOK
  <2>3. ASSUME NEW r \in Runs, Refresh(r)
        PROVE  Revived /\ Released
    BY <2>3 DEF Refresh, Ours, TypeOK
  <2>4. ASSUME NEW r \in Runs, Write(r)
        PROVE  Revived /\ Released
    BY <2>4 DEF Write, Unchanged, TypeOK, Files
  <2>5. ASSUME NEW r \in Runs, RemoveIfUnchanged(r)
        PROVE  Revived /\ Released
    BY <2>5 DEF RemoveIfUnchanged, NextAttempt, TypeOK
  <2>6. ASSUME NEW r \in Runs, Create(r)
        PROVE  Revived /\ Released
    BY <2>6 DEF Create, TypeOK
  <2>7. ASSUME NEW r \in Runs,
               \/ Begin(r) \/ FileExists(r) \/ LookGone(r) \/ Held(r) \/ JudgeStale(r)
               \/ Identify(r) \/ Crash(r)
        PROVE  Revived /\ Released
    BY <2>7 DEF Begin, FileExists, LookGone, Held, JudgeStale, Identify, Crash
  <2> QED
    BY <2>1, <2>2, <2>3, <2>4, <2>5, <2>6, <2>7 DEF Next, Run
<1> QED BY <1>1, TypeCorrect, PTL DEF Spec, PausedRunKeepsOff
=============================================================================
