------------------------------ MODULE LockFile ------------------------------
(***************************************************************************)
(* The lock files of app/locks.py, "for jobs that must never run twice at  *)
(* once on the same volume": the ZIM sync, the curriculum harvest, the     *)
(* GND and Wikidata builds and the template store take theirs this way.    *)
(*                                                                         *)
(* A run creates the file exclusively, writes its text into it and         *)
(* remembers the file's inode; a lock whose time of modification is old    *)
(* belongs to a crashed run and is taken over.  The look at the file       *)
(* before its removal and the removal are one step here, as are the check  *)
(* of one's own lock and what follows it: the window of microseconds       *)
(* locks.py names itself (lines 10 to 11).  The time from the judgement    *)
(* "stale" to that second look is not.                                     *)
(***************************************************************************)
EXTENDS Naturals, FiniteSets

CONSTANTS
  Runs,        \* processes and containers that share the volume
  Inodes,      \* the inodes of the volume
  InodeReuse,  \* whether a new file may get the inode of a deleted one
  MaxCrashes,  \* a bound on the crashes of a behaviour
  NoFile,      \* no lock file
  NoText       \* the text of a file created but not written yet

ASSUME LockAssumption ==
  /\ InodeReuse \in BOOLEAN
  /\ MaxCrashes \in Nat
  /\ NoText \notin Runs

Tries == 3  \* of acquire_lock

VARIABLES
  file,     \* the lock file: its inode, its text, and whether it is stale
  pc,       \* where each run stands
  attempt,  \* the attempt of acquire_lock it makes
  node,     \* the inode it remembers: seen as stale, created, or its own
  pauses,   \* whether runs may pause past the limit of staleness
  crashes   \* the crashes so far

vars == <<file, pc, attempt, node, pauses, crashes>>

Files == [node : Inodes, text : Runs \cup {NoText}, stale : BOOLEAN]

ASSUME NoFileAssumption == NoFile \notin Files

Places == {"idle", "trying", "looking", "removing", "created", "written", "held"}

TypeOK ==
  /\ file \in Files \cup {NoFile}
  /\ pc \in [Runs -> Places]
  /\ attempt \in [Runs -> 1 .. Tries]
  /\ node \in [Runs -> Inodes \cup {NoFile}]
  /\ pauses \in BOOLEAN
  /\ crashes \in 0 .. MaxCrashes

Init ==
  /\ file = NoFile
  /\ pc = [r \in Runs |-> "idle"]
  /\ attempt = [r \in Runs |-> 1]
  /\ node = [r \in Runs |-> NoFile]
  /\ pauses \in BOOLEAN
  /\ crashes = 0

GoTo(r, place) == pc' = [pc EXCEPT ![r] = place]

Remember(r, i) == node' = [node EXCEPT ![r] = i]
Forget(r) == Remember(r, NoFile)

Leave(r) == GoTo(r, "idle") /\ Forget(r)

(* No file has the inode.  Without reuse no run may still go by it either; *)
(* a file that is open keeps its inode anyway.                             *)
Free(i) == \A r \in Runs : node[r] = i => InodeReuse /\ pc[r] # "created"

(* The lock of a run that lives and goes by this file.                     *)
Alive == \E r \in Runs : pc[r] \in {"created", "written", "held"} /\ node[r] = file.node

-----------------------------------------------------------------------------
(* acquire_lock                                                            *)

Begin(r) ==
  /\ pc[r] = "idle"
  /\ GoTo(r, "trying")
  /\ UNCHANGED <<file, attempt, node, pauses, crashes>>

Create(r) ==
  /\ pc[r] = "trying"
  /\ file = NoFile
  /\ \E i \in Inodes :
       /\ Free(i)
       /\ file' = [node |-> i, text |-> NoText, stale |-> FALSE]
       /\ Remember(r, i)
  /\ GoTo(r, "created")
  /\ UNCHANGED <<attempt, pauses, crashes>>

FileExists(r) ==
  /\ pc[r] = "trying"
  /\ file # NoFile
  /\ GoTo(r, "looking")
  /\ UNCHANGED <<file, attempt, node, pauses, crashes>>

(* Mutant: the attempts have no end.                                       *)
AnotherAttempt(r) == GoTo(r, "trying") /\ attempt' = [attempt EXCEPT ![r] = @ + 1]

(* The loop goes on, or ends in LockHeldError after the third attempt.     *)
NextAttempt(r) ==
  IF attempt[r] < Tries
    THEN GoTo(r, "trying") /\ attempt' = [attempt EXCEPT ![r] = @ + 1]
    ELSE GoTo(r, "idle") /\ attempt' = [attempt EXCEPT ![r] = 1]

(* The file was released between the attempt and the look.                 *)
LookGone(r) ==
  /\ pc[r] = "looking"
  /\ file = NoFile
  /\ NextAttempt(r)
  /\ UNCHANGED <<file, node, pauses, crashes>>

Held(r) ==
  /\ pc[r] = "looking"
  /\ file # NoFile
  /\ ~file.stale
  /\ GoTo(r, "idle")
  /\ attempt' = [attempt EXCEPT ![r] = 1]
  /\ UNCHANGED <<file, node, pauses, crashes>>

(* Mutant: the time of modification is not asked.                          *)
JudgeAny(r) ==
  /\ pc[r] = "looking"
  /\ file # NoFile
  /\ Remember(r, file.node)
  /\ GoTo(r, "removing")
  /\ UNCHANGED <<file, attempt, pauses, crashes>>

(* Mutant: a stale lock without a text in it is not taken over.            *)
JudgeWritten(r) ==
  /\ pc[r] = "looking"
  /\ file # NoFile
  /\ file.stale /\ file.text # NoText
  /\ Remember(r, file.node)
  /\ GoTo(r, "removing")
  /\ UNCHANGED <<file, attempt, pauses, crashes>>

JudgeStale(r) ==
  /\ pc[r] = "looking"
  /\ file # NoFile
  /\ file.stale
  /\ Remember(r, file.node)
  /\ GoTo(r, "removing")
  /\ UNCHANGED <<file, attempt, pauses, crashes>>

(* _remove_if_unchanged compares device and inode only.                    *)
Unchanged(r) == file # NoFile /\ file.node = node[r]

(* Mutant: whatever lies there by now is removed.                          *)
RemoveAny(r) ==
  /\ pc[r] = "removing"
  /\ file' = NoFile
  /\ NextAttempt(r)
  /\ Forget(r)
  /\ UNCHANGED <<pauses, crashes>>

RemoveIfUnchanged(r) ==
  /\ pc[r] = "removing"
  /\ file' = IF Unchanged(r) THEN NoFile ELSE file
  /\ NextAttempt(r)
  /\ Forget(r)
  /\ UNCHANGED <<pauses, crashes>>

(* The text goes into the file created, which may be gone by now.          *)
Write(r) ==
  /\ pc[r] = "created"
  /\ file' = IF Unchanged(r) THEN [file EXCEPT !.text = r] ELSE file
  /\ GoTo(r, "written")
  /\ UNCHANGED <<attempt, node, pauses, crashes>>

(* The identity is that of the file found under the path then.             *)
Identify(r) ==
  /\ pc[r] = "written"
  /\ IF file = NoFile
       THEN Leave(r)
       ELSE GoTo(r, "held") /\ Remember(r, file.node)
  /\ attempt' = [attempt EXCEPT ![r] = 1]
  /\ UNCHANGED <<file, pauses, crashes>>

-----------------------------------------------------------------------------
(* The run that holds a lock, and what happens to it                       *)

Ours(r) == file # NoFile /\ file.node = node[r] /\ file.text = r

(* Mutant: the sign of life goes to the file under the path.               *)
RefreshAny(r) ==
  /\ pc[r] = "held"
  /\ file # NoFile
  /\ file' = [file EXCEPT !.stale = FALSE]
  /\ UNCHANGED <<pc, attempt, node, pauses, crashes>>

Refresh(r) ==
  /\ pc[r] = "held"
  /\ Ours(r)
  /\ file' = [file EXCEPT !.stale = FALSE]
  /\ UNCHANGED <<pc, attempt, node, pauses, crashes>>

Release(r) ==
  /\ pc[r] = "held"
  /\ file' = IF Ours(r) THEN NoFile ELSE file
  /\ Leave(r)
  /\ UNCHANGED <<attempt, pauses, crashes>>

(* The process dies; another one may start in its place.                   *)
Crash(r) ==
  /\ pc[r] # "idle"
  /\ crashes < MaxCrashes
  /\ crashes' = crashes + 1
  /\ Leave(r)
  /\ attempt' = [attempt EXCEPT ![r] = 1]
  /\ UNCHANGED <<file, pauses>>

(* stale_s pass without a sign of life.  A run that lives refreshes its    *)
(* lock in time, unless it pauses past the limit.                          *)
Age ==
  /\ file # NoFile
  /\ ~file.stale
  /\ pauses \/ ~Alive
  /\ file' = [file EXCEPT !.stale = TRUE]
  /\ UNCHANGED <<pc, attempt, node, pauses, crashes>>

Run(r) ==
  \/ Create(r) \/ FileExists(r) \/ LookGone(r) \/ Held(r) \/ JudgeStale(r)
  \/ RemoveIfUnchanged(r) \/ Write(r) \/ Identify(r) \/ Release(r)

Next ==
  \/ \E r \in Runs : Begin(r) \/ Run(r) \/ Refresh(r) \/ Crash(r)
  \/ Age

Spec == Init /\ [][Next]_vars

(* A job that holds the lock ends some day, and each job comes round       *)
(* again: their loops run for as long as the services do.                  *)
Fairness ==
  /\ WF_vars(Age)
  /\ \A r \in Runs : WF_vars(Begin(r)) /\ WF_vars(Run(r))

FairSpec == Spec /\ Fairness

-----------------------------------------------------------------------------
(* Properties                                                              *)

(* "Jobs that must never run twice at once" (line 1): while nobody pauses  *)
(* past the limit, one run at most holds the lock, whoever crashes and     *)
(* whoever takes over from it.                                             *)
MutualExclusion ==
  ~pauses => \A r, s \in Runs : pc[r] = "held" /\ pc[s] = "held" => r = s

(* "A foreign lock is never removed otherwise" (line 5): while nobody      *)
(* pauses past the limit, a lock goes only when it is stale, or with the   *)
(* run that wrote it.                                                      *)
ForeignLockKept ==
  [][~pauses /\ file # NoFile /\ file' = NoFile
       => \/ file.stale
          \/ \E r \in Runs : pc[r] = "held" /\ pc'[r] = "idle" /\ file.text = r]_vars

(* "A run that paused past the limit neither refreshes nor removes the     *)
(* lock another run took over meanwhile": a sign of life and a release     *)
(* touch only a lock with the text of the run that gives it.               *)
PausedRunKeepsOff ==
  [][/\ file # NoFile /\ file' # NoFile /\ file.stale /\ ~file'.stale
          => \E r \in Runs : pc[r] = "held" /\ file.text = r
     /\ \A r \in Runs : pc[r] = "held" /\ pc'[r] = "idle" /\ file' # file
          => file.text = r]_vars

(* The lock of a crashed run does not stay for ever: some run removes it.  *)
AbandonedLockGoes == file # NoFile /\ ~Alive ~> file = NoFile \/ Alive
=============================================================================
