----------------------------- MODULE LocalIndex -----------------------------
(***************************************************************************)
(* How the workers of the API read an index file that a sync replaces:     *)
(* one connection for each worker, opened again when a look - one a minute *)
(* at most, by whichever request thread comes - finds another file         *)
(* (app/sources/local_index.py); and the copies of the file on the pod's   *)
(* disk, which its workers share (app/sources/local_copy.py).              *)
(*                                                                         *)
(* The versions of the file are numbered in the order they are put in      *)
(* place.  A path is the number of the version whose copy it names, or     *)
(* Volume.  The identity of a file (inode, size, time of modification) is  *)
(* the version it was made of and the number of the copy, zero for the     *)
(* file of the volume.                                                     *)
(***************************************************************************)
EXTENDS Integers, SequencesExt

CONSTANTS
  Workers,      \* the workers of the pod
  Threads,      \* their request threads
  Pods,         \* the ways the threads may belong to the workers
  Broken,       \* the versions whose pages or schema cannot be read
  MaxVersion,   \* a bound on the versions
  MaxCopies,    \* a bound on the copies made
  MaxFailures   \* a bound on what goes wrong, for each of these ways

Volume == 0
Missing == 0     \* no version of the file, no connection
NoFile == <<Missing, 0>>
NoThread == "none"

IndexAssumption ==
  /\ Pods \subseteq [Threads -> Workers]
  /\ NoThread \notin Threads
  /\ MaxVersion \in Nat \ {0} /\ MaxCopies \in Nat
  /\ MaxFailures \in [Pods -> Nat]

VARIABLES
  workerOf,  \* workerOf[t]: the worker thread t belongs to
  volume,    \* the version on the volume
  copying,   \* whether the pod has a directory for copies
  copies,    \* its copies, the oldest first: what each is named by and holds
  made,      \* the copies made so far
  due,       \* due[w]: the last look of worker w is a minute old
  reads,     \* reads[w]: the version w's connection reads (_connection)
  identity,  \* identity[w]: of the file it was opened for (_identity)
  current,   \* current[w]: the version LocalCopy._current names
  failed,    \* failed[w]: the version whose copy failed (LocalCopy._failed)
  copier,    \* copier[w]: the thread with LocalCopy._lock
  pc,        \* where each thread stands
  path,      \* path[t]: what thread t was named
  seen,      \* seen[t]: the identity it found there
  named,     \* named[t]: the number of the copy thread t was named
  failures

pod == <<workerOf, copying>>
store == <<copies, made>>
connections == <<reads, identity>>
copiers == <<current, failed, copier>>
looks == <<pc, path, seen, named>>
vars == <<pod, volume, store, due, connections, copiers, looks, failures>>

Versions == 1 .. MaxVersion
Identities == {NoFile} \cup (Versions \X (0 .. MaxCopies))

TypeOK ==
  /\ workerOf \in Pods
  /\ volume \in 0 .. MaxVersion
  /\ copying \in BOOLEAN
  /\ made \in 0 .. MaxCopies
  /\ copies \in Seq([of : Versions, holds : Versions, nr : 1 .. MaxCopies])
  /\ due \in [Workers -> BOOLEAN]
  /\ reads \in [Workers -> 0 .. MaxVersion]
  /\ identity \in [Workers -> Identities]
  /\ current \in [Workers -> 0 .. MaxVersion]
  /\ failed \in [Workers -> 0 .. MaxVersion]
  /\ copier \in [Workers -> Threads \cup {NoThread}]
  /\ pc \in [Threads -> {"idle", "copying", "named", "seen"}]
  /\ path \in [Threads -> 0 .. MaxVersion]
  /\ seen \in [Threads -> Identities]
  /\ named \in [Threads -> 0 .. MaxCopies]
  /\ failures \in 0 .. MaxFailures[workerOf]

(* A worker opens the volume's file when it starts; with a directory for   *)
(* copies it has none yet.                                                 *)
Init ==
  /\ workerOf \in Pods
  /\ volume \in {Missing, 1}
  /\ copying \in BOOLEAN
  /\ copies = <<>> /\ made = 0
  /\ due = [w \in Workers |-> TRUE]
  /\ reads = [w \in Workers |-> IF volume \in Broken THEN Missing ELSE volume]
  /\ identity = [w \in Workers |-> <<volume, 0>>]
  /\ current = [w \in Workers |-> Missing]
  /\ failed = [w \in Workers |-> Missing]
  /\ copier = [w \in Workers |-> NoThread]
  /\ pc = [t \in Threads |-> "idle"]
  /\ path = [t \in Threads |-> Volume]
  /\ seen = [t \in Threads |-> NoFile]
  /\ named = [t \in Threads |-> 0]
  /\ failures = 0

Copied == {copies[i].of : i \in DOMAIN copies}
Others(v) ==
  IF v \in Copied THEN RemoveAt(copies, CHOOSE i \in DOMAIN copies : copies[i].of = v)
                  ELSE copies
CopyOf(v) == CHOOSE c \in {copies[i] : i \in DOMAIN copies} : c.of = v

(* The identity of the file at path p, and what a connection to it reads.  *)
IdentityAt(p) ==
  IF p = Volume THEN <<volume, 0>>
  ELSE IF p \in Copied THEN <<p, CopyOf(p).nr>>
  ELSE NoFile
ContentAt(p) ==
  IF p = Volume THEN volume
  ELSE IF p \in Copied THEN CopyOf(p).holds
  ELSE Missing

-----------------------------------------------------------------------------
(* A request thread looks for another file                                 *)

Goes(t, place) == pc' = [pc EXCEPT ![t] = place]

Done(t) ==
  /\ Goes(t, "idle")
  /\ path' = [path EXCEPT ![t] = Volume]
  /\ seen' = [seen EXCEPT ![t] = NoFile]
  /\ named' = [named EXCEPT ![t] = 0]

(* LocalCopy.path has named path p to thread t.                            *)
Named(t, p) ==
  /\ Goes(t, "named")
  /\ path' = [path EXCEPT ![t] = p]
  /\ named' = [named EXCEPT ![t] = IF p \in Copied THEN CopyOf(p).nr ELSE 0]

(* _recheck: a minute has passed since the last look; this one counts.  A  *)
(* thread that waits for the lock of the copy has not looked yet.          *)
Looks(t) ==
  /\ pc[t] = "idle"
  /\ due[workerOf[t]]
  /\ due' = [due EXCEPT ![workerOf[t]] = FALSE]

Usable(w) == current[w] # Missing /\ current[w] \in Copied

(* No directory, or a probe that must not copy: the copy there is, else    *)
(* the file of the volume.                                                 *)
NameWithoutCopying(t) ==
  LET w == workerOf[t] IN
  /\ Looks(t)
  /\ Named(t, IF copying /\ Usable(w) THEN current[w] ELSE Volume)
  /\ UNCHANGED <<pod, store, connections, copiers, volume, seen, failures>>

(* Another thread copies: a whole copy serves meanwhile.                   *)
NameWhileCopied(t) ==
  LET w == workerOf[t] IN
  /\ Looks(t)
  /\ copying
  /\ copier[w] # NoThread
  /\ Usable(w)
  /\ Named(t, current[w])
  /\ UNCHANGED <<pod, store, connections, copiers, volume, seen, failures>>

(* _refresh, with the lock, when nothing is to be copied: the file is gone *)
(* or its version failed a while ago, or its copy is there.                *)
NameAtOnce(t) ==
  LET w == workerOf[t] IN
  /\ Looks(t)
  /\ copying
  /\ copier[w] = NoThread
  /\ \/ volume = Missing
     \/ volume \in Copied
     \/ volume = failed[w]
  /\ current' = [current EXCEPT ![w] =
       IF volume \in Copied THEN volume ELSE Missing]
  /\ Named(t, current'[w])
  /\ UNCHANGED <<pod, store, connections, volume, failed, copier, seen,
                 failures>>

(* The file of the volume cannot be looked at: the copy is kept.           *)
NameUnseen(t) ==
  LET w == workerOf[t] IN
  /\ Looks(t)
  /\ copying
  /\ copier[w] = NoThread
  /\ failures < MaxFailures[workerOf] /\ failures' = failures + 1
  /\ Named(t, current[w])
  /\ UNCHANGED <<pod, store, connections, copiers, volume, seen>>

(* The version of the open handle is copied; path remembers it.            *)
StartCopy(t) ==
  LET w == workerOf[t] IN
  /\ Looks(t)
  /\ copying
  /\ copier[w] = NoThread
  /\ volume # Missing
  /\ volume \notin Copied
  /\ volume # failed[w]
  /\ copier' = [copier EXCEPT ![w] = t]
  /\ Goes(t, "copying")
  /\ path' = [path EXCEPT ![t] = volume]
  /\ UNCHANGED <<pod, store, connections, volume, current, failed, seen,
                 named, failures>>

(* Mutant: only the copy just made stays.                                  *)
PrunedToOne(kept) == SubSeq(kept, Len(kept), Len(kept))

(* _prune: beside the copy just made, which is the newest, the newest of   *)
(* the others stays.                                                       *)
Pruned(kept) == SubSeq(kept, Max({1, Len(kept) - 1}), Len(kept))

(* Mutant: the copy is named after the file of the volume as it is when    *)
(* the copy is done, not after the handle it was read through.             *)
CopyNamedLate(t) ==
  LET w == workerOf[t]
      name == IF volume = Missing THEN path[t] ELSE volume
      copy == [of |-> name, holds |-> path[t], nr |-> made + 1] IN
  /\ pc[t] = "copying"
  /\ made < MaxCopies
  /\ made' = made + 1
  /\ copies' = Pruned(Append(Others(name), copy))
  /\ current' = [current EXCEPT ![w] = name]
  /\ copier' = [copier EXCEPT ![w] = NoThread]
  /\ Goes(t, "named")
  /\ path' = [path EXCEPT ![t] = name]
  /\ named' = [named EXCEPT ![t] = made + 1]
  /\ UNCHANGED <<pod, connections, volume, due, failed, seen, failures>>

(* The copy is renamed into place - over that of another worker, perhaps - *)
(* and older ones go, in one step: between the two the directory only has  *)
(* more of them.                                                           *)
EndCopy(t) ==
  LET w == workerOf[t]
      copy == [of |-> path[t], holds |-> path[t], nr |-> made + 1] IN
  /\ pc[t] = "copying"
  /\ made < MaxCopies
  /\ made' = made + 1
  /\ copies' = Pruned(Append(Others(path[t]), copy))
  /\ current' = [current EXCEPT ![w] = path[t]]
  /\ copier' = [copier EXCEPT ![w] = NoThread]
  /\ Goes(t, "named")
  /\ named' = [named EXCEPT ![t] = made + 1]
  /\ UNCHANGED <<pod, connections, volume, due, failed, path, seen, failures>>

(* It cannot be made: the copy of another worker serves, or the file in    *)
(* place, and this version is not copied again for a while.                *)
CopyFails(t) ==
  LET w == workerOf[t]
      there == path[t] \in Copied IN
  /\ pc[t] = "copying"
  /\ \/ failures < MaxFailures[workerOf] /\ failures' = failures + 1
     \/ made = MaxCopies /\ UNCHANGED failures  \* the disk is full
  /\ current' = [current EXCEPT ![w] = IF there THEN path[t] ELSE Missing]
  /\ failed' = IF there THEN failed ELSE [failed EXCEPT ![w] = path[t]]
  /\ copier' = [copier EXCEPT ![w] = NoThread]
  /\ Named(t, IF there THEN path[t] ELSE Volume)
  /\ UNCHANGED <<pod, store, connections, volume, due, seen>>

(* _file_identity: the path is looked at.                                  *)
Stat(t) ==
  LET w == workerOf[t]
      found == IdentityAt(path[t]) IN
  /\ pc[t] = "named"
  /\ IF found = identity[w]
       THEN Done(t)
       ELSE /\ Goes(t, "seen")
            /\ seen' = [seen EXCEPT ![t] = found]
            /\ UNCHANGED <<path, named>>
  /\ UNCHANGED <<pod, store, connections, copiers, volume, due, failures>>

(* A file of the volume that cannot be looked at counts as missing.        *)
StatFails(t) ==
  /\ pc[t] = "named"
  /\ path[t] = Volume
  /\ failures < MaxFailures[workerOf] /\ failures' = failures + 1
  /\ Goes(t, "seen")
  /\ seen' = [seen EXCEPT ![t] = NoFile]
  /\ UNCHANGED <<pod, store, connections, copiers, volume, due, path, named>>

(* Mutant: the identity is taken down when the file is found, the          *)
(* connection of before stays when the new one cannot be opened.           *)
ReopenKeepsOld(t) ==
  LET w == workerOf[t]
      content == ContentAt(path[t]) IN
  /\ pc[t] = "seen"
  /\ Done(t)
  /\ identity' = [identity EXCEPT ![w] = seen[t]]
  /\ reads' = [reads EXCEPT ![w] =
       IF content \in Broken \cup {Missing} THEN @ ELSE content]
  /\ UNCHANGED <<pod, store, copiers, volume, due, failures>>

(* _reopen, with the lock: what is at the path now is opened.  A file that *)
(* is missing or unusable leaves no connection.                            *)
Reopen(t) ==
  LET w == workerOf[t]
      content == ContentAt(path[t]) IN
  /\ pc[t] = "seen"
  /\ Done(t)
  /\ IF seen[t] = identity[w] THEN UNCHANGED connections
     ELSE /\ identity' = [identity EXCEPT ![w] = seen[t]]
          /\ reads' = [reads EXCEPT ![w] =
               IF seen[t] = NoFile \/ content \in Broken
                 THEN Missing ELSE content]
  /\ UNCHANGED <<pod, store, copiers, volume, due, failures>>

(* _open or a lookup meets an error of SQLite: nothing is read, and the    *)
(* identity stays, so the file is not opened again.                        *)
Drop(w) ==
  /\ reads[w] # Missing
  /\ failures < MaxFailures[workerOf] /\ failures' = failures + 1
  /\ reads' = [reads EXCEPT ![w] = Missing]
  /\ UNCHANGED <<pod, store, copiers, looks, volume, due, identity>>

-----------------------------------------------------------------------------
(* The world around                                                        *)

(* A sync swaps in the next version.                                       *)
Swap ==
  /\ volume < MaxVersion
  /\ volume' = volume + 1
  /\ UNCHANGED <<pod, store, connections, copiers, looks, due, failures>>

MinutePasses(w) ==
  /\ ~due[w]
  /\ due' = [due EXCEPT ![w] = TRUE]
  /\ UNCHANGED <<pod, store, connections, copiers, looks, volume, failures>>

(* RETRY_FAILED_S is over.                                                 *)
CopyAgain(w) ==
  /\ failed[w] # Missing
  /\ failed' = [failed EXCEPT ![w] = Missing]
  /\ UNCHANGED <<pod, store, connections, looks, volume, due, current, copier,
                 failures>>

Name(t) ==
  \/ NameWithoutCopying(t) \/ NameWhileCopied(t) \/ NameAtOnce(t)
  \/ StartCopy(t) \/ EndCopy(t) \/ CopyFails(t)

Next ==
  \/ Swap
  \/ \E w \in Workers : Drop(w) \/ MinutePasses(w) \/ CopyAgain(w)
  \/ \E t \in Threads :
       \/ NameWithoutCopying(t) \/ NameWhileCopied(t) \/ NameAtOnce(t)
       \/ NameUnseen(t) \/ StartCopy(t) \/ EndCopy(t) \/ CopyFails(t)
       \/ Stat(t) \/ StatFails(t) \/ Reopen(t)

Spec == Init /\ [][Next]_vars

(* Time passes; requests come to each worker, run through their look, and  *)
(* they are not all probes that must not copy.                             *)
Fairness ==
  /\ \A w \in Workers :
       /\ WF_vars(MinutePasses(w)) /\ WF_vars(CopyAgain(w))
       /\ SF_vars(\E t \in Threads :
            /\ workerOf[t] = w
            /\ NameAtOnce(t) \/ NameWhileCopied(t) \/ StartCopy(t))
  /\ \A t \in Threads : WF_vars(Name(t) \/ Stat(t) \/ Reopen(t))

FairSpec == Spec /\ Fairness

-----------------------------------------------------------------------------
(* Properties                                                              *)

(* A worker that reads an index loses it only to an error, to an unusable  *)
(* file, to a volume it cannot look at, or when two newer copies were made *)
(* while a thread was on its way to the one it had been named              *)
(* (local_copy.py:131-133).                                                *)
ServesOn ==
  [][\A w \in Workers :
       reads[w] # Missing /\ reads'[w] = Missing =>
         \/ failures' # failures
         \/ \E t \in Threads :
              /\ workerOf[t] = w /\ pc[t] = "seen"
              /\ \/ ContentAt(path[t]) \in Broken
                 \/ path[t] = Volume /\ seen[t] = NoFile
                 \/ path[t] # Volume /\ made >= named[t] + 2]_vars

(* The index a worker has given up: no other file took its place.          *)
GivenUp(w) == reads[w] = Missing /\ identity[w] # NoFile

(* "It notices another file at most recheck_s seconds later and opens that *)
(* one, without a restart" (local_index.py:5-6): once the syncs are        *)
(* through, each worker reads the last version, copies or none.            *)
FollowsFile ==
  <>[](\A t \in Threads :
         reads[workerOf[t]] = volume \/ GivenUp(workerOf[t]))
=============================================================================
