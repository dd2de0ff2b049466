-------------------------- MODULE ArchiveFollower ---------------------------
(***************************************************************************)
(* How a worker of the API follows active.json: the registry it opens when *)
(* it starts (app/wiring.py, app/sources/zim/registry.py), the watcher it  *)
(* sets up last (app/main.py), and the look before each request            *)
(* (app/sources/zim/refresh.py, active.py, app/api/active_archives.py).    *)
(*                                                                         *)
(* The sync job (module ZimSync) is here what the worker sees of it: files *)
(* change on the volume and active.json is replaced.  The signature the    *)
(* watcher compares, time of modification and size, differs for each       *)
(* active.json ever written; "current" says whether the signature it saw   *)
(* last is that of the file now.                                           *)
(***************************************************************************)
EXTENDS Naturals, FiniteSets

CONSTANTS
  Archives,     \* the archive files active.json may name
  Newest,       \* those newest_dumps finds without an active.json
  Threads,      \* the threads that refresh before requests
  MaxWrites,    \* a bound on the changes of active.json
  MaxFailures,  \* a bound on what cannot be looked at, read or opened
  Missing,      \* no active.json
  Corrupt       \* an active.json that is no JSON object

FollowerAssumption ==
  /\ Newest \subseteq Archives
  /\ MaxWrites \in Nat /\ MaxFailures \in Nat

VARIABLES
  active,    \* active.json: the archives it names
  stage,     \* of the worker's start: it opens archives, then loads models, then serves
  archives,  \* the archives its registry holds
  skipped,   \* those that did not open when it was last filled
  current,   \* whether the watcher saw the file as it is now
  thread,    \* where each thread stands in refresh
  names,     \* what the thread with the refresher's lock read
  writes, failures

worker == <<stage, archives, skipped, current, thread, names>>
vars == <<active, worker, writes, failures>>

Contents == {Missing, Corrupt} \cup SUBSET Archives

TypeOK ==
  /\ active \in Contents
  /\ stage \in {"off", "loading", "serving"}
  /\ archives \subseteq Archives /\ skipped \subseteq Archives
  /\ current \in BOOLEAN
  /\ thread \in [Threads -> {"idle", "changed", "reading"}]
  /\ Cardinality({t \in Threads : thread[t] = "reading"}) <= 1
  /\ names \subseteq Archives
  /\ writes \in 0 .. MaxWrites
  /\ failures \in 0 .. MaxFailures

Init ==
  /\ active \in Contents
  /\ stage = "off"
  /\ archives = {} /\ skipped = {}
  /\ current = FALSE
  /\ thread = [t \in Threads |-> "idle"]
  /\ names = {}
  /\ writes = 0 /\ failures = 0

(* The archives a readable active.json stands for.                         *)
Paths == IF active = Missing THEN Newest ELSE active

-----------------------------------------------------------------------------
(* The start of a worker                                                   *)

(* ZimRegistry.reload: what does not open is logged and skipped, whoever   *)
(* asked for it counts the change as served.                               *)
Open(paths) ==
  \E closed \in SUBSET paths :
    /\ archives' = paths \ closed
    /\ skipped' = closed
    /\ \/ closed = {} /\ UNCHANGED failures
       \/ closed # {} /\ failures < MaxFailures /\ failures' = failures + 1

(* ZimRegistry.from_active: a corrupt file yields an empty registry.       *)
OpenArchives ==
  /\ stage = "off"
  /\ stage' = "loading"
  /\ Open(IF active = Corrupt THEN {} ELSE Paths)
  /\ UNCHANGED <<active, current, thread, names, writes>>

(* The models are loaded; then the refresher is built, whose watcher takes *)
(* the signature of the file as it is then.  One it cannot look at counts  *)
(* as unseen.                                                              *)
Watch ==
  /\ stage = "loading"
  /\ stage' = "serving"
  /\ \/ current' = TRUE /\ UNCHANGED failures
     \/ current' = FALSE /\ failures < MaxFailures /\ failures' = failures + 1
  /\ UNCHANGED <<active, archives, skipped, thread, names, writes>>

Restart ==
  /\ stage = "serving"
  /\ failures < MaxFailures /\ failures' = failures + 1
  /\ stage' = "off"
  /\ archives' = {} /\ skipped' = {} /\ current' = FALSE
  /\ thread' = [t \in Threads |-> "idle"]
  /\ names' = {}
  /\ UNCHANGED <<active, writes>>

-----------------------------------------------------------------------------
(* RegistryRefresher.refresh, before each request                          *)

(* A change is seen, and counts as seen from now on.                       *)
Look(t) ==
  /\ stage = "serving"
  /\ thread[t] = "idle"
  /\ ~current
  /\ current' = TRUE
  /\ thread' = [thread EXCEPT ![t] = "changed"]
  /\ UNCHANGED <<active, stage, archives, skipped, names, writes, failures>>

Locked == \E t \in Threads : thread[t] = "reading"

(* Mutant: no lock.                                                        *)
ReadUnlocked(t) ==
  /\ thread[t] = "changed"
  /\ IF active = Corrupt
       THEN thread' = [thread EXCEPT ![t] = "idle"] /\ UNCHANGED names
       ELSE thread' = [thread EXCEPT ![t] = "reading"] /\ names' = Paths
  /\ UNCHANGED <<active, stage, archives, skipped, current, writes, failures>>

(* With the lock: the file is read.                                        *)
Read(t) ==
  /\ thread[t] = "changed"
  /\ ~Locked
  /\ IF active = Corrupt
       THEN thread' = [thread EXCEPT ![t] = "idle"] /\ UNCHANGED names
       ELSE thread' = [thread EXCEPT ![t] = "reading"] /\ names' = Paths
  /\ UNCHANGED <<active, stage, archives, skipped, current, writes, failures>>

(* Mutant: a failed read counts as seen (audit S3).                        *)
ReadFailsSeen(t) ==
  /\ thread[t] = "changed"
  /\ ~Locked
  /\ failures < MaxFailures /\ failures' = failures + 1
  /\ thread' = [thread EXCEPT ![t] = "idle"]
  /\ UNCHANGED <<active, stage, archives, skipped, current, names, writes>>

(* A failed read makes the file unseen again.                              *)
ReadFails(t) ==
  /\ thread[t] = "changed"
  /\ ~Locked
  /\ failures < MaxFailures /\ failures' = failures + 1
  /\ current' = FALSE
  /\ thread' = [thread EXCEPT ![t] = "idle"]
  /\ UNCHANGED <<active, stage, archives, skipped, names, writes>>

(* Mutant: a list without archives is not swapped in.                      *)
ReloadSome(t) ==
  /\ thread[t] = "reading"
  /\ IF names = {} THEN UNCHANGED <<archives, skipped, failures>> ELSE Open(names)
  /\ names' = {}
  /\ thread' = [thread EXCEPT ![t] = "idle"]
  /\ UNCHANGED <<active, stage, current, writes>>

(* The archives opened are swapped in as one list.                         *)
Reload(t) ==
  /\ thread[t] = "reading"
  /\ Open(names)
  /\ names' = {}
  /\ thread' = [thread EXCEPT ![t] = "idle"]
  /\ UNCHANGED <<active, stage, current, writes>>

-----------------------------------------------------------------------------
(* The sync job replaces active.json, or it is lost or damaged.            *)
Write ==
  /\ writes < MaxWrites /\ writes' = writes + 1
  /\ active' \in Contents
  /\ current' = FALSE
  /\ UNCHANGED <<stage, archives, skipped, thread, names, failures>>

Refresh(t) == Look(t) \/ Read(t) \/ Reload(t)

Next ==
  \/ OpenArchives \/ Watch \/ Restart \/ Write
  \/ \E t \in Threads : Refresh(t) \/ ReadFails(t)

Spec == Init /\ [][Next]_vars

(* A worker that starts gets to serve; requests keep coming, the probes of *)
(* the operator at the least, and each runs refresh to its end.            *)
Fairness ==
  /\ WF_vars(OpenArchives) /\ WF_vars(Watch)
  /\ \A t \in Threads : WF_vars(Refresh(t))

FairSpec == Spec /\ Fairness

-----------------------------------------------------------------------------
(* Properties                                                              *)

(* The registry holds what active.json names, but for what did not open:   *)
(* that stays closed until the file changes again or the worker restarts.  *)
InStep == active = Corrupt \/ archives \cup skipped = Paths

Settled == stage = "serving" /\ current /\ \A t \in Threads : thread[t] = "idle"

(* Whenever the last refresh under way ends and nothing counts as unseen,  *)
(* each archive active.json names is served or was found not to open       *)
(* (registry.py:42-45): no thread puts an older list over a newer one, and *)
(* no failed read counts as seen.                                          *)
SettledInStep == [][stage = "serving" /\ ~Settled /\ Settled' => InStep']_vars

(* A change the watcher has not seen is taken up some day: what it names   *)
(* is served, or was found not to open.                                    *)
ChangeServed == stage = "serving" /\ ~current ~> stage # "serving" \/ InStep

(* "Keeps one ZimRegistry in step with the state file the sync job writes" *)
(* (refresh.py:16): once the file changes no more, the worker has taken    *)
(* up what it names.                                                       *)
FollowsActive == <>[]InStep
=============================================================================
