------------------------------ MODULE DumpSync ------------------------------
(***************************************************************************)
(* How an index file is kept in step with the releases of its source: the  *)
(* check of the updater and its run (app/sources/dump_sync.py, the due of  *)
(* gnd/sync.py and wikidata/sync.py), the build by hand beside it          *)
(* (app/cli_sync.py, run_build), and the swap of both                      *)
(* (app/sources/local_index.py, write_atomically).                         *)
(*                                                                         *)
(* Releases are numbered in the order they come out.  The GND index        *)
(* follows its source; the Wikidata index follows the active Wikipedia     *)
(* archive, and its source is asked only when that is newer.  The lock is  *)
(* what module LockFile provides: one process at a time, and the lock of a *)
(* process that died goes stale.  Every step ends where something lasting  *)
(* was done, so a crash between two steps leaves what a real one does.     *)
(***************************************************************************)
EXTENDS Integers, FiniteSets

CONSTANTS
  MaxRelease,  \* a bound on the releases
  MaxFaults,   \* a bound on what goes wrong
  MaxBuilds    \* a bound on the builds by hand

ASSUME DumpAssumption ==
  MaxRelease \in Nat \ {0} /\ MaxFaults \in Nat /\ MaxBuilds \in Nat

Loop == "loop"
Hand == "hand"
Processes == {Loop, Hand}
Releases == 1 .. MaxRelease
NoRelease == 0
Half == -1   \* an index that is not whole

VARIABLES
  follows,  \* what the index follows: "source" (GND) or "archive" (Wikidata)
  archive,  \* the first release dated no earlier than the active archive, 0 for none
  newest,   \* the newest release of the source
  index,    \* the release the index file was built from
  sound,    \* whether all its pages can be read
  part,     \* the .part file next to it
  dumps,    \* the releases whose files are in the dump directory
  status,   \* the status file: state, and of last_run its ok and release
  lock,     \* who made the lock file
  pc,       \* where each process stands
  release,  \* the release each builds
  faults, builds

files == <<index, sound, part, dumps>>
world == <<follows, archive, newest>>
vars == <<world, files, status, lock, pc, release, faults, builds>>

NoPart == [by |-> "nobody", of |-> NoRelease, whole |-> FALSE]
Parts == [by : Processes, of : Releases, whole : BOOLEAN] \cup {NoPart}
Statuses == [state : {"none", "running", "idle"}, ok : {"yes", "no", "open"},
             of : 0 .. MaxRelease]

TypeOK ==
  /\ follows \in {"source", "archive"}
  /\ archive \in 0 .. MaxRelease + 1
  /\ newest \in Releases
  /\ index \in Releases \cup {NoRelease}
  /\ sound \in BOOLEAN
  /\ part \in Parts
  /\ dumps \subseteq Releases
  /\ status \in Statuses
  /\ lock \in Processes \cup {"free", "dead"}
  /\ pc \in [Processes ->
       {"idle", "due", "locked", "running", "found", "downloaded", "building",
        "built", "swapped", "cleaned", "failing", "stopping", "written"}]
  /\ release \in [Processes -> 0 .. MaxRelease]
  /\ faults \in 0 .. MaxFaults /\ builds \in 0 .. MaxBuilds

Init ==
  /\ follows \in {"source", "archive"}
  /\ archive = 0
  /\ newest = 1
  /\ index \in {NoRelease, 1}
  /\ sound = TRUE
  /\ part = NoPart
  /\ dumps = {}
  /\ status = [state |-> "none", ok |-> "open", of |-> NoRelease]
  /\ lock = "free"
  /\ pc = [p \in Processes |-> "idle"]
  /\ release = [p \in Processes |-> NoRelease]
  /\ faults = 0 /\ builds = 0

Goes(p, place) == pc' = [pc EXCEPT ![p] = place]
Fault == faults < MaxFaults /\ faults' = faults + 1

-----------------------------------------------------------------------------
(* The check of the updater                                                *)

(* Mutant: an index is needed only where there is none.                    *)
NeededWhereNone == index = NoRelease

(* build_reason: no index, or one whose pages cannot all be read.          *)
Needed == index = NoRelease \/ ~sound

(* The source is asked: always, or only when the archive is newer than the *)
(* index.                                                                  *)
Asked == follows = "source" \/ archive > index

(* A newer release is out that the index has to follow.                    *)
Behind == Asked /\ newest > index

(* due: no index, an unusable one, or one left behind.                     *)
FindDue ==
  /\ pc[Loop] = "idle"
  /\ Needed \/ Behind
  /\ Goes(Loop, "due")
  /\ UNCHANGED <<world, files, status, lock, release, faults, builds>>

(* record_check writes nothing while a run holds the lock.                 *)
Recorded(ok, found) ==
  status' = IF lock = "free" THEN [state |-> "idle", ok |-> ok, of |-> found]
            ELSE status

(* Nothing to build: an earlier failure no longer counts.                  *)
CheckCurrent ==
  /\ pc[Loop] = "idle"
  /\ ~Needed /\ ~Behind
  /\ Recorded("yes", IF Asked THEN newest ELSE NoRelease)
  /\ UNCHANGED <<world, files, lock, pc, release, faults, builds>>

(* The source cannot be asked.                                             *)
CheckFails ==
  /\ pc[Loop] = "idle"
  /\ ~Needed /\ Asked
  /\ Fault
  /\ Recorded("no", NoRelease)
  /\ UNCHANGED <<world, files, lock, pc, release, builds>>

-----------------------------------------------------------------------------
(* The run                                                                 *)

(* acquire_lock; with the lock of another the run is left for later.       *)
Acquire ==
  /\ pc[Loop] = "due"
  /\ IF lock = "free" THEN lock' = Loop /\ Goes(Loop, "locked")
     ELSE Goes(Loop, "idle") /\ UNCHANGED lock
  /\ UNCHANGED <<world, files, status, release, faults, builds>>

MarkRunning ==
  /\ pc[Loop] = "locked"
  /\ status' = [status EXCEPT !.state = "running"]
  /\ Goes(Loop, "running")
  /\ UNCHANGED <<world, files, lock, release, faults, builds>>

(* find_release and _drop_other_releases.                                  *)
Find ==
  /\ pc[Loop] = "running"
  /\ release' = [release EXCEPT ![Loop] = newest]
  /\ dumps' = dumps \cap {newest}
  /\ Goes(Loop, "found")
  /\ UNCHANGED <<world, index, sound, part, status, lock, faults, builds>>

Download ==
  /\ pc[Loop] = "found"
  /\ dumps' = dumps \cup {release[Loop]}
  /\ Goes(Loop, "downloaded")
  /\ UNCHANGED <<world, index, sound, part, status, lock, release, faults,
                 builds>>

-----------------------------------------------------------------------------
(* write_atomically, of the run and of the build by hand                   *)

(* The .part file of an earlier build is removed, a new one begun.         *)
BeginPart(p) ==
  /\ pc[p] = "downloaded"
  /\ part' = [by |-> p, of |-> release[p], whole |-> FALSE]
  /\ Goes(p, "building")
  /\ UNCHANGED <<world, index, sound, dumps, status, lock, release, faults,
                 builds>>

(* The build is done with the file it began, wherever that is now, and     *)
(* syncs what is at the path to the disk.                                  *)
EndPart(p) ==
  /\ pc[p] = "building"
  /\ part # NoPart
  /\ part' = IF part.by = p THEN [part EXCEPT !.whole = TRUE] ELSE part
  /\ Goes(p, "built")
  /\ UNCHANGED <<world, index, sound, dumps, status, lock, release, faults,
                 builds>>

(* os.replace.                                                             *)
Swap(p) ==
  /\ pc[p] = "built"
  /\ part # NoPart
  /\ index' = IF part.whole THEN part.of ELSE Half
  /\ sound' = TRUE
  /\ part' = NoPart
  /\ Goes(p, "swapped")
  /\ UNCHANGED <<world, dumps, status, lock, release, faults, builds>>

-----------------------------------------------------------------------------
(* The end of a run                                                        *)

Clean ==
  /\ pc[Loop] = "swapped"
  /\ dumps' = dumps \ {release[Loop]}
  /\ Goes(Loop, "cleaned")
  /\ UNCHANGED <<world, index, sound, part, status, lock, release, faults,
                 builds>>

(* A step of the run fails, or the container is stopped; what a build was  *)
(* writing is removed.                                                     *)
Stumble(place) ==
  /\ pc[Loop] \in {"locked", "running", "found", "downloaded", "building",
                 "built", "swapped"}
  /\ Fault
  /\ part' = IF pc[Loop] = "building" THEN NoPart ELSE part
  /\ Goes(Loop, place)
  /\ UNCHANGED <<world, index, sound, dumps, status, lock, release, builds>>

(* The outcome goes to the status; a stopped run leaves ok open.           *)
WriteOutcome ==
  /\ pc[Loop] \in {"cleaned", "failing", "stopping"}
  /\ status' = [state |-> "idle", of |-> release[Loop],
                ok |-> CASE pc[Loop] = "cleaned" -> "yes"
                         [] pc[Loop] = "failing" -> "no"
                         [] pc[Loop] = "stopping" -> "open"]
  /\ Goes(Loop, "written")
  /\ UNCHANGED <<world, files, lock, release, faults, builds>>

(* The status cannot be written.                                           *)
WriteFails ==
  /\ pc[Loop] \in {"cleaned", "failing", "stopping"}
  /\ Fault
  /\ Goes(Loop, "written")
  /\ UNCHANGED <<world, files, status, lock, release, builds>>

(* The finally clauses of run and run_build.                               *)
Release(p) ==
  /\ \/ p = Loop /\ pc[p] = "written"
     \/ p = Hand /\ pc[p] \in {"swapped", "failing"}
  /\ lock' = IF lock = p THEN "free" ELSE lock
  /\ release' = [release EXCEPT ![p] = NoRelease]
  /\ Goes(p, "idle")
  /\ UNCHANGED <<world, files, status, faults, builds>>

-----------------------------------------------------------------------------
(* The build by hand                                                       *)

(* Mutant: the build by hand takes no lock.                                *)
BuildUnlocked ==
  /\ pc[Hand] = "idle"
  /\ builds < MaxBuilds /\ builds' = builds + 1
  /\ \E r \in 1 .. newest : release' = [release EXCEPT ![Hand] = r]
  /\ Goes(Hand, "downloaded")
  /\ UNCHANGED <<world, files, status, lock, faults>>

(* run_build: dumps of any release lie on the disk; it takes the lock of   *)
(* the sync.                                                               *)
BuildByHand ==
  /\ pc[Hand] = "idle"
  /\ lock = "free" /\ lock' = Hand
  /\ builds < MaxBuilds /\ builds' = builds + 1
  /\ \E r \in 1 .. newest : release' = [release EXCEPT ![Hand] = r]
  /\ Goes(Hand, "downloaded")
  /\ UNCHANGED <<world, files, status, faults>>

HandFails ==
  /\ pc[Hand] \in {"downloaded", "building"}
  /\ Fault
  /\ part' = IF pc[Hand] = "building" THEN NoPart ELSE part
  /\ Goes(Hand, "failing")
  /\ UNCHANGED <<world, index, sound, dumps, status, lock, release, builds>>

-----------------------------------------------------------------------------
(* The world around                                                        *)

Publish ==
  /\ newest < MaxRelease
  /\ newest' = newest + 1
  /\ UNCHANGED <<follows, archive, files, status, lock, pc, release, faults, builds>>

(* Another Wikipedia archive becomes active, also one newer than any       *)
(* release; or none is, or an older one.                                   *)
Activate ==
  /\ follows = "archive"
  /\ archive' \in 0 .. newest + 1
  /\ \/ archive' > archive /\ UNCHANGED faults
     \/ archive' < archive /\ Fault
  /\ UNCHANGED <<follows, newest, files, status, lock, pc, release, builds>>

(* A page of the index is broken.                                          *)
Damage ==
  /\ index # NoRelease /\ sound
  /\ Fault
  /\ sound' = FALSE
  /\ UNCHANGED <<world, index, part, dumps, status, lock, pc, release,
                 builds>>

(* A process is killed; the container of the updater starts again.         *)
Crash(p) ==
  /\ pc[p] # "idle"
  /\ Fault
  /\ Goes(p, "idle")
  /\ lock' = IF lock = p THEN "dead" ELSE lock
  /\ release' = [release EXCEPT ![p] = NoRelease]
  /\ UNCHANGED <<world, files, status, builds>>

(* LOCK_STALE_S is over.                                                   *)
Stale ==
  /\ lock = "dead"
  /\ lock' = "free"
  /\ UNCHANGED <<world, files, status, pc, release, faults, builds>>

LoopStep ==
  \/ FindDue \/ CheckCurrent \/ Acquire \/ MarkRunning \/ Find \/ Download
  \/ BeginPart(Loop) \/ EndPart(Loop) \/ Swap(Loop)
  \/ Clean \/ WriteOutcome \/ Release(Loop)

HandStep ==
  \/ BeginPart(Hand) \/ EndPart(Hand) \/ Swap(Hand)
  \/ Release(Hand)

Next ==
  \/ FindDue \/ CheckCurrent \/ CheckFails
  \/ Acquire \/ MarkRunning \/ Find \/ Download
  \/ \E p \in Processes :
       BeginPart(p) \/ EndPart(p) \/ Swap(p) \/ Release(p) \/ Crash(p)
  \/ Clean \/ WriteOutcome \/ WriteFails
  \/ \E place \in {"failing", "stopping"} : Stumble(place)
  \/ BuildByHand \/ HandFails
  \/ Publish \/ Activate \/ Damage \/ Stale

Spec == Init /\ [][Next]_vars

(* The loop of the updater checks again and runs on, a build by hand runs  *)
(* on, and the lock of a dead process goes stale.                          *)
Fairness == WF_vars(LoopStep) /\ WF_vars(HandStep) /\ WF_vars(Stale)

FairSpec == Spec /\ Fairness

-----------------------------------------------------------------------------
(* Properties                                                              *)

File == INSTANCE IndexFile WITH
  Contents <- Releases, None <- NoRelease, file <- index

(* The two writers of the index, their crashes and their failures keep the *)
(* promise of IndexFile: the file the service reads is always the whole    *)
(* index of one release (local_index.py:3-5), and never goes away.         *)
Implements == File!Spec

(* A run reports success only with its release in place, whoever else      *)
(* builds, and a check only when the index is as new as what it reports.   *)
ReportsWhatIsThere ==
  [][status'.state = "idle" /\ status'.ok = "yes" /\ status' # status
       => index >= status'.of]_vars

(* A usable index gets there that is not left behind - by its source for   *)
(* GND, by the active archive and the source for Wikidata (wikidata/       *)
(* sync.py:5-9) - and the status stops saying that a run is under way,     *)
(* over crashes, failures, broken pages and builds by hand from older      *)
(* files.                                                                  *)
GetsCurrent ==
  <>[](index # NoRelease /\ sound /\ ~Behind /\ status.state # "running")
=============================================================================
