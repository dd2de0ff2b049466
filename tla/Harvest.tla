------------------------------- MODULE Harvest -------------------------------
(***************************************************************************)
(* The curriculum harvest (app/sources/lehrplan/harvest.py) and the loop   *)
(* that asks for it (app/cli_lehrplan.py, harvest_once and loop_task):     *)
(* whether a harvest is due, its run over the states of MEM, and when it   *)
(* refuses to replace the cache by what it found.                          *)
(*                                                                         *)
(* MEM answers with no rows, or too few, while it reloads.  A curriculum   *)
(* in the cache has its elements with their roles ("whole"), elements      *)
(* without roles, which no search finds ("mute"), or none ("empty"); each  *)
(* counts as one element.  One harvest runs at a time (module LockFile).   *)
(* Pages of the cache may be broken while its meta rows, with the counts   *)
(* per state, can be read: the run then compares what it can read.         *)
(***************************************************************************)
EXTENDS Integers, FiniteSets

CONSTANTS
  Curricula,   \* the curricula MEM may list
  Lands,       \* the states (Bundeslaender)
  LandOf,      \* LandOf[c]: the state of curriculum c
  Tolerated,   \* EMPTIED_TOLERATED
  MaxChanges,  \* a bound on the changes of MEM
  MaxFaults    \* a bound on failures, crashes, damages and runs with --force

HarvestAssumption ==
  IsFiniteSet(Curricula) /\ Tolerated \in Nat /\ MaxChanges \in Nat /\ MaxFaults \in Nat

VARIABLES
  mem,        \* the curricula MEM has
  reloading,  \* whether it reloads its graphs
  cache,      \* cache[c]: what the cache holds of c
  health,     \* of the cache: sound, with broken pages, or gone
  old,        \* it is older than max_age
  status,     \* the status file: state, last_error, check_error
  pc,         \* where the run stands
  forced,     \* --force
  left,       \* the states it has still to list
  todo,       \* the curricula of the listed state it has still to pull
  draft,      \* what it has pulled
  before,     \* the curricula with elements it found in the cache when it began
  blind,      \* what it could not read of the cache to compare
  changes, faults

run == <<pc, forced, left, todo, draft, before, blind>>
vars == <<mem, reloading, cache, health, old, status, run, changes, faults>>

Holdings == [Curricula -> {"absent", "whole", "mute", "empty"}]
Nothing == [c \in Curricula |-> "absent"]

TypeOK ==
  /\ mem \subseteq Curricula /\ mem # {}
  /\ reloading \in BOOLEAN
  /\ cache \in Holdings /\ health \in {"sound", "broken", "gone"} /\ old \in BOOLEAN
  /\ status \in [state : {"idle", "running", "error"},
                 lastError : BOOLEAN, checkError : BOOLEAN]
  /\ pc \in {"idle", "due", "started", "listing", "building", "failing", "stopping",
             "committed"}
  /\ forced \in BOOLEAN
  /\ left \subseteq Lands /\ todo \subseteq Curricula /\ draft \in Holdings
  /\ before \subseteq Curricula /\ blind \subseteq {"counts", "roles", "before"}
  /\ changes \in 0 .. MaxChanges /\ faults \in 0 .. MaxFaults

Init ==
  /\ mem \in (SUBSET Curricula) \ {{}}
  /\ reloading = FALSE
  /\ \/ health = "gone" /\ cache = Nothing
     \/ health = "sound" /\ cache = [c \in Curricula |-> "whole"]
  /\ old = FALSE
  /\ status = [state |-> "idle", lastError |-> FALSE, checkError |-> FALSE]
  /\ pc = "idle" /\ forced = FALSE
  /\ left = {} /\ todo = {} /\ draft = Nothing /\ before = {} /\ blind = {}
  /\ changes = 0 /\ faults = 0

Fault == faults < MaxFaults /\ faults' = faults + 1

Count(set, land) == Cardinality({c \in set : LandOf[c] = land})
In(held, kinds) == {c \in Curricula : held[c] \in kinds}
Listed(held) == In(held, {"whole", "mute", "empty"})
Elements(held) == In(held, {"whole", "mute"})
Matchable(held) == In(held, {"whole"})

(* lost_states: a state is lost with less than half of what it had.        *)
Lost(had, has) ==
  \E land \in Lands : Count(has, land) * 2 < Count(had, land)

(* What a query that counts or lists may name.                             *)
Seen(set) == IF reloading THEN SUBSET set ELSE {set}

Goes(place) ==
  /\ pc' = place
  /\ left' = {} /\ todo' = {} /\ draft' = Nothing /\ before' = {} /\ blind' = {}

-----------------------------------------------------------------------------
(* due                                                                     *)

(* No usable cache, broken pages in it, or an old one.                     *)
FindDue ==
  /\ pc = "idle"
  /\ health # "sound" \/ old
  /\ pc' = "due"
  /\ UNCHANGED <<mem, reloading, cache, health, old, status, forced, left, todo, draft,
                 before, blind, changes, faults>>

(* MEM is asked for its counts (_record_check with no error).              *)
Check ==
  /\ pc = "idle"
  /\ health = "sound" /\ ~old
  /\ \E remote \in Seen(mem) :
       pc' = IF \E land \in Lands : Count(remote, land) # Count(Listed(cache), land)
             THEN "due" ELSE "idle"
  /\ status' = [status EXCEPT !.checkError = FALSE]
  /\ UNCHANGED <<mem, reloading, cache, health, old, forced, left, todo, draft, before,
                 blind, changes, faults>>

CheckFails ==
  /\ pc = "idle"
  /\ health = "sound" /\ ~old
  /\ Fault
  /\ status' = [status EXCEPT !.checkError = TRUE]
  /\ UNCHANGED <<mem, reloading, cache, health, old, run, changes>>

(* harvest --force, by a person or as the first run of the loop.           *)
Force ==
  /\ pc = "idle"
  /\ Fault
  /\ pc' = "due"
  /\ forced' = TRUE
  /\ UNCHANGED <<mem, reloading, cache, health, old, status, left, todo, draft, before,
                 blind, changes>>

-----------------------------------------------------------------------------
(* The run                                                                 *)

Start ==
  /\ pc = "due"
  /\ status' = [status EXCEPT !.state = "running"]
  /\ pc' = "started"
  /\ left' = Lands /\ todo' = {} /\ draft' = Nothing /\ before' = {} /\ blind' = {}
  /\ UNCHANGED <<mem, reloading, cache, health, old, forced, changes, faults>>

(* What a run could not read of the cache counts as nothing it had: the    *)
(* elements and their roles when pages are broken, these or the counts     *)
(* when a read fails.                                                      *)
Unread(parts) ==
  \/ parts = {} /\ UNCHANGED faults
  \/ parts # {} /\ health = "broken" /\ "counts" \notin parts /\ UNCHANGED faults
  \/ Cardinality(parts) = 1 /\ health # "gone" /\ Fault

(* _refuse_a_counted_loss; then the curricula with elements are read.      *)
CountFirst ==
  /\ pc = "started"
  /\ \E unread \in SUBSET {"counts", "before"}, remote \in Seen(mem) :
       /\ Unread(unread)
       /\ pc' = IF /\ ~forced /\ "counts" \notin unread
                   /\ Listed(cache) # {}
                   /\ remote = {} \/ Lost(Listed(cache), remote)
                THEN "failing" ELSE "listing"
       /\ before' = IF "before" \in unread THEN {} ELSE Elements(cache)
       /\ blind' = unread \cap {"before"}
  /\ UNCHANGED <<mem, reloading, cache, health, old, status, forced, left, todo, draft,
                 changes>>

First(set) == CHOOSE x \in set : TRUE

(* _list: the curricula of the next state.                                 *)
List ==
  /\ pc = "listing"
  /\ todo = {} /\ left # {}
  /\ left' = left \ {First(left)}
  /\ todo' \in Seen({c \in mem : LandOf[c] = First(left)})
  /\ UNCHANGED <<mem, reloading, cache, health, old, status, pc, forced, draft, before,
                 blind, changes, faults>>

(* A class answered without roles is not asked for again in the run.       *)
Answers(c) ==
  IF reloading THEN {"whole", "mute", "empty"}
  ELSE IF c \notin mem THEN {"empty"}
  ELSE IF \E d \in Curricula : draft[d] = "mute" THEN {"whole", "mute"}
  ELSE {"whole"}

(* The closure of a curriculum, asked for again when it is empty and was   *)
(* not before, and the roles of the classes of its elements.               *)
Pull ==
  /\ pc = "listing"
  /\ todo # {}
  /\ todo' = todo \ {First(todo)}
  /\ \E answer \in Answers(First(todo)) :
       draft' = [draft EXCEPT ![First(todo)] = answer]
  /\ UNCHANGED <<mem, reloading, cache, health, old, status, pc, forced, left, before,
                 blind, changes, faults>>

(* Heads or roles twice without an answer: _refuse.                        *)
RefuseAnswer ==
  /\ pc = "listing"
  /\ todo # {}
  /\ reloading
  /\ ~forced
  /\ Goes("failing")
  /\ UNCHANGED <<mem, reloading, cache, health, old, status, forced, changes, faults>>

(* The curricula that had elements and came back without them twice.       *)
Emptied == {c \in before : draft[c] = "empty"}

(* Mutant: only curricula and elements are compared, not their roles.      *)
LossOfElements(unread) ==
  \/ Listed(draft) = {}
  \/ /\ "counts" \notin unread
     /\ \/ Lost(Listed(cache), Listed(draft))
        \/ Lost(Elements(cache), Elements(draft))
  \/ Cardinality(Emptied) > Tolerated

(* What _refuse_a_loss finds with some of the cache unread.                *)
Loss(unread) ==
  \/ Listed(draft) = {}
  \/ /\ "counts" \notin unread
     /\ \/ Lost(Listed(cache), Listed(draft))
        \/ Lost(Elements(cache), Elements(draft))
  \/ "roles" \notin unread /\ Lost(Matchable(cache), Matchable(draft))
  \/ Cardinality(Emptied) > Tolerated

(* _refuse_a_loss: the run goes on to build the index of the draft, or is  *)
(* refused.                                                                *)
Judge ==
  /\ pc = "listing"
  /\ left = {} /\ todo = {}
  /\ \E unread \in SUBSET {"counts", "roles"} :
       /\ Unread(unread)
       /\ \/ /\ ~forced /\ Loss(unread)
             /\ Goes("failing")
          \/ /\ forced \/ ~Loss(unread)
             /\ pc' = "building"
             /\ before' = {} /\ blind' = blind \cup unread
             /\ UNCHANGED <<left, todo, draft>>
  /\ UNCHANGED <<mem, reloading, cache, health, old, status, forced, changes>>

(* Mutant: a cache committed again keeps its age.                          *)
CommitUndated ==
  /\ pc = "building"
  /\ cache' = draft /\ health' = "sound"
  /\ Goes("committed")
  /\ UNCHANGED <<mem, reloading, old, status, forced, changes, faults>>

(* writer.commit: the new cache is swapped in.                             *)
Commit ==
  /\ pc = "building"
  /\ cache' = draft /\ health' = "sound" /\ old' = FALSE
  /\ Goes("committed")
  /\ UNCHANGED <<mem, reloading, status, forced, changes, faults>>

(* MEM cannot be reached, the disk is full, or the container is stopped.   *)
Stumble(place) ==
  /\ pc \in {"started", "listing", "building"}
  /\ Fault
  /\ Goes(place)
  /\ UNCHANGED <<mem, reloading, cache, health, old, status, forced, changes>>

Ended == Goes("idle") /\ forced' = FALSE

(* _write_status: a run that fails keeps its error, one that is stopped    *)
(* the error before, one that succeeds none.                               *)
WriteOutcome ==
  /\ pc \in {"failing", "stopping", "committed"}
  /\ status' = [status EXCEPT
       !.state = IF pc = "failing" THEN "error" ELSE "idle",
       !.lastError = pc = "failing" \/ (pc = "stopping" /\ @)]
  /\ Ended
  /\ UNCHANGED <<mem, reloading, cache, health, old, changes, faults>>

(* The status cannot be written, or the process is killed.                 *)
Crash ==
  /\ pc # "idle"
  /\ Fault
  /\ Ended
  /\ UNCHANGED <<mem, reloading, cache, health, old, status, changes>>

-----------------------------------------------------------------------------
(* The world around                                                        *)

ChangeMem ==
  /\ changes < MaxChanges /\ changes' = changes + 1
  /\ \E c \in Curricula : mem' = IF c \in mem THEN mem \ {c} ELSE mem \cup {c}
  /\ mem' # {}
  /\ UNCHANGED <<reloading, cache, health, old, status, run, faults>>

BeginReload ==
  /\ ~reloading
  /\ changes < MaxChanges /\ changes' = changes + 1
  /\ reloading' = TRUE
  /\ UNCHANGED <<mem, cache, health, old, status, run, faults>>

EndReload ==
  /\ reloading
  /\ reloading' = FALSE
  /\ UNCHANGED <<mem, cache, health, old, status, run, changes, faults>>

Age ==
  /\ pc = "idle"
  /\ health = "sound" /\ ~old
  /\ old' = TRUE
  /\ UNCHANGED <<mem, reloading, cache, health, status, run, changes, faults>>

(* Pages break, or the file is lost or cannot be read at all.              *)
Damage ==
  /\ Fault
  /\ \/ health = "sound" /\ health' = "broken" /\ UNCHANGED cache
     \/ health # "gone" /\ health' = "gone" /\ cache' = Nothing
  /\ UNCHANGED <<mem, reloading, old, status, run, changes>>

RunStep == Start \/ CountFirst \/ List \/ Pull \/ Judge \/ Commit \/ WriteOutcome

Next ==
  \/ FindDue \/ Check \/ CheckFails \/ Force
  \/ Start \/ CountFirst \/ List \/ Pull \/ RefuseAnswer \/ Judge \/ Commit
  \/ WriteOutcome \/ Crash
  \/ \E place \in {"failing", "stopping"} : Stumble(place)
  \/ ChangeMem \/ BeginReload \/ EndReload \/ Age \/ Damage

Spec == Init /\ [][Next]_vars

(* The loop checks again, also before the cache is old, and runs on; a     *)
(* reload ends, and the cache ages.                                        *)
Fairness ==
  /\ WF_vars(FindDue) /\ SF_vars(Check) /\ WF_vars(RunStep)
  /\ WF_vars(EndReload) /\ SF_vars(Age)

FairSpec == Spec /\ Fairness

-----------------------------------------------------------------------------
(* Properties                                                              *)

(* A swap that nobody forced never costs a state more than half of its     *)
(* curricula, of their elements or of those a search finds, nor more than  *)
(* a few curricula their elements, against the cache that is there at the  *)
(* swap, a whole run after the first look at it (harvest.py:76-84,         *)
(* 386-428).  What a run could not read it cannot keep: that passes with a *)
(* warning (store.py:218-220, 234-236).                                    *)
KeepsWhatItHas ==
  [][cache' # cache /\ health' = "sound" /\ ~forced =>
       /\ "counts" \in blind \/ /\ ~Lost(Listed(cache), Listed(cache'))
                                /\ ~Lost(Elements(cache), Elements(cache'))
       /\ "roles" \in blind \/ ~Lost(Matchable(cache), Matchable(cache'))
       /\ "before" \in blind
            \/ Cardinality({c \in Elements(cache) : cache'[c] = "empty"}) <= Tolerated]_vars

InStep ==
  /\ health = "sound"
  /\ cache = [c \in Curricula |-> IF c \in mem THEN "whole" ELSE "absent"]

(* A loss that only a person can accept, with --force.                     *)
LossStands == Lost(Listed(cache), mem)

(* When MEM has settled the cache gets to hold what it has, also what a    *)
(* run during a reload left out, and the status loses its errors - but for *)
(* a real loss, which a person has to accept.                              *)
FollowsMem ==
  <>[](LossStands \/ (InStep /\ ~status.lastError /\ ~status.checkError))
=============================================================================
