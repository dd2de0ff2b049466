------------------------------- MODULE JobLoop -------------------------------
(***************************************************************************)
(* The loop of an updater (app/jobs/runner.py, run_periodically): it runs  *)
(* its task when that is due or when the API has asked for it with a       *)
(* trigger file (app/api/v2/zim.py, zim_sync_now), tries a failed run      *)
(* again early, and gives a sign of life while it waits.  Time passes in   *)
(* ticks, in a task or asleep; deadlines are kept relative to the clock.   *)
(***************************************************************************)
EXTENDS Integers

CONSTANTS
  Interval,    \* ticks from one run to the next
  AliveEvery,  \* ticks between signs of life
  Poll         \* the longest sleep

LoopAssumption == Interval \in Nat /\ AliveEvery \in Nat /\ Poll \in Nat

VARIABLES
  pc,
  untilRun,    \* next_run
  untilAlive,  \* next_alive
  asleep,      \* ticks the sleep still lasts
  trigger,     \* the trigger file is there
  asked,       \* the API asked for a run that has not begun
  waited       \* ticks the loop has slept since

vars == <<pc, untilRun, untilAlive, asleep, trigger, asked, waited>>

Earliest(a, b) == IF a <= b THEN a ELSE b
Forever == 2 * Poll  \* the counter stops here

TypeOK ==
  /\ pc \in {"alive", "look", "triggered", "task", "rest", "asleep"}
  /\ untilRun \in 0 .. Interval
  /\ untilAlive \in 0 .. AliveEvery
  /\ asleep \in 0 .. Poll
  /\ trigger \in BOOLEAN /\ asked \in BOOLEAN
  /\ waited \in 0 .. Forever

Init ==
  /\ pc = "alive"
  /\ untilRun = 0 /\ untilAlive = 0 /\ asleep = 0
  /\ trigger \in BOOLEAN /\ asked = trigger
  /\ waited = 0

(* The sign of life, when it is due; one that cannot be written is tried   *)
(* again like one that was.                                                *)
GiveSignOfLife ==
  /\ pc = "alive"
  /\ IF untilAlive = 0
       THEN untilAlive' = AliveEvery
       ELSE UNCHANGED untilAlive
  /\ pc' = "look"
  /\ UNCHANGED <<untilRun, asleep, trigger, asked, waited>>

(* A trigger file, a run that is due, or nothing to do.                    *)
Look ==
  /\ pc = "look"
  /\ pc' = IF trigger THEN "triggered" ELSE IF untilRun = 0 THEN "task" ELSE "rest"
  /\ IF pc' = "task" THEN asked' = FALSE /\ waited' = 0
     ELSE UNCHANGED <<asked, waited>>
  /\ UNCHANGED <<untilRun, untilAlive, asleep, trigger>>

(* The file is removed before the run it asked for.                        *)
TakeTrigger ==
  /\ pc = "triggered"
  /\ trigger' = FALSE
  /\ pc' = "task"
  /\ asked' = FALSE /\ waited' = 0
  /\ UNCHANGED <<untilRun, untilAlive, asleep>>

(* Mutant: the file is removed after the run.                              *)
EndTaskTakingTrigger ==
  /\ pc = "task"
  /\ trigger' = FALSE
  /\ untilRun' \in 0 .. Interval
  /\ pc' = "rest"
  /\ UNCHANGED <<untilAlive, asleep, asked, waited>>

(* The task ends: well, and is due again after the interval; with a        *)
(* failure, earlier; or with the time it names, which may be now.          *)
EndTask ==
  /\ pc = "task"
  /\ untilRun' \in 0 .. Interval
  /\ pc' = "rest"
  /\ UNCHANGED <<untilAlive, asleep, trigger, asked, waited>>

Rest ==
  /\ pc = "rest"
  /\ asleep' = Earliest(Poll, Earliest(untilRun, untilAlive))
  /\ pc' = IF asleep' = 0 THEN "alive" ELSE "asleep"
  /\ UNCHANGED <<untilRun, untilAlive, trigger, asked, waited>>

Later(ticks) == IF ticks = 0 THEN 0 ELSE ticks - 1
Counted(ticks) == Earliest(Forever, ticks + 1)

Tick ==
  /\ pc \in {"task", "asleep"}
  /\ untilRun' = Later(untilRun)
  /\ untilAlive' = Later(untilAlive)
  /\ waited' = IF asked /\ pc = "asleep" THEN Counted(waited) ELSE waited
  /\ asleep' = Later(asleep)
  /\ pc' = IF pc = "asleep" /\ asleep = 1 THEN "alive" ELSE pc
  /\ UNCHANGED <<trigger, asked>>

(* The API writes the trigger file, over one that is there.                *)
Ask ==
  /\ trigger' = TRUE
  /\ asked' = TRUE
  /\ UNCHANGED <<pc, untilRun, untilAlive, asleep, waited>>

(* The container starts again.                                             *)
Restart ==
  /\ pc' = "alive"
  /\ untilRun' = 0 /\ untilAlive' = 0 /\ asleep' = 0
  /\ UNCHANGED <<trigger, asked, waited>>

Next ==
  \/ GiveSignOfLife \/ Look \/ TakeTrigger \/ EndTask \/ Rest
  \/ Tick \/ Ask \/ Restart

Spec == Init /\ [][Next]_vars

-----------------------------------------------------------------------------
(* Properties                                                              *)

(* A run the API asks for - while another is under way, at the moment it   *)
(* begins, or across a restart - begins after at most one sleep.           *)
RequestRunsSoon == waited <= Poll
=============================================================================
