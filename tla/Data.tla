--------------------------------- MODULE Data ---------------------------------
(***************************************************************************)
(* How the data on the volumes is kept current and how a worker follows    *)
(* it, part by part: the archives of active.json, the sync that builds an  *)
(* index, the harvest of the curricula, the loop of an updater and the     *)
(* custom templates.  The parts share no state in their modules, so each   *)
(* behaviour is one of a single part, and the others stay as they begin.   *)
(***************************************************************************)
EXTENDS Integers, DumpSync

CONSTANTS
  Archives, Newest, Threads, MaxWrites, MaxFailures, Missing, Corrupt,
  Curricula, Lands, LandOf, Tolerated, MaxChanges, MaxLapses,
  FirstInMem,  \* what MEM may have at first
  Interval, AliveEvery, Poll,
  Clients, MaxSaves, MaxSlips

VARIABLE system

VARIABLES active, stage, archives, skipped, current, thread, names, writes, failures
A == INSTANCE ArchiveFollower
follower == <<active, stage, archives, skipped, current, thread, names, writes, failures>>

VARIABLES mem, reloading, cache, health, old, harvestStatus, runAt, forced, left, todo,
          draft, before, blind, changes, lapses
H == INSTANCE Harvest WITH
  MaxFaults <- MaxLapses, pc <- runAt, status <- harvestStatus, faults <- lapses
harvest == <<mem, reloading, cache, health, old, harvestStatus, runAt, forced, left, todo,
             draft, before, blind, changes, lapses>>

VARIABLES loopAt, untilRun, untilAlive, asleep, trigger, asked, waited
J == INSTANCE JobLoop WITH pc <- loopAt
loop == <<loopAt, untilRun, untilAlive, asleep, trigger, asked, waited>>

VARIABLES file, note, holder, cached, clientAt, drafted, signed, wish, found, since,
          saves, slips, gap
T == INSTANCE Templates WITH
  MaxFaults <- MaxSlips, pc <- clientAt, faults <- slips, cache <- cached,
  draft <- drafted
templates == <<file, note, holder, cached, clientAt, drafted, signed, wish, found,
               since, saves, slips, gap>>

dump == vars  \* of module DumpSync

systemVars == <<system, templates, follower, dump, harvest, loop>>

ASSUME FollowerAssumption == A!FollowerAssumption
ASSUME LoopAssumption == J!LoopAssumption
ASSUME HarvestAssumption == H!HarvestAssumption
ASSUME TemplatesAssumption == T!TemplatesAssumption

(* A part that does not run begins in one way.                             *)
SystemInit ==
  /\ system \in {"follower", "dump", "harvest", "loop", "templates"}
  /\ A!Init /\ Init /\ H!Init /\ J!Init /\ T!Init
  /\ system # "follower" => active = Missing
  /\ system # "dump" => index = 1 /\ follows = "source"
  /\ mem \in FirstInMem
  /\ health = "sound"  \* a cache that is not there is one that was lost
  /\ system # "harvest" => mem = Curricula
  /\ system # "loop" => ~trigger

ForFollower(step) ==
  /\ system = "follower" /\ step
  /\ UNCHANGED <<system, templates, dump, harvest, loop>>

ForDump(step) ==
  /\ system = "dump" /\ step
  /\ UNCHANGED <<system, templates, follower, harvest, loop>>

ForHarvest(step) ==
  /\ system = "harvest" /\ step
  /\ UNCHANGED <<system, templates, follower, dump, loop>>

ForLoop(step) ==
  /\ system = "loop" /\ step
  /\ UNCHANGED <<system, templates, follower, dump, harvest>>

ForTemplates(step) ==
  /\ system = "templates" /\ step
  /\ UNCHANGED <<system, follower, dump, harvest, loop>>

FollowerNext ==
  \/ ForFollower(A!OpenArchives) \/ ForFollower(A!Watch)
  \/ ForFollower(A!Restart) \/ ForFollower(A!Write)
  \/ \E t \in Threads :
       \/ ForFollower(A!Look(t)) \/ ForFollower(A!Read(t))
       \/ ForFollower(A!Reload(t)) \/ ForFollower(A!ReadFails(t))

DumpNext ==
  \/ ForDump(FindDue) \/ ForDump(CheckCurrent) \/ ForDump(CheckFails)
  \/ ForDump(Acquire) \/ ForDump(MarkRunning)
  \/ ForDump(Find) \/ ForDump(Download)
  \/ \E p \in Processes :
       \/ ForDump(BeginPart(p)) \/ ForDump(EndPart(p)) \/ ForDump(Swap(p))
       \/ ForDump(Release(p)) \/ ForDump(Crash(p))
  \/ ForDump(Clean) \/ ForDump(WriteOutcome) \/ ForDump(WriteFails)
  \/ \E place \in {"failing", "stopping"} : ForDump(Stumble(place))
  \/ ForDump(BuildByHand) \/ ForDump(HandFails)
  \/ ForDump(Publish) \/ ForDump(Activate) \/ ForDump(Damage) \/ ForDump(Stale)

HarvestNext ==
  \/ ForHarvest(H!FindDue) \/ ForHarvest(H!Check) \/ ForHarvest(H!CheckFails)
  \/ ForHarvest(H!Force) \/ ForHarvest(H!Start) \/ ForHarvest(H!CountFirst)
  \/ ForHarvest(H!List) \/ ForHarvest(H!Pull) \/ ForHarvest(H!RefuseAnswer)
  \/ ForHarvest(H!Judge) \/ ForHarvest(H!Commit)
  \/ ForHarvest(H!WriteOutcome) \/ ForHarvest(H!Crash)
  \/ \E place \in {"failing", "stopping"} : ForHarvest(H!Stumble(place))
  \/ ForHarvest(H!ChangeMem) \/ ForHarvest(H!BeginReload)
  \/ ForHarvest(H!EndReload) \/ ForHarvest(H!Age) \/ ForHarvest(H!Damage)

LoopNext ==
  \/ ForLoop(J!GiveSignOfLife) \/ ForLoop(J!Look) \/ ForLoop(J!TakeTrigger)
  \/ ForLoop(J!EndTask) \/ ForLoop(J!Rest) \/ ForLoop(J!Tick)
  \/ ForLoop(J!Ask) \/ ForLoop(J!Restart)

TemplatesNext ==
  \E c \in Clients :
    \/ ForTemplates(T!Sign(c)) \/ ForTemplates(T!Load(c))
    \/ ForTemplates(T!Keep(c)) \/ ForTemplates(T!Answer(c))
    \/ ForTemplates(T!Ask(c)) \/ ForTemplates(T!Enter(c))
    \/ ForTemplates(T!GiveUp(c)) \/ ForTemplates(T!Compare(c))
    \/ ForTemplates(T!Save(c)) \/ ForTemplates(T!Unlink(c))
    \/ ForTemplates(T!WriteNote(c)) \/ ForTemplates(T!Leave(c))
    \/ ForTemplates(T!Break(c))

SystemNext == TemplatesNext \/ FollowerNext \/ DumpNext \/ HarvestNext \/ LoopNext

(* The fairness of the modules, each for the behaviours of its part.       *)
SystemFairness ==
  /\ WF_follower(system = "follower" /\ A!OpenArchives)
  /\ WF_follower(system = "follower" /\ A!Watch)
  /\ \A t \in Threads : WF_follower(system = "follower" /\ A!Refresh(t))
  /\ WF_dump(system = "dump" /\ LoopStep)
  /\ WF_dump(system = "dump" /\ HandStep)
  /\ WF_dump(system = "dump" /\ Stale)
  /\ WF_harvest(system = "harvest" /\ H!FindDue)
  /\ SF_harvest(system = "harvest" /\ H!Check)
  /\ WF_harvest(system = "harvest" /\ H!RunStep)
  /\ WF_harvest(system = "harvest" /\ H!EndReload)
  /\ SF_harvest(system = "harvest" /\ H!Age)

SystemSpec == SystemInit /\ [][SystemNext]_systemVars /\ SystemFairness

-----------------------------------------------------------------------------
(* Every part's type invariant: what the updaters and the workers keep of  *)
(* the data is of the kind its module declares.                            *)
TypesOK == A!TypeOK /\ TypeOK /\ H!TypeOK /\ J!TypeOK /\ T!TypeOK

(* The safety properties of the modules (see there): the archives served   *)
(* after a refresh (app/sources/zim/refresh.py), ...                       *)
SettledInStep == A!SettledInStep

(* ... the cache of curricula (app/sources/lehrplan/harvest.py), ...       *)
KeepsWhatItHas == H!KeepsWhatItHas

(* ... the cached reads and the If-Match of the custom templates           *)
(* (app/templates/manager.py), ...                                         *)
ReadsAreFresh == T!ReadsAreFresh
NoLostUpdate == T!NoLostUpdate

(* ... the runs the API asks for (app/jobs/runner.py).                     *)
RequestRunsSoon == J!RequestRunsSoon

(* A change of active.json is served (app/sources/zim/refresh.py).         *)
ChangeServed == system = "follower" => A!ChangeServed

(* An index gets current, and the status stops saying that a run is under  *)
(* way (app/sources/dump_sync.py, gnd/sync.py, wikidata/sync.py).          *)
IndexGetsCurrent == system = "dump" => GetsCurrent

(* The cache gets to hold what MEM has (app/sources/lehrplan/harvest.py).  *)
FollowsMem == system = "harvest" => H!FollowsMem
=============================================================================
