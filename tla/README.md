# Verification of the Kompendium text generator

TLA+ models of the concurrent and fault-tolerant parts of this service, TLC runs on small
instances, and TLAPS proofs of the properties that should hold for every size. Paths are relative
to `src/app/` unless they start otherwise.

Run a model with `tlc -config MCLlmClient.cfg MCLlmClient` (each `MC*.cfg` belongs to the `MC*.tla`
whose name it starts with), the proofs of a module `X` with `tlapm XProofs.tla`.

## The system

A FastAPI service with several worker processes writes compendium texts from local knowledge
archives (ZIM files), curricula, a repository of materials and, where configured, a language model
behind the b-api. Sidecars ("updaters") keep the data on shared volumes current.

| Component | State | Operations | Talks to | Hard behaviours |
|---|---|---|---|---|
| LLM client (`llm/client.py`, `credentials.py`) | two stops with deadlines, a probe flag for each, failures in a row, semaphore; per request the refused key | `chat`, `models`, `check_model`, through `_request` → `_admit`, `_attempts`, `_slot`, `_trip`, `_close` | b-api, all request threads of a worker | late answers, probes, retries, several keys, permits on every way out |
| Request budget (`llm/budget.py`, `call.py`, `deadline.py`) | used, reserved, deadline | `reserve`, `settle`, `budgeted_chat`, `expire` | LLM client | parallel check-and-reserve, waiting for each other, retries that cost |
| LLM gateway (`compendium/gateway.py`) | last model check and its age | `available`, the re-check | LLM client, all requests of a worker | checks beside each other that end in another order |
| Compendium pipeline (`service.py`, `concurrency.py`, `compendium/`, `compose/`) | the parts of one request, their threads and their time | generate, regenerate | everything that answers a request | parts beside each other, failure of one, calls that still wait for a slot |
| Repository client (`sources/wlo/`) | cached listings with ages | pages, attempts, part 3 | edu-sharing | lists that end early, one request's time against another's, a cache of both |
| API limits (`api/limits.py`, `gates.py`, `body_limit.py`) | windows per client | `retry_after`, gates | requests | window boundaries, cap of clients |
| Local indexes (`sources/local_index.py`, `local_copy.py`) | one connection per worker, identity of the file, copies on local disk | look, reopen, drop, copy, prune | index syncs, request threads | file replaced under readers, workers that copy and prune in one directory |
| Archive registry (`sources/zim/registry.py`, `refresh.py`, `active.py`, `wiring.py`) | open archives, last seen signature | open, watch, refresh before each request | ZIM sync through `active.json` | concurrent refreshes, failed reads, change during the start |
| Lock files (`locks.py`) | a file with text, inode and time of modification | `acquire_lock`, `refresh`, `release` | all jobs, template store | takeover races, crashes, pauses |
| Job loops (`jobs/runner.py`) | next run, sign of life, trigger file | `run_periodically` | jobs, API trigger | trigger against a run under way, restarts |
| ZIM sync (`jobs/zim_sync.py`, `sources/zim/downloader.py`, `active.py`, `api/v2/zim.py`) | archives, `.part` files, `active.json`, retired and unreadable lists | adopt, prune, download, activate, retire, admin delete | Kiwix catalogue, workers, lock | crash between any two steps, full or damaged disk, change of profile |
| Index syncs (`sources/dump_sync.py`, `gnd/`, `wikidata/`, `cli_sync.py`) | index file, `.part`, dumps, status | check, find, download, build, swap, build by hand | sources, lock, local indexes | failure or crash at any step, two writers |
| Curriculum harvest (`sources/lehrplan/harvest.py`, `cli_lehrplan.py`) | cache, draft, status | check, count, list, pull, refuse, commit | MEM, lock | a source that answers with too little while it reloads |
| Templates (`templates/manager.py`) | files with versions, notes of deletions, cached reads | read, save, delete, with If-Match | lock files, workers, CLI | several admins, reads between two steps of a save, crashes |
| Synthesis and regeneration (`synthesis/`, `compose/`) | the document, with the client | write, keep, number, attribute | pipeline, editors | blocks of several requests in one document, lost rows and entries |
| Knowledge, matching, markup, domain, UI, observability, CLI | none that outlives a request, but metrics | pure or sequential text work | | rules about text rather than protocols |

What makes each correct: an LLM outage or refusal holds back exactly the calls it concerns, and no
longer than it lasts; a request never spends more than its budget, no call of it hangs, and what ran
beside it stops when it fails; part 3 says when its lists lack something; a job runs once at a time
although every process may die; an archive in use is never deleted and the newest one gets into
use; a worker serves what `active.json` names and reads the newest index, never a half-written
one; every citation of a text leads to its source or is reported; a source in trouble never
empties what the service has; no admin overwrites what another saved.

## The modules

### What requests meet

**`LlmClient`** - the circuit breaker that all request threads of a worker share.
`openLeft`, `ownLeft`, `probing`, `ownProbing`, `failures`, `slots` are the fields of `BApiClient`
(`_open_until`, `_own_key_until`, `_probing`, `_own_key_probing`, `_failures`, `_semaphore`), with
deadlines kept relative to the clock; `refused` holds the `RequestKey`s with a refusal. Each call is
a small state machine whose steps end where the code takes or leaves the lock `_state` or the
semaphore: `Admit` (`_admit`), `KeyProblem`, `Queue`, `TakeSlot`/`GiveUp` (`_slot`: a permit, or
none in time), `TimeUp` (the request's time ended while the call waited: the permit goes back
unused), `Answer` (`_send` and the release of the permit), one `Handle...`/`Refuse...` action per branch of
`_attempts`, `Retry`, `Limited`, `Exhausted` and `TripAfterFailures` (the check of the failures
without the lock, and the stop a step later), `Leave` (the `finally` of `_request`). An answer is one
of ten classes: what the client does about it, not what it says.

**`RequestBudget`** - `RequestBudget` and `budgeted_chat`. `used`, `reserved` and `held` are the
code's; `reserve` is granted, denied or put to sleep (`Grant`, `Deny`, `Wait`), `Settle` wakes the
sleepers, `RetryReached` is the callback `reserve_retry`. `timed`/`timeUp` stand for a deadline
that may not exist, may pass or be made to expire.

**`Request`** - `CompendiumService.generate` with `Beside`: the request's own thread prepares the topic
and makes part 1, the jobs of parts 2 and 3 run beside it. The callers of the LLM wait for a slot
(`Ask`, `Send`, `GiveUp`), the reader of part 3 does not. `Leave` is `Beside.__exit__` after an error:
it waits for nothing and ends the branch of time (`expired`) that the jobs look at again once they
have a slot.

**`Gateway`** - `LlmGateway.available` for requests without a key: they read the check (`ReadCheck`)
and its age (`ReadAge`) without the lock, ask the b-api, which takes as long as it takes (`Told`), and
keep what it said then (`KeepCheck`).

**`RateLimiter`** - `RateLimiter.retry_after`: `hits` and `order` are the ordered dictionary of
windows, `Pass` and `Refuse` its two ways out, each with the forgetting of the client seen longest ago.
`passed` and `promised` record what the code told the clients.

**`CollectionReader`** - one part 3 after another: the listing of a collection and its
sub-collections (`Open`, `Page`, `NextSub`) with the attempts of a read, the time of the request,
the cap of pages and the page that repeats; what is kept in the cache the workers share
(`Keep`, `Expire`); and the reasons the text gives in the end (`gaps`).

**`Regeneration`** - part 1 over a series of requests: the document a client keeps (`blocks`, its
citation table `rows`, its sources `list`), the partial regeneration (`Generate`: `to_keep`,
`attribute`, `SectionWriter.write`) and what happens to the document in between (`Review`,
`CopySentence`, `LoseRow`, `LoseEntry`). A block is the citations it prints, and for each of them the source
whose words stand before it, which the service cannot read out of a text: it has the number
and the row of that number. `lost` collects the blocks to be kept that an answer changed.

**`LocalIndex`** - request threads of several workers look at the index file once a minute (`Name...`,
`Stat`), open another one (`Reopen`), drop a connection that fails, and copy the file to the pod's
disk (`StartCopy`, `EndCopy`), where older copies are pruned under whoever was named one. `Swap` is
the sync.

### What keeps the data current

**`LockFile`** - `acquire_lock`, `HeldLock.refresh` and `release`, run by processes that crash or
pause. The file has an inode, a text and an age class; the steps between creating the file, writing
its text and looking at its inode are separate, as are the judgement that a lock is stale and its
removal. The second look and the removal are one step: that window of microseconds is the one the
code documents (`locks.py:10-11`). `Age` lets the lock of a living run go stale only with `pauses`.

**`JobLoop`** - `run_periodically`: `untilRun` and `untilAlive` are `next_run` and `next_alive`, relative
to the clock; a task ends with any time for the next run, which covers success, the early retry
and a time the task names. `Ask` writes the trigger file at any moment, `Restart` starts the container.

**`ZimSync`** - one run of `ZimSync._run` after another under the lock, with the downloader and the
state it keeps in memory (`state`) next to what is on the disk (`disk`, `parts`, `active`). A step
ends where something lasting was done, so a `Crash` between two steps leaves what a real one does.
`JudgeUnused`, `FindNoSync` and `Delete` are the admin's `DELETE /api/v2/zim/{file}`: the look at
`active.json`, the look at the lock of the sync, and the removal of the file with its `.part`; a run
may begin, or end, between any two of them (`cleared`). A run whose `.part` went that way cannot
rename it (`DownloadLost`). `DropUnreadable` may fail to delete: the file stays on the disk, noted
unreadable.
`Publish`, `Tick`, `Damage`, `Lose` and `ChangeProfile` are the world around it. A retired entry
carries the ticks it still has instead of a date.

**`ArchiveFollower`** - a worker that follows `active.json`: what `from_active` opened at the start,
the signature the watcher saw (`current`: whether that is the file's signature now), and the threads
in `refresh` with its lock. `Open` is `ZimRegistry.reload`: an archive that does not open is logged
and left out (`skipped`), and the change counts as seen all the same. The look at the signature and
the note of it is one step; a second thread that looks in between only reads the file once more.

**`IndexFile`** - what the index syncs promise the workers about one index: it is replaced by whole
indexes of one release, and never goes away. **`DumpSync`** implements it (`Implements`): the check
and the run of the updater (`dump_sync.py`) and the build by hand (`cli_sync.py`) share the lock and
the `.part` file; `BeginPart`, `EndPart` and `Swap` are `write_atomically`, done by either. `follows`
says which of the two syncs it is: the GND's asks its source at each check, Wikidata's only when the
active Wikipedia archive is newer than the index (`Asked`, `archive`), and may else stay on an older
release for good. `LocalIndex` reads such a file.

**`Harvest`** - `due`, the run over the states of MEM and its refusals. A curriculum in the cache is
whole, without roles ("mute": no search finds it) or empty; a reloading MEM may name fewer curricula
and answer with any of these. `CountFirst` is `_refuse_a_counted_loss` and the reading of the
curricula with elements (`before`), `Loss` is `_refuse_a_loss`; `Judge` applies it to the draft, and
`Commit` swaps the draft in, a step later: the draft's index is built in between, and the run may be
stopped or the cache break. `health` tells a cache with broken pages, which is due but still compared
with (`available`), from one that is gone. What could not be read of the cache for the comparison
counts as nothing it had, as in the code (`Unread`, `blind`).

**`Templates`** - one template on the volume: reads through `_custom_cache`, whose signature is taken
before the files are loaded, saves and deletes under the lock with the version compared and counted
on, and the note of the last version that a deletion leaves behind.

Each process of `ZimSync`, `DumpSync` and `Templates` finds the lock as `LockFile` provides it: the
lock is not modelled again in them, `LockFile!MutualExclusion` is what they rest on.

### Modules for TLC and for the proofs

The `MC*` modules give constants values. `MCRequests` and `Data` put parts side by side that share no
state: each behaviour belongs to one part (`part`, `system`) and the others stay as they begin, so
the run is the union of the parts' state spaces, not their product. They list every action of
every part, and repeat the fairness of the modules for the behaviours of their part. They have
constants of their own for each part; `MCRequests` and `MCData` give them their values.

`LlmClientProofs`, `LockFileProofs` and `ZimSyncProofs` extend the module they name with its
theorems. `TemplatesProofs` has those of `Templates` as a part of `Data`, and `DataProofs` those of
the composition and of its other parts. Of the parts of `Requests`, `RegenerationProofs` treats the
document, `WorkerProofs` what the requests of a worker share (limiter, index, gateway), and
`RequestsProofs` the budget, the lists, the threads of one request and the composition.

## The runs

| Run | Instance | What it shows |
|---|---|---|
| `llm_client` | 2 threads, request key + own key, 1 permit, 2 attempts, stops of 1 and 2 ticks, all answers | type, `SlotsConserved`, `FlagsHaveProbes`, `StopsOnlyLengthen`, `KeyFaultsStayWithTheirKey` |
| `llm_client_live` | the same with answers, failures and refusals, fair | `CallsEnd`, `Recovers` |
| `llm_client_probes` | 3 threads, answers and timeouts | violated: `OneProbe` |
| `requests` | the seven parts below | what they say |
| - budget | 3 calls with prompts 1, 2, 3 and outputs of 2, limit 8, 3 attempts, with and without a deadline | `BudgetKept` (`WithinLimit` and `ReservedIsHeld`), `DeniedForSpentTokens`, `EveryCallEnds` |
| - request | 2 calls per thread, 1 slot, with and without parts 1 and 3 | `StopsBeside` |
| - gateway | 2 requests, 3 changes of the model or the suspension | `UsesModelAgain` |
| - limiter | 3 clients, 2 of them remembered, 2 requests in 4 ticks, 2 ticks a second, 7 ticks | `WindowKept` |
| - collections | 2 requests, 1 sub-collection, 3 to 5 of 7 materials in the upper one, pages of 2, at most 2 pages, 2 attempts, 1 fault | `SaysWhatIsMissing`, `OwnTimeOnly` |
| - index | 2 threads, in one worker (1 failure, with and without copies, with and without an index at first) or in two with copies and no failure; 3 versions of which one is broken, 3 copies | `ServesOn`, `FollowsFile` |
| - document | templates of 2 blocks and of 1, 3 sources (2 with one title, 1 without an address), one per request, 3 requests, up to 2 citations each, numbers up to 4, 1 edit | `AnswersHold` (`Attributed`, `KeptBlocksStay`, `OneMeaning`) |
| `collection_missing` | the same instance | violated: `SaysWhatIsMissingEver` |
| `lock_file` | 3 runs, 3 inodes without reuse, 1 crash, with and without pauses, fair | `MutualExclusion`, `ForeignLockKept`, `PausedRunKeepsOff`, `AbandonedLockGoes` |
| `lock_file_reuse` | 2 inodes with reuse, 2 crashes | violated: `ForeignLockKept` |
| `zim_sync` | 3 + 1 dumps, 2 profiles, room for 4, retention 1, 3 faults, fair | `NamedArchivesStay`, `ServesOn`, `RetiredGo`, `NewestActive` |
| `zim_sync_stuck` | room for 2, 1 fault, fair | violated: `NewestActive` |
| `zim_sync_grace` | 1 fault | violated: `GracePeriod` |
| `data` | the five parts below | what they say |
| - follower | 2 archives, 2 threads, 3 writes, 2 failures (to look, read or open), fair | `SettledInStep`, `ChangeServed` |
| - dump | following its source or the archive, 3 releases, 2 faults, 1 build by hand, fair | `Implements`, `ReportsWhatIsThere`, `IndexGetsCurrent` (`GetsCurrent`) |
| - harvest | 3 curricula in 2 states, no emptied one tolerated, a cache at first, 1 change of MEM, 1 fault (the loss of the cache among them), fair | `KeepsWhatItHas`, `FollowsMem` |
| - loop | runs every 6 ticks, a sign of life every 4, sleeps of 3 at most | `RequestRunsSoon` |
| - templates | 2 clients, 2 saves, 1 fault | `ReadsAreFresh`, `NoLostUpdate` |
| `archive_follower_start` | 2 archives, 2 threads, 3 writes, no failure, fair | violated: `FollowsActive` |

Each passing run also checks the type invariants of its modules (`TypeOK`, or `TypesOK` for all parts).

Why the bounds are enough:

- The breaker's races need a call of before a stop, the stop, and one call after it; two threads do
  that as each call returns to `idle` and comes again, and the third thread matters only for two
  probes beside a late timeout. One permit makes calls queue, and stops of one and two ticks differ
  in length, which is all the code compares.
- Three budget calls let two reservations stand in the way of a third. One slot makes a job of a
  request queue behind the other caller, two calls let it come back after the failure.
- Two requests beside each other are two checks that end in the wrong order, or one that reads what
  the other listed. Seven materials in pages of two, of which two are read, end one collection by the
  cap and the other by its total; one fault is a read that fails or a time that ends.
- Two remembered clients and a third forget one; seven ticks are a window and what follows it.
- Two threads in one worker race for its connection, in two workers for its directory of copies. Three
  versions and copies let the pruning reach the copy a thread was named.
- Three requests for a document let a block kept twice, with a source of the first, meet one made
  in the second; two sources of one title are told by their addresses only. One edit loses what a
  kept block needs, or lets two kept blocks share a number.
- Three runs let one judge a lock stale, a second take it over and a third come in.
- Three dumps of an archive give one active, one retired and one being fetched; the middle one is a
  dump libzim cannot open. Three faults combine a crash with damage and a failed deletion.
- Three releases let a build by hand bring an older one over the updater's, and a newer appear
  during a run; two faults combine a crash with a failure of the run that follows.
- Three curricula are a state that can lose half of what it has and one that can lose all. MEM begins
  with what the cache holds, or with most of it lost. One fault is broken pages before a run or while
  it builds, a read of the cache that fails, a stop or a forced run.
- Three releases and the archive before, between and after them let the Wikidata index stay behind its
  source and catch up when a newer archive becomes active.
- Two saves after each other are a draft read before the first that meets the second.

`MaxCrashes`, `MaxFaults`, `MaxWrites`, `MaxFailures`, `MaxChanges`, `MaxBuilds`, `MaxSaves`,
`MaxCalls`, `MaxCopies`, `MaxVersion`, `MaxRelease`, `MaxTime`, `MaxRequests`, `MaxEdits`, `MaxNew` and
`MaxNumber` bound how often something comes or
goes wrong in one behaviour, never what the program does about it.

Deadlock is checked except where the system really stops: calls that have all ended, a request that
was answered, a worker that follows a file which changes no more.

### Fairness

- `LlmClient`: time passes, and each step of an admitted call is weakly fair - each wait in it has a
  timeout. Strong fairness for the admission of calls with the service's own key says that such calls
  keep coming and one of them meets a moment in which it is admitted. `Recovers` assumes also that
  the b-api answers from some moment on and that, of the calls with that key which queue for a permit, not
  all give up (`OwnCallsGetOut`).
- `RequestBudget`: every thread runs on; nothing is assumed of the deadline.
- `Gateway`: requests come and run on, time passes, a suspension ends (`LlmClient!Recovers`).
- `LocalIndex`: each worker is asked again and its look runs on; a minute passes. Strong fairness of
  a look that may copy says that not all requests are probes, which must not wait for a copy.
- `LockFile`: jobs begin again, run to their end and release (the loops of the updaters), time passes.
- `ZimSync`: the loop runs the job again, time passes; faults are finite.
- `DumpSync`: the loop checks again and runs on, a build by hand runs on, a dead process's lock goes
  stale.
- `Harvest`: the loop checks and runs on, a reload ends. Strong fairness of the check and of the aging
  of the cache says that each happens although the loop is busy in between.
- `ArchiveFollower`: a worker gets through its start and is asked again (probes come every few
  seconds, and each request runs `refresh`).

### Assumptions

- No living process works for longer than its lock takes to go stale without refreshing it. For the
  index syncs that is three hours, and only the download refreshes (`dump_sync.py:124`): a build that
  took longer could lose its lock to a build by hand.
- The repository gives full pages and does not change while a request reads it.
- The signature of `active.json` and of the templates differs for any two contents.
- No two sources of a document share an address, a source without one has a title of its own
  (`RegenerationAssumption`), and the numbers of its citations stay below 1000, the most a marker
  is read with (`MarkerLimit`; `markup/citations.py:7`). Beyond that the code does what the document
  part shows with `MarkerLimit = 2` and `MaxNumber = 6`: a new block takes the number of a kept one.
- The limiter exists for a limit above zero (`LimiterAssumption`; `main.py:341`).
- A sign of life that cannot be written is tried again after the same time as one that was.

## What is proved

| Module | Theorems | Holds for |
|---|---|---|
| `LlmClientProofs` | `Safety`, `TypeCorrect`, `NoFlagLeftBehind`, `NoPermitLost`, `StopsKept`, `KeyFaultsContained` | any threads, request keys, attempts, permits, and stops with `AuthSuspend >= Breaker >= 1` |
| `LockFileProofs` | `TypeCorrect`, `OthersLocksKept` | any runs, inodes, crashes |
| | `Safety`, `OneHolder`, `LocksKept` | the same, without reuse of inodes |
| `ZimSyncProofs` | `TypeCorrect`, `Safety`, `NamedStay`, `ServingGoesOn` | any archives, profiles, room, retention and faults |
| `TemplatesProofs` | `TemplatesSafety`, `NoUpdateLost` | any clients, saves and faults |
| `DataProofs` | `RunsEveryPart`, `DataTyped` | any values of all constants of `Data` |
| | `SyncSafety`, `SyncImplements`, `SuccessIsInPlace` | any releases, faults, builds by hand |
| | `RequestsRunSoon` | any interval, sign of life and longest sleep |
| | `WorkersServeWhatIsNamed` | any archives, threads, changes and failures |
| | `CacheKeeps` | any states, curricula and number tolerated |
| | `FreshReads`, `DraftsMeetTheirText` | any clients, saves and faults |
| `RegenerationProofs` | `DocumentSafety`, `NumbersUnique`, `KeptStay`, `AnswersAttributed` | any templates, sources, requests and edits, with `MaxNumber <= MarkerLimit` |
| `RequestsProofs` | `RequestsRunEveryPart` | any values of all constants of `Requests` |
| | `DocumentsHold`, `RequestsTyped` | the same, with `MaxNumber <= MarkerLimit` |
| | `BudgetHolds`, `DenialsHaveReason` | any finite set of calls, prompts, outputs, attempts and limit |
| | `WindowsHold` | any clients, limit, window and number of clients remembered |
| | `ListsSayWhatIsMissing`, `ListsEndInOwnTime` | any requests, collections, sizes, pages, attempts and faults |
| | `NothingStartsAfterFailure` | any calls and slots |
| | `IndexesServeOn` | any workers, threads, versions, broken files, copies and failures |

**The breaker.** The inductive invariant is `TypeOK /\ FlagsHaveProbes /\ SlotsConserved`. The three
belong together: the permits stay within the semaphore's range only because the attempts on the
wire are counted with them, and a flag has its probe only as long as each call's record of what it
probes is well-typed and survives up to `Leave`. The proof has one step per action: `ProceedStep`
treats what all steps of a call but its admission and its end have in common (`Step`), `AdmitStep`,
`LeaveStep` and `OutsideStep` the others. The action properties need one more invariant,
`TripsAfterFailure`: a call on its way to `TripAfterFailures` met a failure and no 429 - the stop comes
a step after the check, and by then only the call itself knows why.

**The lock.** `MutualExclusion` speaks of runs that hold the lock, and is not inductive: a run that
has only created the file must count as well, and what could take its lock away must be ruled out.
`OwnersFile` says that the file of a run that lives is there, fresh, and of this run alone;
`RemovesStale` that the file a run is about to remove is stale if it is still the same. A fresh file
stays fresh while its run lives (no pause), so no run that removes one can mean it, and a new
file has an inode nobody goes by (no reuse). `MCLockFileReuse.cfg` shows that the last is needed.

**The index sync.** To see that a swap only brings a whole index (`SyncImplements`), one must know that
the `.part` file is the one its process has written: `PartKnown`, which rests on `LockHeld` - a busy
process has the lock, and a lock goes stale only without its process. `RunInPlace` adds that from the
swap to the report the index is that of the run. The refinement maps `file` to `index`; every step but
`Swap` maps to a stutter.

**The document.** `OneMeaning` is inductive with the type invariant: what is kept has numbers up to the
highest that was read from its markers, what is new has higher ones, and new blocks share none
(`GenerateMakes`). This needs every marker to be readable (`MarkersAreCitations`), which is where
`MaxNumber <= MarkerLimit` comes in. That the report is exact (`AnswersAttributed`) follows citation
by citation (`KeptCitation`): by `OneMeaning` the row of a kept number tells the source of its words, and
by `FindIsExact` a row finds that source or none.

**The ZIM sync.** That a named archive stays (`NamedArchivesStay`) needs to know what a run has in
its memory while `active.json` still says what it said before: `ServingAreKept` says for each sub
that the run has the archive the file names, or has none - because that one does not open, because
it has just fetched it anew, or because the profile gives it up once what it requires is there.
`RetiredAreListed` says that the run deletes no retired archive the file does not list, but at its
end (`saving`), when the file has the new list. Neither is inductive without the type, and the type is
not without `PartsUnfinished`: the rename of a download finds a `.part` beside no finished file. The
proof found the third exception of `NamedArchivesStay`: with a retention of 0, which `settings.py:135`
allows, `_prune` deletes the archives of the profile before (`zim_sync.py:209`) ahead of the save
(`zim_sync.py:213`), so that a run that dies between the two leaves an `active.json` that names
deleted archives. The runs have a retention of 1.

**The templates.** A write with If-Match must replace what its client read, and a client knows a
version only. So a version must stand for one text (`OneTextPerVersion`), among all that anybody
still knows from a read or the cache, across deletions: a template made anew counts on from the note
(`VersionsCount`), and what is known of a deleted one is not above that note or is being noted by the
client in `unlinked`. This holds until a deletion dies before its note (`gap`). `HolderIsAlone` keeps the
comparison valid until the write; `ReadsFollow` keeps a cached text with its signature.

**The composition.** `RunsEveryPart` shows that each step of `Data` is a step of one part or a stutter
of it, so the theorems of the parts carry over.

**The harvest.** `CacheKeeps` speaks of the cache at the swap, but a run compares with what it read
when it began (`before`) and what it read when it judged. `HarvestInv` carries the comparison over the
steps in between. `BeforeHolds`: the curricula with elements that the run read at the beginning are those of the cache,
unless that read failed, while the run lists and pulls. `DraftKeeps`: from the judgement
on the draft costs the cache no more than is allowed, but for what was not read. Both rest on the
fact that nothing but the swap, or the loss of the cache, changes what the cache holds; and one that
is lost holds nothing (`GoneIsEmpty`), so no swap can cost it anything (`NothingToLose`). The counts
are of sets that are finite (`HarvestAssumption`).

**The budget.** That what is reserved is what the open calls hold (`Balance`) is a fact about a sum;
`Reservations` is the set of all tokens held, so that it is one about a cardinality, which grows with
one call's share at a time (`OneChanges`). That a call never settles more than it holds needs `Holds`:
a call holds its prompt and its answer, and its prompt once more for each attempt that reached the model.

**The windows.** `WithinWindow` is about the requests let through, the limiter counts its hits:
`LimiterInv` says that both are the same within the window as long as the client is not forgotten, and
that a promise is not before the oldest hit leaves. `From` only drops times at the front, as the code
does, and dropping twice is dropping once (`FromTwice`). The seconds told are rounded up (`RoundedUp`).

**The lists.** `CachedHold`: a cached listing was not cut by anybody's time, and is whole if it names
no other reason for its end (`EndsComplete`). `SaysAll`: every collection a request is through with is
listed whole, or there is something for part 3 to say.

**The copies of an index.** `Store`: the directory has the two newest copies, one of each version.
`Finds`: a thread that was named a copy finds it or a newer one of its version, or two copies were made
since. `Names` says the same of the copy a worker reads. With these the loss of an index has one of the
reasons in `ServesOn`.

**The others.** Every slot of the model is free or with a call, and a failed request has ended the
branch of its jobs (`RequestInv`), so none that asks and none that gets its slot late goes on. A loop
that goes to sleep has just taken the trigger file or seen none, so what a request has waited and what
a sleep has left never exceed one sleep (`RequestPending`). A list of archives that was read under the
lock is the file's unless a change is still to be looked at or to be read (`LastReadHolds`), and what of it
does not open is all that a reload leaves out.
`RequestsRunEveryPart` carries the theorems of the parts over, as `RunsEveryPart` does.

The assumptions are the named `ASSUME`s of the modules, which TLC evaluates on the runs, and what
the table says beside them. With them every safety property of the passing runs is proved; only
model-checked is liveness (`CallsEnd`, `Recovers`, `EveryCallEnds`, `UsesModelAgain`, `FollowsFile`,
`AbandonedLockGoes`, `RetiredGo`, `NewestActive`, `ChangeServed`, `IndexGetsCurrent`, `FollowsMem`),
which the prover does not treat.

## What the violated runs say

- `OneProbe` (`llm/client.py:745`): a call of before the stop that times out while a probe is out
  takes down that probe's flag; after the renewed stop a second probe goes out beside the first.
- `SaysWhatIsMissingEver` (`sources/wlo/client.py:227`): a repository that ignores `skipCount` and tells a
  total gives the first page over and over until the offset reaches the total; the listing then
  ends as if complete. With any other repository part 3 says what is missing (`SaysWhatIsMissing`).
- `ForeignLockKept` with reused inodes (`locks.py:93`): device and inode do not tell a lock from
  its successor. The comparison of the time of modification as well would.
- `NewestActive` with room for two (`jobs/zim_sync.py:415`): a crash after the rename of a download
  leaves a complete file for which there is "no room" in every later run.
- `GracePeriod` (`jobs/zim_sync.py:352`): a leftover entry of an earlier retirement deletes an archive
  adopted again and replaced once more, without its grace period.
- `FollowsActive` (`sources/zim/active.py:72`): a change of `active.json` during a worker's start counts as
  seen.

Some hazards are in the models and left out of a property, by name: an admin's deletion that judged
the file before it became active, and the deletion by a leftover entry (`NamedArchivesStay`); an index
given up after a passing error of SQLite, until the next swap (`GivenUp` in `FollowsFile`); a
process that dies between the removal of a template and the note of its version (`gap` in
`NoLostUpdate`); a real loss of curricula, which waits for a person (`LossStands` in `FollowsMem`);
an archive that did not open when a change was served, which stays closed until `active.json` changes
again or the worker restarts (`skipped` in `SettledInStep` and `ChangeServed`); what a harvest could not
read of the cache it compares with (`blind` in `KeepsWhatItHas`); and a Wikidata index older than its
source while no newer Wikipedia archive is active (`Asked` in `GetsCurrent`).

## Not modelled, and why

- Texts: prompts, answers, rules about articles, formats; the scores of matching. They are
  sequential, hold no state between requests, and their rules are about German words: a model would
  transcribe them. So are the domain models, the UI, the metrics and the scripts under `docs/`, which
  make up most of the repository's lines.
- `LlmClient`: a service without a key of its own (calls without a request key end in
  `KeyProblem`), the wording of refusals, the model check's reading of `/models`.
- `RequestBudget`: the count of cached tokens. `Request`: what the parts write.
- `Regeneration`: blocks without text and the generated ones, which have no citations; markers and
  rows that cannot be read (a document with one is refused, and a row is as good as lost); templates
  that generate a block another one writes, whose kept text goes without a word (`world.py:266`). The
  gaps in the numbers of a block the model wrote are in the ascending numbers of `InOrder`.
- `Gateway`: requests with a key of their own, which read no check.
- `RateLimiter`: the gates, the body limit, the keys and the thread limiter of the system routes.
- `CollectionReader`: nodes, texts of materials, the topic tree and the search for materials.
- `ZimSync`: range requests, hashes (a file is whole or torn), the status file, a mirror's
  redirects, files without a date in their name, Windows' refusal to delete open files (a failed
  deletion in `CleanUp`), a death between the two removals of the admin's deletion. An archive an admin
  deletes between its download and its activation is noted unreadable, as one that does not open.
- `JobLoop`: when an early retry comes. A task names any time for its next run, so the runs cover the
  early retry and say nothing of its interval.
- `LocalIndex`: leftover `.part` files, Windows' refusal to delete an open copy. A copy is renamed into
  place and older ones are pruned in one step (`local_copy.py:113`, `128`): in between the directory only
  has more copies.
- `DumpSync`, `Harvest`: the parsing of dumps and answers, `--force` of the index syncs, an index built by
  hand from files without a date, the report and skipped curricula.
- `Templates`: the schema, several templates at once, files edited by hand, and a read that fails for
  another reason than a file that is gone: the code keeps that as no template until the file changes
  (`manager.py:188-195`), and `ReadsAreFresh` says nothing of it.

## Plan

1. `LocalIndex` shown to implement "each lookup reads one whole version, never an older one than the
   last, unless the file was dropped".
2. The assembly after `generate`; the cache of nodes and the search of `sources/wlo`.
3. The fusion of ranks as operators with a reference definition.
