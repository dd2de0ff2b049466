------------------------------ MODULE ZimSync ------------------------------
(***************************************************************************)
(* The sync job of the ZIM archives (app/jobs/zim_sync.py, with what it    *)
(* calls of app/sources/zim/downloader.py and active.py) and the deletion  *)
(* of an archive by an admin (app/api/v2/zim.py).                          *)
(*                                                                         *)
(* A run holds the lock (module LockFile), so one run at a time is         *)
(* modelled; it works on the state in memory and writes active.json whole. *)
(* Steps end where something lasting was done: a crash between any two of  *)
(* them leaves the disk as it is.  A clean-up that a crash cuts short      *)
(* leaves what one with failed deletions leaves.  Time passes in ticks.    *)
(***************************************************************************)
EXTENDS Naturals, FiniteSets, FiniteSetsExt

CONSTANTS
  Subs,        \* the subscriptions of the manifest
  Profiles,    \* the profiles of the manifest
  Wants,       \* the subscriptions of a profile
  Requires,    \* those of them whose archives are required
  Offers,      \* how many dumps of a subscription Kiwix publishes
  Unopenable,  \* the dumps libzim cannot open although their hash is right
  Retention,   \* the ticks a retired archive stays
  Capacity,    \* the archives the volume holds
  Bootstrap,   \* ZIM_BOOTSTRAP_DOWNLOAD: missing archives are fetched
  MaxFaults,   \* a bound on crashes, failures and changes from outside
  Missing,     \* no active.json
  Corrupt      \* an active.json that is no JSON object

Files == UNION {{<<s, d>> : d \in 1 .. Offers[s]} : s \in Subs}
Dump(f) == f[2]
FilesOf(s) == {f \in Files : f[1] = s}

ASSUME ZimAssumption ==
  /\ Retention \in Nat /\ Capacity \in Nat /\ MaxFaults \in Nat
  /\ Bootstrap \in BOOLEAN
  /\ Unopenable \subseteq Files
  /\ Offers \in [Subs -> Nat \ {0}]
  /\ Wants \in [Profiles -> SUBSET Subs]
  /\ \A p \in Profiles : Requires[p] \subseteq Wants[p]
  /\ Subs # {}

None == 0  \* no archive of a subscription is active

(* ActiveState: a retired archive carries the ticks it still has.          *)
States ==
  [archives : {a \in [Subs -> Nat] : \A s \in Subs : a[s] = None \/ <<s, a[s]>> \in Files},
   retired : SUBSET (Files \X (0 .. Retention)),
   unreadable : SUBSET Files, profile : Profiles]

ASSUME MissingAssumption == Missing \notin States /\ Corrupt \notin States

VARIABLES
  disk,     \* the archive files: absent, whole, or torn by a crash or a damaged disk
  parts,    \* the .part files
  latest,   \* the newest dump the catalogue offers of each subscription
  active,   \* active.json
  profile,  \* ZIM_PROFILE
  pc,       \* where the run stands
  todo,     \* the subscriptions its loop has still to visit
  target,   \* the dump it fetches
  state,    \* its state in memory
  written,  \* the state as active.json holds it, as far as the run knows
  judged,   \* the file an admin's request found not to be in use
  cleared,  \* whether it found no sync running after that
  faults    \* crashes, failures and changes from outside so far

job == <<pc, todo, target, state, written>>
vars == <<disk, parts, latest, active, profile, job, judged, cleared, faults>>

Fresh == [archives |-> [s \in Subs |-> None], retired |-> {}, unreadable |-> {},
          profile |-> profile]

Active(st) == {<<s, st.archives[s]>> : s \in {t \in Subs : st.archives[t] # None}}
RetiredFiles(st) == {r[1] : r \in st.retired}
(* Mutant: what is retired is due at once.                                 *)
RetireDue(files) == {<<f, 0>> : f \in files}

Retire(files) == {<<f, Retention>> : f \in files}

Opens(f) == disk[f] = "whole" /\ f \notin Unopenable

TypeOK ==
  /\ disk \in [Files -> {"absent", "whole", "torn"}]
  /\ parts \subseteq Files
  /\ \A s \in Subs : latest[s] \in 0 .. Offers[s]
  /\ active \in {Missing, Corrupt} \/ active \in States
  /\ profile \in Profiles
  /\ pc \in {"idle", "adopting", "cleaning", "updating", "loading", "loaded",
             "unreadable", "finishing", "saving"}
  /\ todo \subseteq Subs
  /\ target \in Files
  /\ pc = "loaded" => target \notin parts
  /\ state \in States
  /\ written = Missing \/ written \in States
  /\ judged \subseteq Files /\ Cardinality(judged) <= 1
  /\ cleared \in BOOLEAN /\ (cleared => judged # {})
  /\ faults \in 0 .. MaxFaults

NoJob == pc' = "idle" /\ todo' = {} /\ UNCHANGED target

Init ==
  /\ disk = [f \in Files |-> "absent"]
  /\ parts = {}
  /\ latest = [s \in Subs |-> 1]
  /\ active = Missing
  /\ profile \in Profiles
  /\ pc = "idle" /\ todo = {} /\ target = CHOOSE f \in Files : TRUE
  /\ state = Fresh /\ written = Missing
  /\ judged = {} /\ cleared = FALSE
  /\ faults = 0

GoTo(place) == pc' = place
World == <<latest, profile, judged, cleared>>

-----------------------------------------------------------------------------
(* ZimSync._run                                                            *)

(* _load_state: a lost or corrupt file starts from nothing.                *)
Begin ==
  /\ pc = "idle"
  /\ LET known == active \notin {Missing, Corrupt} IN
       /\ written' = IF known THEN active ELSE Missing
       /\ state' = [(IF known THEN active ELSE Fresh) EXCEPT !.profile = profile]
  /\ GoTo("adopting")
  /\ todo' = Wants[profile]
  /\ UNCHANGED <<disk, parts, active, target, faults, World>>

Visit(s) == s \in todo /\ todo' = todo \ {s}

Save(st) == state' = st /\ active' = st /\ written' = st

(* The active archive opens: nothing to adopt.                             *)
AdoptNothing(s) ==
  /\ pc = "adopting" /\ Visit(s)
  /\ state.archives[s] # None /\ Opens(<<s, state.archives[s]>>)
  /\ UNCHANGED <<disk, parts, active, pc, target, state, written, faults, World>>

(* Mutant: a torn archive stays active when no other opens (audit of       *)
(* 2026-10-15).                                                            *)
AdoptElseKeep(s) ==
  LET current == <<s, state.archives[s]>>
      candidates == {f \in FilesOf(s) : disk[f] # "absent" /\ f # current}
      newest == Max({Dump(f) : f \in {g \in candidates : Opens(g)}})
      older == {f \in candidates : Dump(f) < newest} \ RetiredFiles(state)
  IN
  /\ pc = "adopting" /\ Visit(s)
  /\ ~(state.archives[s] # None /\ Opens(current))
  /\ IF \E f \in candidates : Opens(f)
       THEN Save([state EXCEPT !.archives[s] = newest, !.retired = @ \cup Retire(older)])
       ELSE UNCHANGED <<state, active, written>>
  /\ UNCHANGED <<disk, parts, pc, target, faults, World>>

(* The newest local file that opens becomes active and the older ones      *)
(* retire; without one the subscription is left without an archive.        *)
Adopt(s) ==
  LET current == <<s, state.archives[s]>>
      candidates == {f \in FilesOf(s) : disk[f] # "absent" /\ f # current}
      newest == Max({Dump(f) : f \in {g \in candidates : Opens(g)}})
      older == {f \in candidates : Dump(f) < newest} \ RetiredFiles(state)
  IN
  /\ pc = "adopting" /\ Visit(s)
  /\ ~(state.archives[s] # None /\ Opens(current))
  /\ IF \E f \in candidates : Opens(f)
       THEN Save([state EXCEPT !.archives[s] = newest, !.retired = @ \cup Retire(older)])
       ELSE /\ state' = [state EXCEPT !.archives[s] = None]
            /\ UNCHANGED <<active, written>>
  /\ UNCHANGED <<disk, parts, pc, target, faults, World>>

Adopted ==
  /\ pc = "adopting" /\ todo = {}
  /\ GoTo("cleaning")
  /\ UNCHANGED <<disk, parts, active, todo, target, state, written, faults, World>>

(* The retired archives that are due; one that is active again stays.      *)
Due(st) == {r \in st.retired : r[2] = 0}
Doomed(st) == {f \in {r[1] : r \in Due(st)} \ Active(st) : disk[f] # "absent"}

(* The .part files no run of this profile will resume.                     *)
DeadParts(st) ==
  {f \in parts : /\ f[1] \in Wants[profile]
                 /\ st.archives[f[1]] # None
                 /\ Dump(f) <= st.archives[f[1]]}

(* Mutant: a file that cannot be deleted is no longer listed.              *)
CleanUpOnce(st) ==
  \E failed \in SUBSET (Doomed(st) \cup DeadParts(st)) :
    /\ failed # {} => faults < MaxFaults
    /\ faults' = IF failed # {} THEN faults + 1 ELSE faults
    /\ disk' = [f \in Files |-> IF f \in Doomed(st) \ failed THEN "absent" ELSE disk[f]]
    /\ parts' = parts \ (DeadParts(st) \ failed)
    /\ state' = [st EXCEPT !.retired = @ \ Due(st)]

(* _prune and _prune_partials: what cannot be deleted stays, and stays     *)
(* listed.                                                                 *)
CleanUp(st) ==
  \E failed \in SUBSET (Doomed(st) \cup DeadParts(st)) :
    /\ failed # {} => faults < MaxFaults
    /\ faults' = IF failed # {} THEN faults + 1 ELSE faults
    /\ disk' = [f \in Files |-> IF f \in Doomed(st) \ failed THEN "absent" ELSE disk[f]]
    /\ parts' = parts \ (DeadParts(st) \ failed)
    /\ state' = [st EXCEPT !.retired = {r \in @ : r \in Due(st) => r[1] \in Doomed(st) \cap failed}]

Clean ==
  /\ pc = "cleaning"
  /\ CleanUp(state)
  /\ GoTo("updating") /\ todo' = Wants[profile]
  /\ UNCHANGED <<active, target, written, World>>

-----------------------------------------------------------------------------
(* _update                                                                 *)

Local(s) == state.archives[s]
Remote(s) == <<s, latest[s]>>

(* A subscription the catalogue has a newer dump of, which may be fetched. *)
Wanted(s) ==
  /\ latest[s] > Local(s)
  /\ Local(s) = None => Bootstrap
  /\ Remote(s) \notin state.unreadable

(* _no_room_for: what the .part already holds counts.                      *)
Room(f) ==
  \/ f \in parts
  \/ Cardinality({g \in Files : disk[g] # "absent"}) + Cardinality(parts) < Capacity

(* The download finds the file complete and verified already.              *)
Complete(f) == disk[f] = "whole"

UpdateNothing(s) ==
  /\ pc = "updating" /\ Visit(s)
  /\ Wanted(s) => ~Room(Remote(s))
  /\ UNCHANGED <<disk, parts, active, pc, target, state, written, faults, World>>

(* The catalogue, the metalink or the mirror does not answer.              *)
UpdateFails(s) ==
  /\ pc = "updating" /\ Visit(s)
  /\ faults < MaxFaults /\ faults' = faults + 1
  /\ UNCHANGED <<disk, parts, active, pc, target, state, written, World>>

Download(s) ==
  /\ pc = "updating" /\ Visit(s)
  /\ Wanted(s) /\ Room(Remote(s))
  /\ target' = Remote(s)
  /\ IF Complete(Remote(s))
       THEN GoTo("loaded") /\ UNCHANGED parts
       ELSE GoTo("loading") /\ parts' = parts \cup {Remote(s)}
  /\ UNCHANGED <<disk, active, state, written, faults, World>>

(* The transfer breaks, and the .part stays for the next run; or it ends   *)
(* with a wrong size or hash, and the .part goes.                          *)
DownloadFails ==
  /\ pc = "loading"
  /\ faults < MaxFaults /\ faults' = faults + 1
  /\ parts' \in {parts, parts \ {target}}
  /\ GoTo("updating")
  /\ UNCHANGED <<disk, active, todo, target, state, written, World>>

(* Mutant: the .part is copied, not moved.                                 *)
Copied ==
  /\ pc = "loading" /\ target \in parts
  /\ disk' = [disk EXCEPT ![target] = "whole"]
  /\ GoTo("loaded")
  /\ UNCHANGED <<parts, active, todo, target, state, written, faults, World>>

Downloaded ==
  /\ pc = "loading" /\ target \in parts
  /\ disk' = [disk EXCEPT ![target] = "whole"]
  /\ parts' = parts \ {target}
  /\ GoTo("loaded")
  /\ UNCHANGED <<active, todo, target, state, written, faults, World>>

(* The .part is gone, an admin deleted it meanwhile: it cannot be renamed. *)
DownloadLost ==
  /\ pc = "loading" /\ target \notin parts
  /\ GoTo("updating")
  /\ UNCHANGED <<disk, parts, active, todo, target, state, written, faults, World>>

(* The archive opens: it replaces the one before.                          *)
Activate ==
  LET s == target[1]
      replaced == {<<s, Local(s)>>} \cap {f \in Active(state) : f # target}
  IN
  /\ pc = "loaded" /\ Opens(target)
  /\ Save([state EXCEPT !.archives[s] = Dump(target),
                        !.retired = @ \cup Retire(replaced),
                        !.unreadable = @ \ FilesOf(s)])
  /\ GoTo("updating")
  /\ UNCHANGED <<disk, parts, todo, target, faults, World>>

(* libzim cannot open it although its hash was right, or it is gone again: *)
(* deleted, when that works, then noted.                                   *)
DropUnreadable ==
  /\ pc = "loaded" /\ ~Opens(target)
  /\ \/ disk' = [disk EXCEPT ![target] = "absent"] /\ UNCHANGED faults
     \/ faults < MaxFaults /\ faults' = faults + 1 /\ UNCHANGED disk
  /\ GoTo("unreadable")
  /\ UNCHANGED <<parts, active, todo, target, state, written, World>>

NoteUnreadable ==
  /\ pc = "unreadable"
  /\ Save([state EXCEPT !.unreadable = @ \cup {target}])
  /\ GoTo("updating")
  /\ UNCHANGED <<disk, parts, todo, target, faults, World>>

Updated ==
  /\ pc = "updating" /\ todo = {}
  /\ GoTo("finishing")
  /\ UNCHANGED <<disk, parts, active, todo, target, state, written, faults, World>>

(* Mutant: the archives of other profiles do not wait for this one's.      *)
SettledAtOnce ==
  LET others == {f \in Active(state) : f[1] \notin Wants[profile]} IN
  [state EXCEPT
     !.archives = [s \in Subs |-> IF s \in Wants[profile] THEN @[s] ELSE None],
     !.retired = @ \cup Retire(others)]

(* _retire_other_profiles: once the required archives are active.          *)
Settled ==
  LET others == {f \in Active(state) : f[1] \notin Wants[profile]} IN
  IF \A s \in Requires[profile] : state.archives[s] # None
    THEN [state EXCEPT
            !.archives = [s \in Subs |-> IF s \in Wants[profile] THEN @[s] ELSE None],
            !.retired = @ \cup Retire(others)]
    ELSE state

Finish ==
  /\ pc = "finishing"
  /\ CleanUp(Settled)
  /\ GoTo("saving")
  /\ UNCHANGED <<active, todo, target, written, World>>

(* active.json is written only when it changes, and the run is over.       *)
End ==
  /\ pc = "saving"
  /\ active' = IF state # written \/ active = Missing THEN state ELSE active
  /\ state' = Fresh /\ written' = Missing
  /\ NoJob
  /\ UNCHANGED <<disk, parts, faults, World>>

Job ==
  \/ Begin \/ Adopted \/ Clean
  \/ DownloadFails \/ Downloaded \/ DownloadLost \/ Activate
  \/ DropUnreadable \/ NoteUnreadable \/ Updated \/ Finish \/ End
  \/ \E s \in Subs : \/ AdoptNothing(s) \/ Adopt(s) \/ UpdateNothing(s)
                     \/ UpdateFails(s) \/ Download(s)

-----------------------------------------------------------------------------
(* What happens to the job and around it                                   *)

Fault == faults < MaxFaults /\ faults' = faults + 1

(* The run dies or is stopped; its lock is released or goes stale.         *)
Crash ==
  /\ pc # "idle"
  /\ Fault
  /\ state' = Fresh /\ written' = Missing
  /\ NoJob
  /\ UNCHANGED <<disk, parts, active, World>>

(* A file is damaged, or active.json is lost.                              *)
Damage(f) ==
  /\ disk[f] = "whole"
  /\ Fault
  /\ disk' = [disk EXCEPT ![f] = "torn"]
  /\ UNCHANGED <<parts, active, job, World>>

Lose ==
  /\ active \notin {Missing, Corrupt}
  /\ Fault
  /\ active' \in {Missing, Corrupt}
  /\ UNCHANGED <<disk, parts, job, World>>

(* The updater is started anew with another ZIM_PROFILE.                   *)
ChangeProfile ==
  /\ pc = "idle"
  /\ Fault
  /\ profile' \in Profiles \ {profile}
  /\ state' = [state EXCEPT !.profile = profile']
  /\ UNCHANGED <<disk, parts, latest, active, pc, todo, target, written, judged, cleared>>

Publish(s) ==
  /\ latest[s] < Offers[s]
  /\ latest' = [latest EXCEPT ![s] = @ + 1]
  /\ UNCHANGED <<disk, parts, active, profile, job, judged, cleared, faults>>

(* Part of the retention passes.                                           *)
Older(st) == [st EXCEPT !.retired = {<<r[1], IF r[2] = 0 THEN 0 ELSE r[2] - 1>> : r \in @}]

Tick ==
  /\ state' = Older(state)
  /\ written' = IF written = Missing THEN Missing ELSE Older(written)
  /\ active' = IF active \in {Missing, Corrupt} THEN active ELSE Older(active)
  /\ UNCHANGED <<disk, parts, pc, todo, target, faults, World>>

(* zim_delete: active.json does not name the file (that the worker asked   *)
(* has it open or not is left open here); then no sync holds the lock, one *)
(* may begin meanwhile; then the file goes with its .part.                 *)
JudgeUnused(f) ==
  /\ judged = {}
  /\ active \notin {Missing, Corrupt} => f \notin Active(active)
  /\ Fault
  /\ judged' = {f}
  /\ UNCHANGED <<disk, parts, latest, active, profile, job, cleared>>

FindNoSync ==
  /\ judged # {} /\ ~cleared
  /\ IF pc = "idle" THEN cleared' = TRUE /\ UNCHANGED judged
     ELSE judged' = {} /\ UNCHANGED cleared
  /\ UNCHANGED <<disk, parts, latest, active, profile, job, faults>>

Delete ==
  /\ cleared
  /\ judged' = {} /\ cleared' = FALSE
  /\ disk' = [f \in Files |-> IF f \in judged THEN "absent" ELSE disk[f]]
  /\ parts' = parts \ judged
  /\ UNCHANGED <<latest, active, profile, job, faults>>

Next ==
  \/ Job \/ Crash \/ Lose \/ ChangeProfile \/ Tick \/ FindNoSync \/ Delete
  \/ \E f \in Files : Damage(f) \/ JudgeUnused(f)
  \/ \E s \in Subs : Publish(s)

Spec == Init /\ [][Next]_vars

(* The loop of the updater runs the job again and again, and time passes.  *)
Fairness == WF_vars(Job) /\ WF_vars(Tick)

FairSpec == Spec /\ Fairness

-----------------------------------------------------------------------------
(* Properties                                                              *)

Named == IF active \in {Missing, Corrupt} THEN {} ELSE Active(active)

(* "An interrupted run leaves a valid state" (lines 4 to 5): whatever a    *)
(* run does and wherever it dies, an archive that opens and that           *)
(* active.json names stays on the disk.  Three exceptions are in the code: *)
(* an admin's request that found the file unused before it became active   *)
(* (zim.py reads active.json before the lock), an archive adopted again    *)
(* while its entry from an earlier retirement is still listed, and, with a *)
(* retention of 0 (settings.py:135 allows it), the archives of another     *)
(* profile, which line 209 deletes before line 213 writes active.json.     *)
NamedArchivesStay ==
  [][\A f \in Files : f \in Named' /\ Opens(f) /\ disk'[f] = "absent"
       => \/ f \in judged \/ f \in RetiredFiles(active)
          \/ Retention = 0 /\ f[1] \notin Wants[profile]]_vars

(* "Until the new profile has its required archives, the old ones serve"   *)
(* (lines 391 to 392), and an archive of the profile is only ever replaced *)
(* by one that opens: no step of a run takes one that opens from service   *)
(* otherwise.                                                              *)
Serves(s) == \E f \in Named \cap FilesOf(s) : Opens(f)

ServesOn ==
  [][Job => \A s \in Subs :
       Serves(s) /\ ~Serves(s)'
         => s \notin Wants[profile] /\ \A r \in Requires[profile] : r \in {f[1] : f \in Named'}]_vars

(* "What may go goes before anything comes" (line 9): a retired archive is *)
(* deleted, or active again, some day; no run forgets it.                  *)
RetiredGo ==
  \A f \in Files : (active \notin {Missing, Corrupt} /\ f \in RetiredFiles(active))
                     ~> disk[f] = "absent" \/ f \in Named \/ active \in {Missing, Corrupt}

(* Once failures end, each subscription of the profile gets the newest     *)
(* dump Kiwix has of it, and one that opens, unless libzim could not open  *)
(* that one: no retired archive, .part file, torn file or stale entry      *)
(* keeps it out for ever.                                                  *)
NewestActive ==
  \A s \in Subs :
    <>[](s \in Wants[profile] /\ Bootstrap
           => \/ Remote(s) \in Named /\ Opens(Remote(s))
              \/ active \notin {Missing, Corrupt} /\ Remote(s) \in active.unreadable)

(* "Grace period before a replaced archive is deleted" (settings.py:135):  *)
(* an archive listed as retired with time left is not deleted by the job.  *)
GracePeriod ==
  [][\A f \in Files :
       disk[f] # "absent" /\ disk'[f] = "absent" /\ pc \in {"cleaning", "finishing"}
         => ~\E r \in state.retired : r[1] = f /\ r[2] > 0]_vars
=============================================================================
