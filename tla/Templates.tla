----------------------------- MODULE Templates ------------------------------
(***************************************************************************)
(* A custom template on the state volume (app/templates/manager.py): read  *)
(* by the requests of a worker through a cache that is filled again when   *)
(* the files change, and saved or deleted by workers and the CLI under a   *)
(* lock, over the version a draft was read in (If-Match) or over any.      *)
(*                                                                         *)
(* One template and one reading worker are modelled: templates share only  *)
(* the lock, and a worker's cache only meets the other workers through the *)
(* file.  Saves come from this worker, another one or the CLI.  A text is  *)
(* the number of the save that wrote it; so it also stands for what the    *)
(* signature of the directory tells apart (inode, time, size).  The lock   *)
(* is module LockFile's: here it excludes, and that of a dead holder is    *)
(* waited out.                                                             *)
(***************************************************************************)
EXTENDS Naturals

CONSTANTS
  Clients,    \* those who read, edit and write the template
  MaxSaves,   \* a bound on the saves
  MaxFaults   \* a bound on the crashes and failed writes

Nothing == [text |-> 0, version |-> 0]   \* no file
Unfilled == MaxSaves + 1                 \* the signature of no cache
NoClient == "none"

TemplatesAssumption == MaxSaves \in Nat /\ MaxFaults \in Nat /\ NoClient \notin Clients

VARIABLES
  file,     \* the template's file: its text and the version in it
  note,     \* the version in .<id>.deleted, or 0
  holder,   \* the client with the lock
  cache,    \* _custom_cache: a signature, and the template loaded
  pc,       \* where each client stands
  draft,    \* draft[c]: the template client c was given last
  signed,   \* signed[c]: the signature it took
  wish,     \* wish[c]: what it asks for, and with which If-Match
  found,    \* found[c]: the stored version it read under the lock
  since,    \* since[c]: the texts the file held since its read began
  saves, faults,
  gap       \* a delete ended between its unlink and its note

stored == <<file, note>>
client == <<pc, draft, signed, wish, found, since>>
vars == <<stored, holder, cache, client, saves, faults, gap>>

Stored == [text : 0 .. MaxSaves, version : 0 .. MaxSaves]
NoWish == [write |-> "save", over |-> "any"]
Wishes == [write : {"save", "delete"}, over : {"any", "one", "this"}]

TypeOK ==
  /\ file \in Stored
  /\ note \in 0 .. MaxSaves
  /\ holder \in Clients \cup {NoClient}
  /\ cache \in [signature : 0 .. Unfilled, template : Stored]
  /\ pc \in [Clients -> {"idle", "signed", "loaded", "answered", "waiting",
                         "locked", "compared", "unlinked", "done", "refused"}]
  /\ draft \in [Clients -> Stored]
  /\ signed \in [Clients -> 0 .. MaxSaves]
  /\ wish \in [Clients -> Wishes]
  /\ found \in [Clients -> 0 .. MaxSaves]
  /\ since \in [Clients -> SUBSET (0 .. MaxSaves)]
  /\ saves \in 0 .. MaxSaves
  /\ faults \in 0 .. MaxFaults
  /\ gap \in BOOLEAN

Init ==
  /\ file = Nothing /\ note = 0
  /\ holder = NoClient
  /\ cache = [signature |-> Unfilled, template |-> Nothing]
  /\ pc = [c \in Clients |-> "idle"]
  /\ draft = [c \in Clients |-> Nothing]
  /\ signed = [c \in Clients |-> 0]
  /\ wish = [c \in Clients |-> NoWish]
  /\ found = [c \in Clients |-> 0]
  /\ since = [c \in Clients |-> {}]
  /\ saves = 0 /\ faults = 0
  /\ gap = FALSE

Goes(c, there) == pc' = [pc EXCEPT ![c] = there]

-----------------------------------------------------------------------------
(* _custom: a read                                                         *)

(* The signature is taken; where it is the cache's, that is the answer.    *)
Sign(c) ==
  /\ pc[c] = "idle"
  /\ since' = [since EXCEPT ![c] = {file.text}]
  /\ IF cache.signature = file.text
       THEN /\ draft' = [draft EXCEPT ![c] = cache.template]
            /\ Goes(c, "answered")
            /\ UNCHANGED signed
       ELSE /\ signed' = [signed EXCEPT ![c] = file.text]
            /\ Goes(c, "signed")
            /\ UNCHANGED draft
  /\ UNCHANGED <<stored, holder, cache, wish, found, saves, faults, gap>>

(* The files the signature names are loaded, as they are by then.  A read  *)
(* that fails for another reason than a file that is gone is left out: the *)
(* code keeps it as no template, until the file changes.                   *)
Load(c) ==
  /\ pc[c] = "signed"
  /\ draft' = [draft EXCEPT ![c] = IF signed[c] = 0 THEN Nothing ELSE file]
  /\ Goes(c, "loaded")
  /\ UNCHANGED <<stored, holder, cache, signed, wish, found, since>>
  /\ UNCHANGED <<saves, faults, gap>>

(* Mutant: the signature is taken after the files were loaded.             *)
KeepSignedLate(c) ==
  /\ pc[c] = "loaded"
  /\ cache' = [signature |-> file.text, template |-> draft[c]]
  /\ Goes(c, "answered")
  /\ signed' = [signed EXCEPT ![c] = 0]
  /\ UNCHANGED <<stored, holder, draft, wish, found, since, saves, faults,
                 gap>>

Keep(c) ==
  /\ pc[c] = "loaded"
  /\ cache' = [signature |-> signed[c], template |-> draft[c]]
  /\ Goes(c, "answered")
  /\ signed' = [signed EXCEPT ![c] = 0]
  /\ UNCHANGED <<stored, holder, draft, wish, found, since, saves, faults,
                 gap>>

(* The client has its answer; it may write at once, later or never.        *)
Answer(c) ==
  /\ pc[c] = "answered"
  /\ since' = [since EXCEPT ![c] = {}]
  /\ Goes(c, "idle")
  /\ UNCHANGED <<stored, holder, cache, draft, signed, wish, found>>
  /\ UNCHANGED <<saves, faults, gap>>

-----------------------------------------------------------------------------
(* save and delete                                                         *)

(* With If-Match a write names the version of the draft or any one.  A     *)
(* template that is not there is not deleted.                              *)
Ask(c) ==
  /\ pc[c] = "idle"
  /\ \E w \in Wishes :
       /\ w.over = "this" => draft[c] # Nothing
       /\ w.write = "delete" => file # Nothing
       /\ wish' = [wish EXCEPT ![c] = w]
  /\ Goes(c, "waiting")
  /\ UNCHANGED <<stored, holder, cache, draft, signed, found, since>>
  /\ UNCHANGED <<saves, faults, gap>>

Enter(c) ==
  /\ pc[c] = "waiting"
  /\ holder = NoClient
  /\ holder' = c
  /\ Goes(c, "locked")
  /\ UNCHANGED <<stored, cache, draft, signed, wish, found, since>>
  /\ UNCHANGED <<saves, faults, gap>>

(* After fifteen seconds a write waits no more.                            *)
GiveUp(c) ==
  /\ pc[c] = "waiting"
  /\ holder # NoClient
  /\ Goes(c, "idle")
  /\ wish' = [wish EXCEPT ![c] = NoWish]
  /\ UNCHANGED <<stored, holder, cache, draft, signed, found, since>>
  /\ UNCHANGED <<saves, faults, gap>>

(* Expected.met_by                                                         *)
Met(c, version) ==
  CASE wish[c].over = "any" -> TRUE
    [] wish[c].over = "one" -> version # 0
    [] wish[c].over = "this" -> version = draft[c].version

(* The stored version is read and compared: a conflict ends the write, and *)
(* so does a delete of what is gone.                                       *)
Compare(c) ==
  /\ pc[c] = "locked"
  /\ found' = [found EXCEPT ![c] = file.version]
  /\ IF Met(c, file.version) /\ (wish[c].write = "delete" => file # Nothing)
       THEN Goes(c, "compared")
       ELSE Goes(c, "refused")
  /\ UNCHANGED <<stored, holder, cache, draft, signed, wish, since>>
  /\ UNCHANGED <<saves, faults, gap>>

(* The file changes under those who are reading it.                        *)
Becomes(template) ==
  /\ file' = template
  /\ since' = [c \in Clients |->
                 IF pc[c] \in {"signed", "loaded"}
                   THEN since[c] \cup {template.text} ELSE since[c]]

(* Mutant: a template made anew begins at version one.                     *)
NextVersionAnew(c) == found[c] + 1

(* The version counts on, from the note where there is no file.            *)
NextVersion(c) == (IF found[c] # 0 THEN found[c] ELSE note) + 1

Save(c) ==
  /\ pc[c] = "compared" /\ wish[c].write = "save"
  /\ saves < MaxSaves /\ saves' = saves + 1
  /\ Becomes([text |-> saves + 1, version |-> NextVersion(c)])
  /\ Goes(c, "done")
  /\ UNCHANGED <<note, holder, cache, draft, signed, wish, found, faults, gap>>

Unlink(c) ==
  /\ pc[c] = "compared" /\ wish[c].write = "delete"
  /\ Becomes(Nothing)
  /\ Goes(c, "unlinked")
  /\ UNCHANGED <<note, holder, cache, draft, signed, wish, found>>
  /\ UNCHANGED <<saves, faults, gap>>

WriteNote(c) ==
  /\ pc[c] = "unlinked"
  /\ note' = found[c]
  /\ Goes(c, "done")
  /\ UNCHANGED <<file, holder, cache, draft, signed, wish, found, since>>
  /\ UNCHANGED <<saves, faults, gap>>

(* The lock is released; what was written clears the cache of its worker,  *)
(* which may be that of the reads or another.                              *)
Leave(c) ==
  /\ pc[c] \in {"done", "refused"}
  /\ holder' = NoClient
  /\ \/ UNCHANGED cache
     \/ pc[c] = "done"
        /\ cache' = [signature |-> Unfilled, template |-> Nothing]
  /\ found' = [found EXCEPT ![c] = 0]
  /\ wish' = [wish EXCEPT ![c] = NoWish]
  /\ Goes(c, "idle")
  /\ UNCHANGED <<stored, draft, signed, since, saves, faults, gap>>

(* The write fails or its process dies, with the lock.                     *)
Break(c) ==
  /\ pc[c] \in {"locked", "compared", "unlinked"}
  /\ faults < MaxFaults /\ faults' = faults + 1
  /\ gap' = (gap \/ pc[c] = "unlinked")
  /\ holder' = NoClient
  /\ found' = [found EXCEPT ![c] = 0]
  /\ wish' = [wish EXCEPT ![c] = NoWish]
  /\ Goes(c, "idle")
  /\ UNCHANGED <<stored, cache, draft, signed, since, saves>>

-----------------------------------------------------------------------------
Read(c) == Sign(c) \/ Load(c) \/ Keep(c) \/ Answer(c)

Write(c) ==
  \/ Ask(c) \/ Enter(c) \/ GiveUp(c) \/ Compare(c)
  \/ Save(c) \/ Unlink(c) \/ WriteNote(c) \/ Leave(c) \/ Break(c)

Next == \E c \in Clients : Read(c) \/ Write(c)

Spec == Init /\ [][Next]_vars

-----------------------------------------------------------------------------
(* Properties                                                              *)

(* A read answers with a text the file held at some moment between the     *)
(* request and its answer, however saves, deletes and the reads of other   *)
(* threads fell in between: the cache never makes it older.                *)
ReadsAreFresh ==
  \A c \in Clients : pc[c] = "answered" => draft[c].text \in since[c]

Overwrites(c) ==
  pc[c] = "compared" /\ wish[c].over = "this" /\ file' # file
    /\ pc'[c] \in {"done", "unlinked"}

(* "A draft read before the delete matched it with If-Match"               *)
(* (manager.py:127-129) must not be: a write with If-Match replaces or     *)
(* deletes the very text its draft was read from.  It holds as long as no  *)
(* delete ended between its unlink and its note (manager.py:255-259).      *)
NoLostUpdate ==
  [][\A c \in Clients : Overwrites(c) /\ ~gap => file.text = draft[c].text]_vars
=============================================================================
