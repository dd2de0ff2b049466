---------------------------- MODULE TemplatesProofs ----------------------------
(***************************************************************************)
(* The theorems of module Templates, as the part T of Data: for any        *)
(* clients, saves and failures a read is never older than its request and  *)
(* no write with If-Match replaces a text its client did not read.         *)
(***************************************************************************)
EXTENDS Data, TLAPS

(* The lock is with the one client between its lock and its release.       *)
Locked(c) == clientAt[c] \in {"locked", "compared", "unlinked", "done", "refused"}

HolderIsAlone ==
  \A c \in Clients : Locked(c) => holder = c

(* A template got by way of a signature has the text of the file where the *)
(* signature is still that of the file.                                    *)
GotBy(signature, template) ==
  /\ signature = 0 => template.text = 0
  /\ signature = file.text => template.text = file.text

(* Reads: the cache does not know a text under another's signature, and a   *)
(* read under way goes on with what the file held since it began.          *)
ReadsFollow ==
  /\ file.text <= saves
  /\ cached.signature <= saves \/ cached.signature = T!Unfilled
  /\ GotBy(cached.signature, cached.template)
  /\ \A c \in Clients :
       /\ signed[c] <= saves
       /\ clientAt[c] \in {"signed", "loaded"} => file.text \in since[c] /\ signed[c] \in since[c]
       /\ clientAt[c] = "loaded" => GotBy(signed[c], drafted[c])
       /\ clientAt[c] \in {"loaded", "answered"} => drafted[c].text \in since[c]

(* Versions: a template has one, no file has none, and what a write found  *)
(* under the lock is still so.                                             *)
VersionsCount ==
  /\ file.version <= saves /\ note <= saves
  /\ file.version = 0 <=> file = T!Nothing
  /\ \A c \in Clients :
       /\ found[c] <= saves
       /\ clientAt[c] = "compared" => found[c] = file.version
       /\ clientAt[c] \in {"compared", "unlinked"} /\ wish[c].write = "delete" => found[c] # 0
       /\ clientAt[c] = "unlinked" => file = T!Nothing /\ found[c] # 0

(* A write over "this" version has a draft, and once compared the draft    *)
(* has the version of the file.                                            *)
HasOne(c) ==
  wish[c].over = "this" /\ clientAt[c] \in {"waiting", "locked", "compared"}
    => drafted[c] # T!Nothing

Matches(c) ==
  clientAt[c] = "compared" /\ wish[c].over = "this" => drafted[c].version = file.version

(* The templates somebody knows from a read.                               *)
Known == {cached.template} \cup {drafted[c] : c \in Clients}

(* A template known is the one the file holds or has a lower version; with *)
(* no file, one that is not above the note, or the one about to be.        *)
NotAhead(t) ==
  /\ t.version = 0 <=> t = T!Nothing
  /\ file # T!Nothing => t.version <= file.version /\ (t.version = file.version => t = file)
  /\ file = T!Nothing =>
       \/ t.version <= note
       \/ \E c \in Clients : clientAt[c] = "unlinked" /\ t.version <= found[c]

(* So a version never stands for two texts, while no deletion ended before *)
(* its note.                                                               *)
OneTextPerVersion ==
  ~gap => /\ \A t \in Known : NotAhead(t)
          /\ note <= file.version \/ file = T!Nothing
          /\ \A c \in Clients : clientAt[c] = "unlinked" => note <= found[c]

UpdatesMeet == \A c \in Clients : HasOne(c) /\ Matches(c)

TInv ==
  /\ T!TypeOK /\ HolderIsAlone /\ ReadsFollow
  /\ VersionsCount /\ OneTextPerVersion /\ UpdatesMeet

-----------------------------------------------------------------------------
(* What the proofs need of the constants.                                  *)
LEMMA TemplateBounds ==
  MaxSaves \in Nat /\ MaxSlips \in Nat /\ "none" \notin Clients
BY TemplatesAssumption DEF T!TemplatesAssumption, T!NoClient

LEMMA NothingIsStored == T!Nothing \in T!Stored /\ T!Nothing.text = 0 /\ T!Nothing.version = 0
BY TemplateBounds DEF T!Nothing, T!Stored

LEMMA NoWishIsOne == T!NoWish \in T!Wishes
BY DEF T!NoWish, T!Wishes

USE DEF T!Goes, T!NoClient

(* Each part of the invariant is kept by every step.                       *)
LEMMA TemplatesTyped ==
  ASSUME TInv, [T!Next]_(T!vars)
  PROVE  T!TypeOK'
<1> USE TemplateBounds, NothingIsStored
<1>t. T!TypeOK
  BY DEF TInv
<1>1. CASE UNCHANGED T!vars
  BY <1>t, <1>1 DEF T!TypeOK, T!vars, T!stored, T!client
<1>2. ASSUME NEW c \in Clients, T!Sign(c) \/ T!Load(c) \/ T!Keep(c) \/ T!Answer(c)
      PROVE  T!TypeOK'
  <2>1. file.text \in 0 .. MaxSaves /\ cached.template \in T!Stored
    BY <1>t DEF T!TypeOK, T!Stored
  <2>2. CASE T!Sign(c)
    BY <1>t, <2>1, <2>2 DEF T!TypeOK, T!Sign, T!stored
  <2>3. CASE T!Load(c)
    BY <1>t, <2>1, <2>3 DEF T!TypeOK, T!Load, T!stored
  <2>4. CASE T!Keep(c)
    BY <1>t, <2>1, <2>4 DEF T!TypeOK, T!Keep, T!stored, T!Unfilled
  <2>5. CASE T!Answer(c)
    BY <1>t, <2>1, <2>5 DEF T!TypeOK, T!Answer, T!stored
  <2> QED BY <1>2, <2>2, <2>3, <2>4, <2>5
<1>3. ASSUME NEW c \in Clients, T!Ask(c) \/ T!Enter(c) \/ T!GiveUp(c)
      PROVE  T!TypeOK'
  <2>1. CASE T!Ask(c)
    <3>1. wish' \in [Clients -> T!Wishes]
      BY <1>t, <2>1 DEF T!TypeOK, T!Ask
    <3> QED BY <1>t, <2>1, <3>1 DEF T!TypeOK, T!Ask, T!stored
  <2>2. CASE T!Enter(c)
    BY <1>t, <2>2 DEF T!TypeOK, T!Enter, T!stored
  <2>3. CASE T!GiveUp(c)
    BY <1>t, <2>3, NoWishIsOne DEF T!TypeOK, T!GiveUp, T!stored
  <2> QED BY <1>3, <2>1, <2>2, <2>3
<1>4. ASSUME NEW c \in Clients, T!Compare(c)
      PROVE  T!TypeOK'
  <2>1. file.version \in 0 .. MaxSaves
    BY <1>t DEF T!TypeOK, T!Stored
  <2> QED BY <1>t, <1>4, <2>1 DEF T!TypeOK, T!Compare, T!stored
<1>5. ASSUME NEW c \in Clients, T!Save(c)
      PROVE  T!TypeOK'
  <2>1. T!NextVersion(c) \in 0 .. saves + 1
    BY <1>t DEF TInv, VersionsCount, T!TypeOK, T!NextVersion
  <2>2. [text |-> saves + 1, version |-> T!NextVersion(c)] \in T!Stored
    BY <1>t, <1>5, <2>1 DEF T!TypeOK, T!Save, T!Stored
  <2>3. since' \in [Clients -> SUBSET (0 .. MaxSaves)]
    BY <1>t, <1>5 DEF T!TypeOK, T!Save, T!Becomes
  <2> QED BY <1>t, <1>5, <2>2, <2>3 DEF T!TypeOK, T!Save, T!Becomes
<1>6. ASSUME NEW c \in Clients, T!Unlink(c)
      PROVE  T!TypeOK'
  BY <1>t, <1>6 DEF T!TypeOK, T!Unlink, T!Becomes
<1>7. ASSUME NEW c \in Clients, T!WriteNote(c) \/ T!Leave(c) \/ T!Break(c)
      PROVE  T!TypeOK'
  <2>1. CASE T!WriteNote(c)
    BY <1>t, <2>1 DEF T!TypeOK, T!WriteNote
  <2>2. CASE T!Leave(c)
    <3>1. cached' \in [signature : 0 .. T!Unfilled, template : T!Stored]
      BY <1>t, <2>2 DEF T!TypeOK, T!Leave, T!Unfilled
    <3> QED BY <1>t, <2>2, <3>1, NoWishIsOne DEF T!TypeOK, T!Leave, T!stored
  <2>3. CASE T!Break(c)
    BY <1>t, <2>3, NoWishIsOne DEF T!TypeOK, T!Break, T!stored
  <2> QED BY <1>7, <2>1, <2>2, <2>3
<1> QED
  BY <1>1, <1>2, <1>3, <1>4, <1>5, <1>6, <1>7 DEF T!Next, T!Read, T!Write

LEMMA HolderKept ==
  ASSUME TInv, [T!Next]_(T!vars)
  PROVE  HolderIsAlone'
<1> USE TemplateBounds DEF HolderIsAlone, Locked
<1>1. HolderIsAlone /\ clientAt \in [Clients -> {"idle", "signed", "loaded", "answered",
        "waiting", "locked", "compared", "unlinked", "done", "refused"}]
  BY DEF TInv, T!TypeOK
<1>2. CASE UNCHANGED T!vars
  BY <1>1, <1>2 DEF T!vars, T!client
<1>3. ASSUME NEW c \in Clients, T!Sign(c) \/ T!Load(c) \/ T!Keep(c) \/ T!Answer(c)
      PROVE  HolderIsAlone'
  BY <1>1, <1>3 DEF T!Sign, T!Load, T!Keep, T!Answer
<1>4. ASSUME NEW c \in Clients, T!Ask(c) \/ T!Enter(c) \/ T!GiveUp(c) \/ T!Compare(c)
      PROVE  HolderIsAlone'
  BY <1>1, <1>4 DEF T!Ask, T!Enter, T!GiveUp, T!Compare
<1>5. ASSUME NEW c \in Clients, T!Save(c) \/ T!Unlink(c) \/ T!WriteNote(c)
      PROVE  HolderIsAlone'
  BY <1>1, <1>5 DEF T!Save, T!Unlink, T!WriteNote
<1>6. ASSUME NEW c \in Clients, T!Leave(c) \/ T!Break(c)
      PROVE  HolderIsAlone'
  BY <1>1, <1>6 DEF T!Leave, T!Break
<1> QED
  BY <1>2, <1>3, <1>4, <1>5, <1>6 DEF T!Next, T!Read, T!Write

LEMMA ReadsKept ==
  ASSUME TInv, [T!Next]_(T!vars)
  PROVE  ReadsFollow'
<1> USE TemplateBounds, NothingIsStored
<1>1. /\ ReadsFollow /\ T!TypeOK
      /\ clientAt \in [Clients -> {"idle", "signed", "loaded", "answered", "waiting",
                                   "locked", "compared", "unlinked", "done", "refused"}]
      /\ file.text \in Nat /\ saves \in 0 .. MaxSaves
      /\ signed \in [Clients -> 0 .. MaxSaves] /\ since \in [Clients -> SUBSET (0 .. MaxSaves)]
      /\ drafted \in [Clients -> T!Stored] /\ DOMAIN clientAt = Clients
      /\ cached.signature \in Nat
  BY DEF TInv, T!TypeOK, T!Stored
<1>2. CASE UNCHANGED <<file, saves, cached, signed, since, drafted>>
        /\ \A c \in Clients : clientAt'[c] = clientAt[c]
             \/ clientAt'[c] \notin {"signed", "loaded", "answered"}
  BY <1>1, <1>2 DEF ReadsFollow, GotBy
<1>3. CASE UNCHANGED T!vars
  BY <1>2, <1>3 DEF T!vars, T!stored, T!client
<1>4. ASSUME NEW c \in Clients, T!Sign(c)
      PROVE  ReadsFollow'
  BY <1>1, <1>4 DEF T!Sign, T!stored, ReadsFollow, GotBy
<1>5. ASSUME NEW c \in Clients, T!Load(c)
      PROVE  ReadsFollow'
  BY <1>1, <1>5 DEF T!Load, T!stored, ReadsFollow, GotBy
<1>6. ASSUME NEW c \in Clients, T!Keep(c)
      PROVE  ReadsFollow'
  BY <1>1, <1>6 DEF T!Keep, T!stored, ReadsFollow, GotBy
<1>7. ASSUME NEW c \in Clients, T!Answer(c)
      PROVE  ReadsFollow'
  BY <1>1, <1>7 DEF T!Answer, T!stored, ReadsFollow, GotBy
<1>8. ASSUME NEW c \in Clients,
             T!Ask(c) \/ T!Enter(c) \/ T!GiveUp(c) \/ T!Compare(c) \/ T!WriteNote(c) \/ T!Break(c)
      PROVE  ReadsFollow'
  <2>1. UNCHANGED <<file, saves, cached, signed, since, drafted>>
    BY <1>8 DEF T!Ask, T!Enter, T!GiveUp, T!Compare, T!WriteNote, T!Break, T!stored
  <2>2. \A d \in Clients : clientAt'[d] = clientAt[d]
             \/ clientAt'[d] \notin {"signed", "loaded", "answered"}
    BY <1>1, <1>8 DEF T!Ask, T!Enter, T!GiveUp, T!Compare, T!WriteNote, T!Break
  <2> QED BY <1>2, <2>1, <2>2
<1>9. ASSUME NEW c \in Clients, NEW template, T!Becomes(template),
             template.text = 0 \/ template.text = saves + 1,
             saves' = saves \/ saves' = saves + 1, template.text <= saves', saves' <= MaxSaves,
             UNCHANGED <<cached, signed, drafted>>,
             \A d \in Clients : clientAt'[d] = clientAt[d]
               \/ clientAt'[d] \notin {"signed", "loaded", "answered"}
      PROVE  ReadsFollow'
  <2>1. file'.text = template.text
    BY <1>9 DEF T!Becomes
  <2>2. \A d \in Clients :
          since'[d] = IF clientAt[d] \in {"signed", "loaded"}
                        THEN since[d] \cup {template.text} ELSE since[d]
    BY <1>9 DEF T!Becomes
  <2>3. /\ template.text \in Nat /\ saves' \in Nat /\ file'.text <= saves' /\ saves <= saves'
        /\ template.text = 0 \/ (template.text = saves + 1 /\ saves' = saves + 1)
    BY <1>1, <1>9, <2>1
  <2>4. cached'.signature <= saves' \/ cached'.signature = T!Unfilled
    BY <1>1, <1>9, <2>3 DEF ReadsFollow
  <2>5. GotBy(cached.signature, cached.template)'
    BY <1>1, <1>9, <2>1, <2>3 DEF ReadsFollow, GotBy, T!Unfilled
  <2>6. ASSUME NEW d \in Clients
        PROVE  /\ signed'[d] <= saves'
               /\ clientAt'[d] \in {"signed", "loaded"}
                    => file'.text \in since'[d] /\ signed'[d] \in since'[d]
               /\ clientAt'[d] = "loaded" => GotBy(signed[d], drafted[d])'
               /\ clientAt'[d] \in {"loaded", "answered"} => drafted'[d].text \in since'[d]
    <3>1. signed'[d] = signed[d] /\ drafted'[d] = drafted[d] /\ signed[d] \in Nat
      BY <1>1, <1>9
    <3>2. signed[d] <= saves
      BY <1>1 DEF ReadsFollow
    <3>3. clientAt'[d] = "loaded" => GotBy(signed[d], drafted[d])'
      BY <1>1, <1>9, <2>1, <2>3, <3>1, <3>2 DEF ReadsFollow, GotBy
    <3>4. since[d] \subseteq since'[d]
      BY <2>2
    <3>5. ASSUME clientAt'[d] \in {"signed", "loaded"}
          PROVE  file'.text \in since'[d] /\ signed'[d] \in since'[d]
      <4>1. clientAt[d] \in {"signed", "loaded"}
        BY <1>9, <3>5
      <4> QED BY <1>1, <2>1, <2>2, <3>1, <3>4, <4>1 DEF ReadsFollow
    <3>6. ASSUME clientAt'[d] \in {"loaded", "answered"}
          PROVE  drafted'[d].text \in since'[d]
      <4>1. clientAt[d] \in {"loaded", "answered"}
        BY <1>9, <3>6
      <4> QED BY <1>1, <3>1, <3>4, <4>1 DEF ReadsFollow
    <3>7. signed'[d] <= saves'
      BY <1>1, <2>3, <3>1, <3>2
    <3> QED BY <3>3, <3>5, <3>6, <3>7
  <2> QED BY <2>3, <2>4, <2>5, <2>6 DEF ReadsFollow
<1>10. ASSUME NEW c \in Clients, T!Save(c)
       PROVE  ReadsFollow'
  <2> DEFINE new == [text |-> saves + 1, version |-> T!NextVersion(c)]
  <2>1. T!Becomes(new) /\ new.text = saves + 1
    BY <1>10 DEF T!Save
  <2>2. saves' = saves + 1 /\ saves' <= MaxSaves /\ UNCHANGED <<cached, signed, drafted>>
    BY <1>1, <1>10 DEF T!Save
  <2>3. \A d \in Clients : clientAt'[d] = clientAt[d]
             \/ clientAt'[d] \notin {"signed", "loaded", "answered"}
    BY <1>1, <1>10 DEF T!Save
  <2> HIDE DEF new
  <2> QED BY <1>1, <1>9, <2>1, <2>2, <2>3
<1>11. ASSUME NEW c \in Clients, T!Unlink(c)
       PROVE  ReadsFollow'
  <2>1. T!Becomes(T!Nothing) /\ UNCHANGED <<cached, signed, drafted, saves>>
    BY <1>11 DEF T!Unlink
  <2>3. \A d \in Clients : clientAt'[d] = clientAt[d]
             \/ clientAt'[d] \notin {"signed", "loaded", "answered"}
    BY <1>1, <1>11 DEF T!Unlink
  <2> QED BY <1>1, <1>9, <2>1, <2>3
<1>12. ASSUME NEW c \in Clients, T!Leave(c)
       PROVE  ReadsFollow'
  BY <1>1, <1>12 DEF T!Leave, T!stored, ReadsFollow, GotBy, T!Unfilled
<1> QED
  BY <1>3, <1>4, <1>5, <1>6, <1>7, <1>8, <1>10, <1>11, <1>12 DEF T!Next, T!Read, T!Write

(* A client with the lock is the only one.                                 *)
LEMMA OneLocked ==
  ASSUME HolderIsAlone, NEW c \in Clients, Locked(c), NEW d \in Clients, Locked(d)
  PROVE  c = d
BY DEF HolderIsAlone

LEMMA VersionsKept ==
  ASSUME TInv, [T!Next]_(T!vars)
  PROVE  VersionsCount'
<1> USE TemplateBounds, NothingIsStored
<1>1. /\ VersionsCount /\ HolderIsAlone
      /\ clientAt \in [Clients -> {"idle", "signed", "loaded", "answered", "waiting",
                                   "locked", "compared", "unlinked", "done", "refused"}]
      /\ file \in T!Stored /\ file.version \in Nat /\ saves \in Nat /\ note \in Nat
      /\ found \in [Clients -> 0 .. MaxSaves] /\ wish \in [Clients -> T!Wishes]
  BY DEF TInv, T!TypeOK, T!Stored
<1>2. CASE UNCHANGED <<file, note, saves, found, wish>>
        /\ \A c \in Clients : clientAt'[c] = clientAt[c]
             \/ clientAt'[c] \notin {"compared", "unlinked"}
  BY <1>1, <1>2 DEF VersionsCount
<1>3. CASE UNCHANGED T!vars
  BY <1>2, <1>3 DEF T!vars, T!stored, T!client
<1>4. ASSUME NEW c \in Clients,
             T!Sign(c) \/ T!Load(c) \/ T!Keep(c) \/ T!Answer(c) \/ T!Enter(c)
      PROVE  VersionsCount'
  <2>1. UNCHANGED <<file, note, saves, found, wish>>
    BY <1>4 DEF T!Sign, T!Load, T!Keep, T!Answer, T!Enter, T!stored
  <2>2. \A d \in Clients : clientAt'[d] = clientAt[d]
             \/ clientAt'[d] \notin {"compared", "unlinked"}
    BY <1>1, <1>4 DEF T!Sign, T!Load, T!Keep, T!Answer, T!Enter
  <2> QED BY <1>2, <2>1, <2>2
<1>5. ASSUME NEW c \in Clients, T!Ask(c) \/ T!GiveUp(c) \/ T!Leave(c) \/ T!Break(c)
      PROVE  VersionsCount'
  <2>1. /\ UNCHANGED <<file, note, saves>> /\ found' \in {found, [found EXCEPT ![c] = 0]}
        /\ \A d \in Clients : d # c => wish'[d] = wish[d] /\ clientAt'[d] = clientAt[d]
        /\ clientAt'[c] \in {"waiting", "idle"}
    BY <1>1, <1>5 DEF T!Ask, T!GiveUp, T!Leave, T!Break, T!stored
  <2> QED BY <1>1, <2>1 DEF VersionsCount
<1>6. ASSUME NEW c \in Clients, T!Compare(c)
      PROVE  VersionsCount'
  <2>1. /\ UNCHANGED <<file, note, saves, wish>>
        /\ found' = [found EXCEPT ![c] = file.version]
        /\ \A d \in Clients : d # c => clientAt'[d] = clientAt[d]
        /\ clientAt'[c] \in {"compared", "refused"}
        /\ clientAt'[c] = "compared" => (wish[c].write = "delete" => file # T!Nothing)
    BY <1>1, <1>6 DEF T!Compare, T!stored
  <2> QED BY <1>1, <2>1 DEF VersionsCount
<1>7. ASSUME NEW c \in Clients, T!Save(c)
      PROVE  VersionsCount'
  <2>1. /\ T!NextVersion(c) \in 1 .. saves + 1
        /\ file' = [text |-> saves + 1, version |-> T!NextVersion(c)]
        /\ saves' = saves + 1 /\ UNCHANGED <<note, found, wish>>
        /\ Locked(c) /\ clientAt' = [clientAt EXCEPT ![c] = "done"]
    BY <1>1, <1>7 DEF T!Save, T!Becomes, T!NextVersion, VersionsCount, Locked
  <2>2. file'.version \in 1 .. saves' /\ file' # T!Nothing
    BY <1>1, <2>1
  <2>3. \A d \in Clients : clientAt'[d] \notin {"compared", "unlinked"}
    BY <1>1, <2>1, OneLocked DEF Locked
  <2> QED BY <1>1, <2>1, <2>2, <2>3 DEF VersionsCount
<1>8. ASSUME NEW c \in Clients, T!Unlink(c)
      PROVE  VersionsCount'
  <2>1. /\ file' = T!Nothing /\ UNCHANGED <<note, saves, found, wish>>
        /\ Locked(c) /\ clientAt' = [clientAt EXCEPT ![c] = "unlinked"] /\ found[c] # 0
    BY <1>1, <1>8 DEF T!Unlink, T!Becomes, VersionsCount, Locked
  <2>2. \A d \in Clients : d # c => clientAt'[d] \notin {"compared", "unlinked"}
    BY <1>1, <2>1, OneLocked DEF Locked
  <2> QED BY <1>1, <2>1, <2>2 DEF VersionsCount
<1>9. ASSUME NEW c \in Clients, T!WriteNote(c)
      PROVE  VersionsCount'
  BY <1>1, <1>9 DEF T!WriteNote, VersionsCount
<1> QED
  BY <1>3, <1>4, <1>5, <1>6, <1>7, <1>8, <1>9 DEF T!Next, T!Read, T!Write

LEMMA UpdatesKept ==
  ASSUME TInv, [T!Next]_(T!vars)
  PROVE  UpdatesMeet'
<1>1. /\ UpdatesMeet /\ HolderIsAlone
      /\ clientAt \in [Clients -> {"idle", "signed", "loaded", "answered", "waiting",
                                   "locked", "compared", "unlinked", "done", "refused"}]
      /\ drafted \in [Clients -> T!Stored] /\ wish \in [Clients -> T!Wishes]
  BY DEF TInv, T!TypeOK
<1> USE DEF UpdatesMeet, HasOne, Matches
<1>2. CASE UNCHANGED T!vars
  BY <1>1, <1>2 DEF T!vars, T!stored, T!client
<1>3. ASSUME NEW c \in Clients, T!Sign(c) \/ T!Load(c) \/ T!Keep(c) \/ T!Answer(c)
      PROVE  UpdatesMeet'
  BY <1>1, <1>3 DEF T!Sign, T!Load, T!Keep, T!Answer, T!stored
<1>4. ASSUME NEW c \in Clients, T!Ask(c)
      PROVE  UpdatesMeet'
  BY <1>1, <1>4 DEF T!Ask, T!stored
<1>5. ASSUME NEW c \in Clients,
             T!Enter(c) \/ T!GiveUp(c) \/ T!Leave(c) \/ T!Break(c) \/ T!WriteNote(c)
      PROVE  UpdatesMeet'
  BY <1>1, <1>5 DEF T!Enter, T!GiveUp, T!Leave, T!Break, T!WriteNote, T!stored, T!NoWish
<1>6. ASSUME NEW c \in Clients, T!Compare(c)
      PROVE  UpdatesMeet'
  <2>1. /\ UNCHANGED <<file, drafted, wish>>
        /\ \A d \in Clients : d # c => clientAt'[d] = clientAt[d]
        /\ clientAt[c] = "locked" /\ clientAt'[c] \in {"compared", "refused"}
        /\ clientAt'[c] = "compared" => T!Met(c, file.version)
    BY <1>1, <1>6 DEF T!Compare, T!stored
  <2>2. wish[c].over = "this" /\ T!Met(c, file.version) => drafted[c].version = file.version
    BY DEF T!Met
  <2> QED BY <1>1, <2>1, <2>2
<1>7. ASSUME NEW c \in Clients, T!Save(c) \/ T!Unlink(c)
      PROVE  UpdatesMeet'
  <2>1. /\ Locked(c) /\ UNCHANGED <<drafted, wish>>
        /\ clientAt' = [clientAt EXCEPT ![c] = "done"]
             \/ clientAt' = [clientAt EXCEPT ![c] = "unlinked"]
    BY <1>7 DEF T!Save, T!Unlink, Locked
  <2>2. \A d \in Clients : clientAt'[d] # "compared"
    BY <1>1, <2>1, OneLocked DEF Locked
  <2>3. \A d \in Clients : d # c => clientAt'[d] = clientAt[d]
    BY <1>1, <2>1
  <2> QED BY <1>1, <2>1, <2>2, <2>3
<1> QED
  BY <1>2, <1>3, <1>4, <1>5, <1>6, <1>7 DEF T!Next, T!Read, T!Write

(* What is known afterwards was known before, or is what the file holds or *)
(* nothing; and neither the file nor what a deletion has found changes.    *)
LEMMA StillNotAhead ==
  ASSUME TInv, OneTextPerVersion, ~gap, UNCHANGED <<file, note>>,
         \A c \in Clients : clientAt[c] = "unlinked"
           <=> clientAt'[c] = "unlinked",
         \A c \in Clients : clientAt[c] = "unlinked" => found'[c] = found[c],
         \A t \in Known' : t \in Known \/ t = T!Nothing \/ t = file
  PROVE  OneTextPerVersion'
<1> USE NothingIsStored
<1>1. /\ file.version = 0 <=> file = T!Nothing
      /\ file.version \in Nat /\ note \in Nat
  BY DEF TInv, VersionsCount, T!TypeOK, T!Stored
<1>2. NotAhead(T!Nothing) /\ NotAhead(file)
  BY <1>1 DEF NotAhead
<1>3. \A t \in Known' : NotAhead(t)
  BY <1>2 DEF OneTextPerVersion
<1>4. \A t \in Known' : NotAhead(t)'
  BY <1>3 DEF NotAhead
<1>5. /\ note <= file.version \/ file = T!Nothing
      /\ \A c \in Clients : clientAt[c] = "unlinked" => note <= found[c]
  BY DEF OneTextPerVersion
<1> QED BY <1>4, <1>5 DEF OneTextPerVersion

LEMMA TextsKept ==
  ASSUME TInv, [T!Next]_(T!vars)
  PROVE  OneTextPerVersion'
<1> USE TemplateBounds, NothingIsStored
<1> SUFFICES ASSUME ~gap'
             PROVE  OneTextPerVersion'
  BY DEF OneTextPerVersion
<1>1. /\ OneTextPerVersion /\ HolderIsAlone /\ VersionsCount
      /\ clientAt \in [Clients -> {"idle", "signed", "loaded", "answered", "waiting",
                                   "locked", "compared", "unlinked", "done", "refused"}]
      /\ file \in T!Stored /\ file.version \in Nat /\ saves \in Nat /\ note \in Nat
      /\ found \in [Clients -> 0 .. MaxSaves] /\ wish \in [Clients -> T!Wishes]
      /\ drafted \in [Clients -> T!Stored] /\ cached.template \in T!Stored
      /\ DOMAIN clientAt = Clients
  BY DEF TInv, T!TypeOK, T!Stored
<1>2. \A t \in Known : t.version \in Nat
  BY <1>1 DEF Known, T!Stored
<1>3. ~gap
  BY DEF T!Next, T!Read, T!Write, T!Sign, T!Load, T!Keep, T!Answer, T!Ask, T!Enter, T!GiveUp,
     T!Compare, T!Save, T!Unlink, T!WriteNote, T!Leave, T!Break, T!vars
<1>4. \A t \in Known : NotAhead(t)
  BY <1>1, <1>3 DEF OneTextPerVersion
<1>5. CASE UNCHANGED T!vars
  <2>1. Known' = Known
    BY <1>5 DEF Known, T!vars, T!client
  <2> QED BY <1>1, <1>3, <1>5, <2>1, StillNotAhead DEF T!vars, T!stored, T!client
<1>6. ASSUME NEW c \in Clients,
             T!Sign(c) \/ T!Load(c) \/ T!Keep(c) \/ T!Answer(c)
      PROVE  OneTextPerVersion'
  <2>1. UNCHANGED <<file, note, found>>
    BY <1>6 DEF T!Sign, T!Load, T!Keep, T!Answer, T!stored
  <2>2. \A d \in Clients : clientAt[d] = "unlinked" <=> clientAt'[d] = "unlinked"
    BY <1>1, <1>6 DEF T!Sign, T!Load, T!Keep, T!Answer
  <2>3. /\ \A d \in Clients : drafted'[d] \in {drafted[d], cached.template, file, T!Nothing}
        /\ cached'.template \in {cached.template, drafted[c]}
    BY <1>1, <1>6 DEF T!Sign, T!Load, T!Keep, T!Answer
  <2>4. \A t \in Known' : t \in Known \/ t = T!Nothing \/ t = file
    BY <2>3 DEF Known
  <2> QED BY <1>1, <1>3, <2>1, <2>2, <2>4, StillNotAhead
<1>7. ASSUME NEW c \in Clients,
             T!Ask(c) \/ T!Enter(c) \/ T!GiveUp(c) \/ T!Compare(c) \/ T!Leave(c) \/ T!Break(c)
      PROVE  OneTextPerVersion'
  <2>1. UNCHANGED <<file, note, drafted>> /\ cached'.template \in {cached.template, T!Nothing}
    BY <1>7 DEF T!Ask, T!Enter, T!GiveUp, T!Compare, T!Leave, T!Break, T!stored
  <2>2. clientAt[c] # "unlinked" /\ clientAt'[c] # "unlinked"
    BY <1>1, <1>7 DEF T!Ask, T!Enter, T!GiveUp, T!Compare, T!Leave, T!Break
  <2>3. \A d \in Clients : d # c => clientAt'[d] = clientAt[d] /\ found'[d] = found[d]
    BY <1>1, <1>7 DEF T!Ask, T!Enter, T!GiveUp, T!Compare, T!Leave, T!Break
  <2>4. \A t \in Known' : t \in Known \/ t = T!Nothing \/ t = file
    BY <2>1 DEF Known
  <2>5. /\ \A d \in Clients : clientAt[d] = "unlinked" <=> clientAt'[d] = "unlinked"
        /\ \A d \in Clients : clientAt[d] = "unlinked" => found'[d] = found[d]
    BY <2>2, <2>3
  <2> QED BY <1>1, <1>3, <2>1, <2>4, <2>5, StillNotAhead
<1>8. ASSUME NEW c \in Clients, T!Save(c)
      PROVE  OneTextPerVersion'
  <2>1. /\ file' = [text |-> saves + 1, version |-> T!NextVersion(c)]
        /\ UNCHANGED <<note, drafted, cached>> /\ clientAt[c] = "compared" /\ Locked(c)
        /\ clientAt' = [clientAt EXCEPT ![c] = "done"]
    BY <1>8 DEF T!Save, T!Becomes, Locked
  <2>2. \A d \in Clients : clientAt[d] # "unlinked" /\ clientAt'[d] # "unlinked"
    BY <1>1, <2>1, OneLocked DEF Locked
  <2>3. T!NextVersion(c) = (IF file.version # 0 THEN file.version ELSE note) + 1
    BY <1>1, <2>1 DEF VersionsCount, T!NextVersion
  <2>4. \A t \in Known : t.version < T!NextVersion(c)
    BY <1>1, <1>2, <1>4, <2>2, <2>3 DEF NotAhead, VersionsCount
  <2>5. /\ file' # T!Nothing /\ file'.version = T!NextVersion(c) /\ note < T!NextVersion(c)
        /\ Known' = Known
    BY <1>1, <1>3, <2>1, <2>3 DEF Known, OneTextPerVersion, VersionsCount
  <2>6. ASSUME NEW t \in Known
        PROVE  NotAhead(t)'
    <3>1. t.version = 0 <=> t = T!Nothing
      BY <1>1, <1>2, <1>4, <2>6 DEF NotAhead
    <3>2. t.version \in Nat /\ T!NextVersion(c) \in Nat /\ t.version < T!NextVersion(c)
      BY <1>1, <1>2, <1>4, <2>3, <2>4, <2>6
    <3> QED BY <2>5, <3>1, <3>2 DEF NotAhead
  <2>7. note' <= file'.version
    BY <1>1, <2>1, <2>3, <2>5
  <2> QED BY <2>2, <2>5, <2>6, <2>7 DEF OneTextPerVersion
<1>9. ASSUME NEW c \in Clients, T!Unlink(c)
      PROVE  OneTextPerVersion'
  <2>1. /\ file' = T!Nothing /\ UNCHANGED <<note, drafted, cached, found>> /\ Locked(c)
        /\ clientAt' = [clientAt EXCEPT ![c] = "unlinked"]
        /\ found[c] = file.version /\ found[c] # 0
    BY <1>1, <1>9 DEF T!Unlink, T!Becomes, Locked, VersionsCount
  <2>2. \A d \in Clients : d # c => clientAt'[d] # "unlinked"
    BY <1>1, <2>1, OneLocked DEF Locked
  <2>3. \A t \in Known : t.version <= found'[c]
    BY <1>1, <1>2, <1>4, <2>1 DEF NotAhead, VersionsCount
  <2>4. Known' = Known /\ clientAt'[c] = "unlinked"
    BY <1>1, <2>1 DEF Known
  <2>5. \A t \in Known' : NotAhead(t)'
    BY <1>4, <2>1, <2>3, <2>4 DEF NotAhead
  <2>6. note' <= found'[c]
    BY <1>1, <1>3, <2>1 DEF OneTextPerVersion, VersionsCount
  <2> QED BY <2>1, <2>2, <2>5, <2>6 DEF OneTextPerVersion
<1>10. ASSUME NEW c \in Clients, T!WriteNote(c)
       PROVE  OneTextPerVersion'
  <2>1. /\ note' = found[c] /\ UNCHANGED <<file, drafted, cached, found>> /\ Locked(c)
        /\ clientAt' = [clientAt EXCEPT ![c] = "done"] /\ clientAt[c] = "unlinked"
        /\ file = T!Nothing
    BY <1>1, <1>10 DEF T!WriteNote, Locked, VersionsCount
  <2>2. \A d \in Clients : clientAt[d] = "unlinked" => d = c
    BY <1>1, <2>1, OneLocked DEF Locked
  <2>3. \A d \in Clients : clientAt'[d] # "unlinked"
    BY <1>1, <2>1, <2>2
  <2>4. note <= found[c] /\ found[c] \in Nat
    BY <1>1, <1>3, <2>1 DEF OneTextPerVersion
  <2>5. \A t \in Known : t.version <= found[c]
    BY <1>1, <1>2, <1>4, <2>1, <2>2, <2>4 DEF NotAhead
  <2>6. Known' = Known
    BY <2>1 DEF Known
  <2>7. \A t \in Known' : NotAhead(t)'
    BY <1>4, <2>1, <2>5, <2>6 DEF NotAhead
  <2> QED BY <2>1, <2>3, <2>7 DEF OneTextPerVersion
<1> QED
  BY <1>5, <1>6, <1>7, <1>8, <1>9, <1>10 DEF T!Next, T!Read, T!Write

LEMMA TemplatesBegin == T!Init => TInv
<1> SUFFICES ASSUME T!Init PROVE TInv
  OBVIOUS
<1> USE TemplateBounds, NothingIsStored
<1>1. T!TypeOK
  <2>1. cached \in [signature : 0 .. T!Unfilled, template : T!Stored]
    <3>1. cached = [signature |-> MaxSaves + 1, template |-> T!Nothing]
      BY DEF T!Init, T!Unfilled
    <3>2. MaxSaves + 1 \in 0 .. T!Unfilled
      BY DEF T!Unfilled
    <3> QED BY <3>1, <3>2
  <2>2. wish \in [Clients -> T!Wishes]
    BY NoWishIsOne DEF T!Init
  <2>3. drafted \in [Clients -> T!Stored]
    <3> DEFINE nothing == T!Nothing
    <3>1. nothing \in T!Stored /\ drafted = [c \in Clients |-> nothing]
      BY DEF T!Init
    <3> HIDE DEF nothing
    <3> QED BY <3>1
  <2>4. since \in [Clients -> SUBSET (0 .. MaxSaves)]
    BY DEF T!Init
  <2>5. file \in T!Stored
    <3>1. file = T!Nothing
      BY DEF T!Init
    <3> QED BY <3>1
  <2>8. note = 0 /\ saves = 0 /\ slips = 0 /\ gap = FALSE /\ holder = T!NoClient
    BY DEF T!Init
  <2>9. note \in 0 .. MaxSaves /\ saves \in 0 .. MaxSaves /\ slips \in 0 .. MaxSlips
    BY <2>8
  <2>10. gap \in BOOLEAN /\ holder \in Clients \cup {T!NoClient}
    BY <2>8
  <2>6. /\ signed \in [Clients -> 0 .. MaxSaves] /\ found \in [Clients -> 0 .. MaxSaves]
    BY DEF T!Init
  <2>7. clientAt \in [Clients -> {"idle", "signed", "loaded", "answered", "waiting",
                                 "locked", "compared", "unlinked", "done", "refused"}]
    BY DEF T!Init
  <2> QED BY <2>1, <2>2, <2>3, <2>4, <2>5, <2>6, <2>7, <2>9, <2>10 DEF T!TypeOK
<1>2. HolderIsAlone /\ UpdatesMeet
  BY DEF T!Init, HolderIsAlone, UpdatesMeet, HasOne, Matches, Locked
<1>3. ReadsFollow
  BY DEF T!Init, ReadsFollow, GotBy, T!Unfilled
<1>4. VersionsCount
  BY DEF T!Init, VersionsCount
<1>5. \A t \in Known : t = T!Nothing
  BY DEF T!Init, Known
<1>6. OneTextPerVersion
  BY <1>5 DEF T!Init, OneTextPerVersion, NotAhead
<1> QED BY <1>1, <1>2, <1>3, <1>4, <1>6 DEF TInv

LEMMA TemplatesKept == TInv /\ [T!Next]_(T!vars) => TInv'
  BY TemplatesTyped, HolderKept, ReadsKept, VersionsKept, TextsKept, UpdatesKept DEF TInv

(* What holds of a template, its cache and its writers at every moment     *)
(* (app/templates/manager.py).                                             *)
THEOREM TemplatesSafety == T!Spec => []TInv
  BY TemplatesBegin, TemplatesKept, PTL DEF T!Spec

(* A write with If-Match replaces the very text its draft was read from,   *)
(* for any clients and any number of saves, while no deletion ended        *)
(* between its unlink and its note (manager.py, save, delete).             *)
THEOREM NoUpdateLost == T!Spec => T!NoLostUpdate
<1>1. ASSUME TInv, NEW c \in Clients, T!Overwrites(c), ~gap
      PROVE  file.text = drafted[c].text
  <2>1. /\ clientAt[c] = "compared" /\ wish[c].over = "this" /\ drafted[c] \in Known
    BY <1>1 DEF T!Overwrites, Known
  <2>2. drafted[c] # T!Nothing /\ drafted[c].version = file.version /\ NotAhead(drafted[c])
    BY <1>1, <2>1 DEF TInv, UpdatesMeet, HasOne, Matches, OneTextPerVersion
  <2>3. file # T!Nothing
    BY <1>1, <2>2 DEF NotAhead, TInv, VersionsCount
  <2> QED BY <2>2, <2>3 DEF NotAhead
<1>2. TInv /\ [T!Next]_(T!vars)
        => [\A c \in Clients : T!Overwrites(c) /\ ~gap
              => file.text = drafted[c].text]_(T!vars)
  BY <1>1
<1> QED BY <1>2, TemplatesSafety, PTL DEF T!Spec, T!NoLostUpdate
=============================================================================
