-------------------------- MODULE CollectionReader --------------------------
(***************************************************************************)
(* Part 3: requests read a collection, the materials of it and of its      *)
(* sub-collections from a repository, page by page                         *)
(* (app/sources/wlo/client.py), through the cache the workers share        *)
(* (app/sources/wlo/part.py, cache.py), each within its own time.          *)
(*                                                                         *)
(* A collection holds a number of materials; a listing is the number of    *)
(* different ones a request was given, and why it ended early.  The        *)
(* repository gives full pages, in the same order each time - or the first *)
(* page over and over, when it ignores the offset - and may tell no total. *)
(***************************************************************************)
EXTENDS Integers

CONSTANTS
  Requests,
  Top, Subs,   \* the collection asked for, and its sub-collections
  Sizes,       \* the numbers of materials in them: functions of the collection
  PageSize,    \* DEFAULT_PAGE_SIZE
  MaxPages,    \* MAX_PAGES
  Attempts,    \* ATTEMPTS
  MaxFaults    \* a bound on the attempts and answers that fail

Collections == {Top} \cup Subs

ReaderAssumption ==
  /\ Top \notin Subs
  /\ Sizes # {} /\ Sizes \subseteq [Collections -> Nat]
  /\ {PageSize, MaxPages, Attempts} \subseteq Nat \ {0}
  /\ MaxFaults \in Nat

Reasons == {"time", "pages", "repeated", "unreadable"}
Listing == [count : 0 .. PageSize * MaxPages, cut : {"none"} \cup Reasons]
Unlisted == [count |-> 0, cut |-> "none"]
Uncached == [count |-> 0, cut |-> "uncached"]

VARIABLES
  materials,  \* materials[c]: how many collection c holds
  repeats,    \* the repository ignores skipCount
  totals,     \* it tells pagination.total
  listings,   \* listings[c]: the cached listing
  pc,         \* where each request stands
  at,         \* at[r]: the collection whose materials it lists
  rest,       \* rest[r]: the sub-collections after it
  pages,      \* pages[r]: the pages of it that have come
  tries,      \* tries[r]: the attempts that failed for the next answer
  spent,      \* spent[r]: the time of the request is used up
  lists,      \* lists[r]: what it has listed of each collection
  gaps,       \* gaps[r]: why its text says lists may be incomplete
  faults

repository == <<materials, repeats, totals>>
place == <<at, rest, pages>>
part == <<lists, gaps>>
vars == <<repository, listings, pc, place, tries, spent, part, faults>>

TypeOK ==
  /\ materials \in Sizes
  /\ repeats \in BOOLEAN /\ totals \in BOOLEAN
  /\ listings \in [Collections -> Listing \cup {Uncached}]
  /\ pc \in [Requests -> {"info", "subs", "open", "page", "listed", "next",
                          "made", "hint", "failed"}]
  /\ at \in [Requests -> Collections]
  /\ rest \in [Requests -> SUBSET Subs]
  /\ pages \in [Requests -> 0 .. MaxPages]
  /\ tries \in [Requests -> 0 .. Attempts - 1]
  /\ spent \in [Requests -> BOOLEAN]
  /\ lists \in [Requests -> [Collections -> Listing]]
  /\ gaps \in [Requests -> SUBSET Reasons]
  /\ faults \in 0 .. MaxFaults

Init ==
  /\ materials \in Sizes
  /\ repeats \in BOOLEAN /\ totals \in BOOLEAN
  /\ listings = [c \in Collections |-> Uncached]
  /\ pc = [r \in Requests |-> "info"]
  /\ at = [r \in Requests |-> Top]
  /\ rest = [r \in Requests |-> Subs]
  /\ pages = [r \in Requests |-> 0]
  /\ tries = [r \in Requests |-> 0]
  /\ spent = [r \in Requests |-> FALSE]
  /\ lists = [r \in Requests |-> [c \in Collections |-> Unlisted]]
  /\ gaps = [r \in Requests |-> {}]
  /\ faults = 0

Least(a, b) == IF a < b THEN a ELSE b
Goes(r, there) == pc' = [pc EXCEPT ![r] = there]

-----------------------------------------------------------------------------
(* What a repository gives                                                 *)

(* The materials on page k of a collection, and the different ones on the  *)
(* pages up to it.                                                         *)
Items(c, k) ==
  IF repeats \/ k = 1 THEN Least(PageSize, materials[c])
  ELSE Least(PageSize, materials[c] - Least(materials[c], (k - 1) * PageSize))
Given(c, k) ==
  IF k = 0 THEN 0
  ELSE IF repeats THEN Least(PageSize, materials[c])
  ELSE Least(k * PageSize, materials[c])
Offset(c, k) ==
  IF repeats THEN k * Items(c, 1) ELSE Given(c, k)

(* A listing ends with an empty or short page, or at the total.            *)
Ends(c, k) ==
  \/ Items(c, k) < PageSize
  \/ totals /\ Offset(c, k) >= materials[c]

-----------------------------------------------------------------------------
(* _get: an attempt                                                        *)

Reads(r) == pc[r] \in {"info", "subs", "page"}

(* What an answer that does not come in the end means to each read.        *)
Fails(r, reason) ==
  IF pc[r] = "info" THEN Goes(r, "failed") /\ UNCHANGED gaps
  ELSE IF pc[r] = "subs" \/ at[r] = Top THEN Goes(r, "hint") /\ UNCHANGED gaps
  ELSE Goes(r, "next") /\ gaps' = [gaps EXCEPT ![r] = @ \cup reason]

(* No attempt starts once the time is used up.  A listing keeps the pages  *)
(* that came; a sub-collection without one stays empty.                    *)
TimeUp(r) ==
  /\ Reads(r) /\ spent[r]
  /\ tries' = [tries EXCEPT ![r] = 0]
  /\ IF pc[r] = "page" /\ pages[r] > 0
       THEN /\ lists' = [lists EXCEPT ![r][at[r]] =
                 [count |-> Given(at[r], pages[r]), cut |-> "time"]]
            /\ Goes(r, "listed")
            /\ UNCHANGED gaps
       ELSE Fails(r, {}) /\ UNCHANGED lists
  /\ UNCHANGED <<repository, listings, place, spent, faults>>

(* The connection drops; the read is tried once more.                      *)
Drops(r) ==
  /\ Reads(r)
  /\ faults < MaxFaults /\ faults' = faults + 1
  /\ IF tries[r] + 1 < Attempts
       THEN tries' = [tries EXCEPT ![r] = @ + 1] /\ UNCHANGED <<pc, gaps>>
       ELSE tries' = [tries EXCEPT ![r] = 0] /\ Fails(r, {"unreadable"})
  /\ UNCHANGED <<repository, listings, place, spent, lists>>

(* An answer of no use is not asked for again.                             *)
Refuses(r) ==
  /\ Reads(r)
  /\ faults < MaxFaults /\ faults' = faults + 1
  /\ tries' = [tries EXCEPT ![r] = 0]
  /\ Fails(r, {"unreadable"})
  /\ UNCHANGED <<repository, listings, place, spent, lists>>

-----------------------------------------------------------------------------
(* CollectionBuilder.overview                                              *)

(* The record of the collection or of its sub-collections: from the cache, *)
(* where requests of the last hour may have left it, or the repository.    *)
Record(r) ==
  /\ pc[r] \in {"info", "subs"}
  /\ tries' = [tries EXCEPT ![r] = 0]
  /\ Goes(r, IF pc[r] = "info" THEN "subs" ELSE "open")
  /\ UNCHANGED <<repository, listings, place, spent, part, faults>>

(* Mutant: why a cached listing ended early is not kept with it.           *)
OpenForgetful(r) ==
  LET cached == listings[at[r]] IN
  /\ pc[r] = "open"
  /\ IF cached = Uncached
       THEN Goes(r, "page") /\ UNCHANGED part
       ELSE /\ Goes(r, "next")
            /\ lists' = [lists EXCEPT ![r][at[r]] = cached]
            /\ UNCHANGED gaps
  /\ UNCHANGED <<repository, listings, place, tries, spent, faults>>

(* listing: the cached one, with the reason it ended early, or the first   *)
(* page.                                                                   *)
Open(r) ==
  LET cached == listings[at[r]] IN
  /\ pc[r] = "open"
  /\ IF cached = Uncached
       THEN Goes(r, "page") /\ UNCHANGED part
       ELSE /\ Goes(r, "next")
            /\ lists' = [lists EXCEPT ![r][at[r]] = cached]
            /\ gaps' = [gaps EXCEPT ![r] = @ \cup ({cached.cut} \ {"none"})]
  /\ UNCHANGED <<repository, listings, place, tries, spent, faults>>

(* A page comes.  A full one that gives nothing new ends the listing, and  *)
(* so does the last page the service reads.                                *)
Page(r) ==
  LET c == at[r]
      k == pages[r] + 1
      Listed(cut) == [lists EXCEPT ![r][c] = [count |-> Given(c, k), cut |-> cut]]
  IN
  /\ pc[r] = "page" /\ ~spent[r]
  /\ tries' = [tries EXCEPT ![r] = 0]
  /\ pages' = [pages EXCEPT ![r] = k]
  /\ \/ Ends(c, k)
        /\ lists' = Listed("none") /\ Goes(r, "listed")
     \/ ~Ends(c, k) /\ Given(c, k) = Given(c, k - 1)
        /\ lists' = Listed("repeated") /\ Goes(r, "listed")
     \/ ~Ends(c, k) /\ Given(c, k) > Given(c, k - 1)
        /\ IF k = MaxPages THEN lists' = Listed("pages") /\ Goes(r, "listed")
                           ELSE UNCHANGED <<lists, pc>>
  /\ UNCHANGED <<repository, listings, at, rest, spent, gaps, faults>>

(* Mutant: a listing cut by the time is kept for the requests to come.     *)
KeepCut(r) ==
  /\ pc[r] = "listed"
  /\ listings' = [listings EXCEPT ![at[r]] = lists[r][at[r]]]
  /\ gaps' = [gaps EXCEPT ![r] = @ \cup ({lists[r][at[r]].cut} \ {"none"})]
  /\ Goes(r, "next")
  /\ UNCHANGED <<repository, place, tries, spent, lists, faults>>

(* A listing that may be cut short by the time is not kept.                *)
Keep(r) ==
  /\ pc[r] = "listed"
  /\ listings' = IF spent[r] THEN listings
                 ELSE [listings EXCEPT ![at[r]] = lists[r][at[r]]]
  /\ gaps' = [gaps EXCEPT ![r] = @ \cup ({lists[r][at[r]].cut} \ {"none"})]
  /\ Goes(r, "next")
  /\ UNCHANGED <<repository, place, tries, spent, lists, faults>>

(* The next sub-collection: named only, when the time is used up.          *)
NextSub(r) ==
  /\ pc[r] = "next"
  /\ \E c \in rest[r] :
       /\ rest' = [rest EXCEPT ![r] = @ \ {c}]
       /\ at' = [at EXCEPT ![r] = c]
  /\ pages' = [pages EXCEPT ![r] = 0]
  /\ Goes(r, IF spent[r] THEN "next" ELSE "open")
  /\ UNCHANGED <<repository, listings, tries, spent, part, faults>>

(* The text, which says why lists may be incomplete.                       *)
Made(r) ==
  /\ pc[r] = "next" /\ rest[r] = {}
  /\ gaps' = [gaps EXCEPT ![r] = @ \cup (IF spent[r] THEN {"time"} ELSE {})]
  /\ Goes(r, "made")
  /\ UNCHANGED <<repository, listings, place, tries, spent, lists, faults>>

-----------------------------------------------------------------------------
TimeEnds(r) ==
  /\ ~spent[r]
  /\ pc[r] \notin {"made", "hint", "failed"}
  /\ spent' = [spent EXCEPT ![r] = TRUE]
  /\ UNCHANGED <<repository, listings, pc, place, tries, part, faults>>

(* A cached listing is an hour old.                                        *)
Expire(c) ==
  /\ listings[c] # Uncached
  /\ listings' = [listings EXCEPT ![c] = Uncached]
  /\ UNCHANGED <<repository, pc, place, tries, spent, part, faults>>

Step(r) ==
  \/ Record(r) \/ Open(r) \/ Page(r) \/ Keep(r) \/ NextSub(r) \/ Made(r)
  \/ TimeUp(r)

Next ==
  \/ \E c \in Collections : Expire(c)
  \/ \E r \in Requests : Step(r) \/ Drops(r) \/ Refuses(r) \/ TimeEnds(r)

Spec == Init /\ [][Next]_vars

-----------------------------------------------------------------------------
(* Properties                                                              *)

Complete(r) == \A c \in Collections : lists[r][c].count = materials[c]

(* "Why the listing ended before" the total, "if it did"                   *)
(* (client.py:188-189): a part 3 that lacks materials says that its lists  *)
(* may be incomplete, whoever read or cached them, whatever cut them.      *)
SaysWhatIsMissingEver ==
  \A r \in Requests : pc[r] = "made" /\ gaps[r] = {} => Complete(r)

(* That holds unless a repository ignores the offset and tells a total.    *)
SaysWhatIsMissing == ~(repeats /\ totals) => SaysWhatIsMissingEver

(* "A spent time budget does not [cut it the same way on every read] and   *)
(* is not kept" (part.py:116-117): no request is shown a list that ends    *)
(* early for the time of another one.                                      *)
OwnTimeOnly ==
  \A r \in Requests : "time" \in gaps[r] => spent[r]
=============================================================================
