---------------------------- MODULE Regeneration ----------------------------
(***************************************************************************)
(* Part 1 of a compendium over a series of requests: the document a client *)
(* keeps, what editors do to it, and the partial regeneration of           *)
(* app/compose/regeneration.py and kept_sources.py, which keeps some of    *)
(* its blocks with their citation numbers and makes the rest anew          *)
(* (app/synthesis/writer.py).                                              *)
(*                                                                         *)
(* A document is its blocks, its citation table and its list of sources.   *)
(* The text of a block is the citations it prints: cites[n] is the source  *)
(* whose words stand before the marker [n], which nobody reads out of the  *)
(* text.  The service has the number alone, and the row of that number.    *)
(* Blocks without text, and those the service generates from the others,   *)
(* have no citations and are left out.  A source is told by its address or *)
(* its title.                                                              *)
(***************************************************************************)
EXTENDS Integers, FiniteSets, Sequences

CONSTANTS
  Templates,    \* the content blocks of each template, in their order
  Sources,
  Corpora,      \* the sources of one request: sets of them
  Url, Title,   \* of a source; NoUrl where it has no address
  NoUrl,
  MarkerLimit,  \* the highest number the pattern of a marker takes: 999
  MaxNew,       \* how far one request numbers on
  MaxNumber,    \* the highest number of a behaviour
  MaxRequests,
  MaxEdits      \* how often editors move a sentence, or lose a row or an entry

BlockIds == UNION {{t[i] : i \in DOMAIN t} : t \in Templates}
Numbers == 1 .. MaxNumber

(* No two sources have one address, and the title of a source without an   *)
(* address is its own.                                                     *)
RegenerationAssumption ==
  /\ {MarkerLimit, MaxNumber, MaxNew, MaxRequests, MaxEdits} \subseteq Nat
  /\ \A t \in Templates : t \in Seq(BlockIds)
  /\ Corpora \subseteq SUBSET Sources
  /\ \A s, z \in Sources :
       s # z => \/ Url[s] # Url[z]
                \/ Url[s] = NoUrl /\ Title[s] # Title[z]
  /\ \A s, z \in Sources : s # z /\ Url[s] = NoUrl => Title[s] # Title[z]

VARIABLES
  blocks,    \* slot -> its status and its citations, for the blocks with text
  rows,      \* the citation table: number -> the source its row tells
  list,      \* the sources with an entry of their own
  reported,  \* unattributed_citations of the last answer
  lost,      \* blocks no request named that an answer changed or left out
  asked,     \* requests so far
  edits

vars == <<blocks, rows, list, reported, lost, asked, edits>>

Citations(numbers, from) == UNION {[D -> from] : D \in SUBSET numbers}

TypeOK ==
  /\ DOMAIN blocks \subseteq BlockIds
  /\ \A s \in DOMAIN blocks :
       /\ DOMAIN blocks[s] = {"status", "cites"}
       /\ blocks[s].status \in {"machine", "reviewed"}
       /\ DOMAIN blocks[s].cites \subseteq Numbers
       /\ \A n \in DOMAIN blocks[s].cites : blocks[s].cites[n] \in Sources
  /\ DOMAIN rows \subseteq Numbers /\ \A n \in DOMAIN rows : rows[n] \in Sources
  /\ list \subseteq Sources /\ reported \subseteq Numbers
  /\ lost \subseteq BlockIds
  /\ asked \in 0 .. MaxRequests /\ edits \in 0 .. MaxEdits

Init ==
  /\ blocks = <<>> /\ rows = <<>> /\ list = {} /\ reported = {}
  /\ lost = {} /\ asked = 0 /\ edits = 0

-----------------------------------------------------------------------------
(* Reading an earlier document.                                            *)

(* The markers a pattern of three digits finds in a block.                 *)
Markers(s) == {n \in DOMAIN blocks[s].cites : n <= MarkerLimit}

(* The reviewed blocks stay, and with regenerate_sections every block it   *)
(* does not name.                                                          *)
ToKeep(some, these) ==
  {s \in DOMAIN blocks : s \notin these /\ (some \/ blocks[s].status = "reviewed")}

(* The numbers of a kept block with a row, and those without.              *)
Cited(kept) == (UNION {Markers(s) : s \in kept}) \cap DOMAIN rows
Rowless(kept) == (UNION {Markers(s) : s \in kept}) \ DOMAIN rows

(* A row finds its source by its address, or without one by its title.     *)
Find(from, row) ==
  IF Url[row] # NoUrl THEN {s \in from : Url[s] = Url[row]}
                      ELSE {s \in from : Title[s] = Title[row]}

(* Mutant: their entries go with the corpus they came from.                *)
CarriedNone(kept, corpus) == {}

(* The sources only kept blocks cite keep the entry they had.              *)
Carried(kept, corpus) ==
  UNION {Find(list, rows[n]) : n \in {m \in Cited(kept) : Find(corpus, rows[m]) = {}}}

Unattributed(kept, corpus) ==
  Rowless(kept) \cup {n \in Cited(kept) : Find(corpus \cup list, rows[n]) = {}}

-----------------------------------------------------------------------------
(* Writing the new one.                                                    *)

(* The highest number a kept block uses, read from its markers, whether    *)
(* they have rows or not.                                                  *)
Highest(kept, h) ==
  /\ \A s \in kept : \A n \in Markers(s) : n <= h
  /\ h # 0 => \E s \in kept : h \in Markers(s)

(* Blocks are written in the order of the template, each numbered after    *)
(* the ones before it.                                                     *)
InOrder(template, cites) ==
  \A i, j \in DOMAIN template :
    i < j /\ template[i] \in DOMAIN cites /\ template[j] \in DOMAIN cites =>
      \A m \in DOMAIN cites[template[i]], n \in DOMAIN cites[template[j]] : m < n

Printed(cites) == UNION {DOMAIN cites[s] : s \in DOMAIN cites}
Row(cites, n) == cites[CHOOSE s \in DOMAIN cites : n \in DOMAIN cites[s]][n]

(* Every block to be kept has its place in the template; another template  *)
(* is refused.                                                             *)
Placed(kept, content) == kept \subseteq content

(* The answer: the kept blocks as they were, and the new ones with text.   *)
(* cites is what those print; the others stay empty.                       *)
Answer(kept, corpus, cites) ==
  /\ blocks' = [s \in kept \cup DOMAIN cites |->
                  IF s \in kept THEN blocks[s]
                                ELSE [status |-> "machine", cites |-> cites[s]]]
  /\ rows' = [n \in Cited(kept) \cup Printed(cites) |->
                IF n \in Printed(cites) THEN Row(cites, n) ELSE rows[n]]
  /\ list' = corpus \cup Carried(kept, corpus)
  /\ reported' = Unattributed(kept, corpus)

(* A request with the document, for a template and a corpus; with          *)
(* regenerate_sections (some) it names the blocks to make anew.            *)
Generate(template, some, these, corpus) ==
  LET content == {template[i] : i \in DOMAIN template}
      stay == ToKeep(some, these)
      kept == stay \cap content
  IN
  /\ asked < MaxRequests
  /\ these \subseteq content
  /\ some \/ these = {}
  /\ Placed(stay, content)
  /\ \E h \in 0 .. MaxNumber - MaxNew :
       /\ Highest(kept, h)
       /\ \E written \in SUBSET (content \ kept) :
            \E cites \in [written -> Citations(h + 1 .. h + MaxNew, corpus)] :
              InOrder(template, cites) /\ Answer(kept, corpus, cites)
  /\ lost' = lost \cup {s \in stay : ~(s \in DOMAIN blocks' /\ blocks'[s] = blocks[s])}
  /\ asked' = asked + 1
  /\ UNCHANGED edits

-----------------------------------------------------------------------------
(* Editors, and the systems the document passes through.                   *)

Review(s) ==
  /\ blocks[s].status = "machine"
  /\ blocks' = [blocks EXCEPT ![s].status = "reviewed"]
  /\ UNCHANGED <<rows, list, reported, lost, asked, edits>>

(* A sentence with its marker goes to another block as well.               *)
CopySentence(s, z, n) ==
  /\ edits < MaxEdits
  /\ n \in DOMAIN blocks[s].cites \ DOMAIN blocks[z].cites
  /\ blocks' = [blocks EXCEPT ![z].cites =
                  [m \in DOMAIN @ \cup {n} |-> IF m = n THEN blocks[s].cites[n] ELSE @[m]]]
  /\ edits' = edits + 1
  /\ UNCHANGED <<rows, list, reported, lost, asked>>

LoseRow(n) ==
  /\ edits < MaxEdits
  /\ rows' = [m \in DOMAIN rows \ {n} |-> rows[m]]
  /\ edits' = edits + 1
  /\ UNCHANGED <<blocks, list, reported, lost, asked>>

LoseEntry(s) ==
  /\ edits < MaxEdits
  /\ list' = list \ {s}
  /\ edits' = edits + 1
  /\ UNCHANGED <<blocks, rows, reported, lost, asked>>

Next ==
  \/ \E template \in Templates, some \in BOOLEAN :
       \E these \in SUBSET BlockIds, corpus \in Corpora :
         Generate(template, some, these, corpus)
  \/ \E s \in DOMAIN blocks : Review(s)
  \/ \E s, z \in DOMAIN blocks : \E n \in DOMAIN blocks[s].cites : CopySentence(s, z, n)
  \/ \E n \in DOMAIN rows : LoseRow(n)
  \/ \E s \in list : LoseEntry(s)

Spec == Init /\ [][Next]_vars

-----------------------------------------------------------------------------
(* "Unique": a number means one source wherever it stands, so a new block  *)
(* never takes a number a kept one still uses, over any series of          *)
(* requests and edits (writer.py:114, tests/test_regeneration.py:55).      *)
OneMeaning ==
  /\ \A s, z \in DOMAIN blocks :
       \A n \in DOMAIN blocks[s].cites \cap DOMAIN blocks[z].cites :
         blocks[s].cites[n] = blocks[z].cites[n]
  /\ \A s \in DOMAIN blocks : \A n \in DOMAIN blocks[s].cites \cap DOMAIN rows :
       rows[n] = blocks[s].cites[n]

(* The citations nobody can follow: the row of the number does not tell    *)
(* the source of the words, or the source has no entry with its authors    *)
(* and its licence.                                                        *)
Untold ==
  {p \in (DOMAIN blocks) \X Numbers :
     LET cites == blocks[p[1]].cites
     IN  /\ p[2] \in DOMAIN cites
         /\ ~(p[2] \in DOMAIN rows /\ rows[p[2]] = cites[p[2]] /\ cites[p[2]] \in list)}

(* An answer reports the number of every citation nobody can follow, and   *)
(* no other; and all of them are of kept blocks whose row or entry the     *)
(* earlier document had lost already (kept_sources.py, attribute).         *)
Attributed ==
  [][asked' # asked =>
       /\ reported' = {p[2] : p \in Untold'}
       /\ Untold' \subseteq Untold]_vars

(* A reviewed block the request does not name stands in the answer as it   *)
(* was, and with regenerate_sections every block it does not name: no      *)
(* template drops one without a word (world.py, _preserved).               *)
KeptBlocksStay == lost = {}
=============================================================================
