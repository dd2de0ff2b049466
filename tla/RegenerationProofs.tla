------------------------ MODULE RegenerationProofs ------------------------
(***************************************************************************)
(* Proofs about part D of Requests, the document made anew in parts, for   *)
(* any templates, sources and requests, while every number is one that the *)
(* pattern of a marker takes.                                              *)
(***************************************************************************)
EXTENDS Requests, Sequences, TLAPS

(* Numbers stay within the digits of a marker.                             *)
Readable == D!RegenerationAssumption /\ MaxNumber <= MarkerLimit

DocumentInv == D!TypeOK /\ D!OneMeaning /\ D!KeptBlocksStay

(* The sources of a document are told apart by their rows.                 *)
LEMMA FindIsExact ==
  ASSUME D!RegenerationAssumption, NEW from \in SUBSET Sources, NEW row \in Sources
  PROVE  D!Find(from, row) = from \cap {row}
BY DEF D!RegenerationAssumption, D!Find

(* A marker of a block is one of its citations: none is too long to read.  *)
LEMMA MarkersAreCitations ==
  ASSUME Readable, D!TypeOK, NEW s \in DOMAIN blocks
  PROVE  D!Markers(s) = DOMAIN blocks[s].cites
BY DEF Readable, D!RegenerationAssumption, D!TypeOK, D!Markers, D!Numbers

(* What an answer is made of: the facts every proof about it needs.        *)
Made(stay, corpus, h, cites) ==
  /\ stay \subseteq DOMAIN blocks
  /\ corpus \subseteq Sources
  /\ h \in 0 .. MaxNumber
  /\ DOMAIN cites \subseteq D!BlockIds \ stay
  /\ \A s \in DOMAIN cites :
       /\ DOMAIN cites[s] \subseteq D!Numbers
       /\ \A n \in DOMAIN cites[s] : n > h /\ cites[s][n] \in corpus
  /\ \A s, z \in DOMAIN cites : \A n \in DOMAIN cites[s] \cap DOMAIN cites[z] : s = z
  /\ \A s \in stay : \A n \in DOMAIN blocks[s].cites : n <= h
  /\ D!Answer(stay, corpus, cites)

LEMMA GenerateMakes ==
  ASSUME Readable, D!TypeOK,
         NEW template \in Templates, NEW some \in BOOLEAN, NEW these, NEW corpus \in Corpora,
         D!Generate(template, some, these, corpus)
  PROVE  \E h, cites : Made(D!ToKeep(some, these), corpus, h, cites)
<1> DEFINE content == {template[i] : i \in DOMAIN template}
           stay == D!ToKeep(some, these)
<1>1. /\ stay \subseteq content /\ stay \cap content = stay
      /\ stay \subseteq DOMAIN blocks /\ content \subseteq D!BlockIds /\ corpus \subseteq Sources
      /\ MaxNumber \in Nat /\ MaxNew \in Nat
  BY DEF D!Generate, D!Placed, D!ToKeep, D!BlockIds, Readable, D!RegenerationAssumption
<1>2. PICK h \in 0 .. MaxNumber - MaxNew :
        /\ D!Highest(stay, h)
        /\ \E written \in SUBSET (content \ stay) :
             \E cites \in [written -> D!Citations(h + 1 .. h + MaxNew, corpus)] :
               D!InOrder(template, cites) /\ D!Answer(stay, corpus, cites)
  <2> HIDE DEF content, stay
  <2> QED BY <1>1 DEF D!Generate, content, stay
<1>3. PICK written \in SUBSET (content \ stay) :
        \E cites \in [written -> D!Citations(h + 1 .. h + MaxNew, corpus)] :
               D!InOrder(template, cites) /\ D!Answer(stay, corpus, cites)
  BY <1>2
<1>4. PICK cites \in [written -> D!Citations(h + 1 .. h + MaxNew, corpus)] :
               D!InOrder(template, cites) /\ D!Answer(stay, corpus, cites)
  BY <1>3
<1> HIDE DEF stay
<1>5. h \in 0 .. MaxNumber /\ h + MaxNew <= MaxNumber
  BY <1>1
<1>6. \A s \in DOMAIN cites :
        /\ DOMAIN cites[s] \subseteq D!Numbers
        /\ \A n \in DOMAIN cites[s] : n > h /\ cites[s][n] \in corpus
  <2> SUFFICES ASSUME NEW s \in DOMAIN cites
               PROVE  /\ DOMAIN cites[s] \subseteq D!Numbers
                      /\ \A n \in DOMAIN cites[s] : n > h /\ cites[s][n] \in corpus
    OBVIOUS
  <2>1. PICK taken \in SUBSET (h + 1 .. h + MaxNew) : cites[s] \in [taken -> corpus]
    BY DEF D!Citations
  <2>2. DOMAIN cites[s] = taken /\ \A n \in taken : cites[s][n] \in corpus
    BY <2>1
  <2>3. ASSUME NEW n \in taken
        PROVE  n \in D!Numbers /\ n > h
    <3>1. n \in h + 1 .. h + MaxNew
      OBVIOUS
    <3> QED BY <3>1, <1>1, <1>5 DEF D!Numbers
  <2> QED BY <2>2, <2>3
<1>7. ASSUME NEW s \in DOMAIN cites, NEW z \in DOMAIN cites,
             NEW n \in DOMAIN cites[s] \cap DOMAIN cites[z]
      PROVE  s = z
  <2>1. PICK i \in DOMAIN template, j \in DOMAIN template : template[i] = s /\ template[j] = z
    OBVIOUS
  <2>2. template \in Seq(D!BlockIds)
    BY DEF Readable, D!RegenerationAssumption
  <2>3. i \in Int /\ j \in Int /\ n \in Int
    BY <2>1, <2>2, <1>6 DEF D!Numbers
  <2>4. ~(i < j) /\ ~(j < i)
    BY <2>1, <2>3, <1>4 DEF D!InOrder
  <2> QED BY <2>1, <2>3, <2>4
<1>8. \A s \in stay : \A n \in DOMAIN blocks[s].cites : n <= h
  BY <1>1, <1>2, MarkersAreCitations DEF D!Highest
<1>9. DOMAIN cites \subseteq D!BlockIds \ stay
  BY <1>1
<1>10. Made(stay, corpus, h, cites)
  BY <1>1, <1>4, <1>5, <1>6, <1>7, <1>8, <1>9 DEF Made
<1> QED BY <1>10 DEF stay

-----------------------------------------------------------------------------
(* The answer has the blocks it kept as they were and the new ones, each   *)
(* number with the row of its source.                                      *)
LEMMA AnswerBlocks ==
  ASSUME NEW stay, NEW corpus, NEW h, NEW cites, Made(stay, corpus, h, cites)
  PROVE  /\ DOMAIN blocks' = stay \cup DOMAIN cites
         /\ \A s \in stay : blocks'[s] = blocks[s]
         /\ \A s \in DOMAIN cites : /\ s \notin stay
                                    /\ blocks'[s] = [status |-> "machine", cites |-> cites[s]]
BY DEF Made, D!Answer

LEMMA AnswerRows ==
  ASSUME Readable, D!TypeOK,
         NEW stay, NEW corpus, NEW h, NEW cites, Made(stay, corpus, h, cites)
  PROVE  /\ DOMAIN rows' = D!Cited(stay) \cup D!Printed(cites)
         /\ \A s \in DOMAIN cites : \A n \in DOMAIN cites[s] :
              n \in DOMAIN rows' /\ rows'[n] = cites[s][n]
         /\ \A s \in stay : \A n \in DOMAIN blocks[s].cites :
              /\ n \in DOMAIN rows' <=> n \in DOMAIN rows
              /\ n \in DOMAIN rows => rows'[n] = rows[n]
<1>1. DOMAIN rows' = D!Cited(stay) \cup D!Printed(cites)
  BY DEF Made, D!Answer
<1>2. ASSUME NEW s \in DOMAIN cites, NEW n \in DOMAIN cites[s]
      PROVE  n \in DOMAIN rows' /\ rows'[n] = cites[s][n]
  <2>1. n \in D!Printed(cites)
    BY DEF D!Printed
  <2>2. (CHOOSE z \in DOMAIN cites : n \in DOMAIN cites[z]) = s
    BY DEF Made
  <2> QED BY <1>1, <2>1, <2>2 DEF Made, D!Answer, D!Row
<1>3. ASSUME NEW s \in stay, NEW n \in DOMAIN blocks[s].cites
      PROVE  /\ n \in DOMAIN rows' <=> n \in DOMAIN rows
             /\ n \in DOMAIN rows => rows'[n] = rows[n]
  <2>1. n \notin D!Printed(cites)
    <3>1. n <= h /\ n \in Int /\ h \in Int
      BY DEF Made, D!TypeOK, D!Numbers
    <3> QED BY <3>1 DEF Made, D!Printed, D!Numbers
  <2>2. n \in D!Cited(stay) <=> n \in DOMAIN rows
    <3>1. s \in DOMAIN blocks /\ n \in D!Markers(s)
      BY MarkersAreCitations DEF Made
    <3> QED BY <3>1 DEF D!Cited
  <2> QED BY <1>1, <2>1, <2>2 DEF Made, D!Answer
<1> QED BY <1>1, <1>2, <1>3

-----------------------------------------------------------------------------
(* The steps of editors and of the systems the document passes through     *)
(* change one of its three tables.                                         *)
EditStep ==
  \/ \E s \in DOMAIN blocks : D!Review(s)
  \/ \E s, z \in DOMAIN blocks : \E n \in DOMAIN blocks[s].cites : D!CopySentence(s, z, n)
  \/ \E n \in DOMAIN rows : D!LoseRow(n)
  \/ \E s \in list : D!LoseEntry(s)

LEMMA DocumentBounds ==
  ASSUME Readable
  PROVE  MaxNumber \in Nat /\ MaxRequests \in Nat /\ MaxEdits \in Nat
BY DEF Readable, D!RegenerationAssumption

LEMMA DocumentTyped == ASSUME Readable PROVE D!Init => D!TypeOK
<1>1. DOMAIN << >> = {}
  OBVIOUS
<1> QED BY <1>1, DocumentBounds DEF D!Init, D!TypeOK

LEMMA DocumentBegins == ASSUME Readable PROVE D!Init => DocumentInv
<1> SUFFICES ASSUME D!Init PROVE DocumentInv
  OBVIOUS
<1>1. D!TypeOK
  BY DocumentTyped
<1>2. D!OneMeaning /\ D!KeptBlocksStay
  BY DEF D!Init, D!OneMeaning, D!KeptBlocksStay
<1> QED BY <1>1, <1>2 DEF DocumentInv

LEMMA EditsKeepInv ==
  ASSUME Readable, DocumentInv, EditStep
  PROVE  DocumentInv'
<1> USE DEF DocumentInv
<1>1. ASSUME NEW s \in DOMAIN blocks, D!Review(s)
      PROVE  DocumentInv'
  <2>1. /\ DOMAIN blocks' = DOMAIN blocks
        /\ \A z \in DOMAIN blocks : /\ DOMAIN blocks'[z] = {"status", "cites"}
                                    /\ blocks'[z].status \in {"machine", "reviewed"}
                                    /\ blocks'[z].cites = blocks[z].cites
    BY <1>1 DEF D!Review, D!TypeOK
  <2>2. D!TypeOK'
    BY <1>1, <2>1 DEF D!Review, D!TypeOK
  <2>3. D!OneMeaning'
    BY <1>1, <2>1 DEF D!Review, D!OneMeaning
  <2> QED BY <1>1, <2>2, <2>3 DEF D!Review, D!KeptBlocksStay
<1>2. ASSUME NEW s \in DOMAIN blocks, NEW z \in DOMAIN blocks,
             NEW n \in DOMAIN blocks[s].cites, D!CopySentence(s, z, n)
      PROVE  DocumentInv'
  <2>1. /\ DOMAIN blocks' = DOMAIN blocks
        /\ \A b \in DOMAIN blocks : /\ DOMAIN blocks'[b] = {"status", "cites"}
                                    /\ blocks'[b].status = blocks[b].status
                                    /\ b # z => blocks'[b] = blocks[b]
        /\ blocks'[z].cites = [m \in DOMAIN blocks[z].cites \cup {n} |->
                                 IF m = n THEN blocks[s].cites[n] ELSE blocks[z].cites[m]]
    BY <1>2 DEF D!CopySentence, D!TypeOK
  <2>2. ASSUME NEW b \in DOMAIN blocks, NEW m \in DOMAIN blocks'[b].cites
        PROVE  \E c \in DOMAIN blocks : /\ m \in DOMAIN blocks[c].cites
                                        /\ blocks'[b].cites[m] = blocks[c].cites[m]
    BY <2>1, <2>2
  <2>3. D!TypeOK'
    BY <1>2, <2>1, <2>2, DocumentBounds DEF D!CopySentence, D!TypeOK
  <2>4. D!OneMeaning'
    BY <1>2, <2>1, <2>2 DEF D!CopySentence, D!OneMeaning
  <2> QED BY <1>2, <2>3, <2>4 DEF D!CopySentence, D!KeptBlocksStay
<1>3. ASSUME NEW n \in DOMAIN rows, D!LoseRow(n)
      PROVE  DocumentInv'
  BY <1>3, DocumentBounds DEF D!LoseRow, D!TypeOK, D!OneMeaning, D!KeptBlocksStay
<1>4. ASSUME NEW s \in list, D!LoseEntry(s)
      PROVE  DocumentInv'
  BY <1>4, DocumentBounds DEF D!LoseEntry, D!TypeOK, D!OneMeaning, D!KeptBlocksStay
<1> QED BY <1>1, <1>2, <1>3, <1>4 DEF EditStep

LEMMA GenerateKeepsInv ==
  ASSUME Readable, DocumentInv,
         NEW template \in Templates, NEW some \in BOOLEAN, NEW these, NEW corpus \in Corpora,
         D!Generate(template, some, these, corpus)
  PROVE  DocumentInv'
<1> DEFINE stay == D!ToKeep(some, these)
<1>1. D!TypeOK /\ D!OneMeaning /\ lost = {}
  BY DEF DocumentInv, D!KeptBlocksStay
<1>2. PICK h, cites : Made(stay, corpus, h, cites)
  BY <1>1, GenerateMakes
<1>3. /\ lost' = lost \cup {s \in stay : ~(s \in DOMAIN blocks' /\ blocks'[s] = blocks[s])}
      /\ asked' = asked + 1 /\ asked < MaxRequests /\ UNCHANGED edits
  BY DEF D!Generate
<1> HIDE DEF stay
<1>4. /\ DOMAIN blocks' = stay \cup DOMAIN cites
      /\ \A s \in stay : blocks'[s] = blocks[s]
      /\ \A s \in DOMAIN cites : /\ s \notin stay
                                 /\ blocks'[s] = [status |-> "machine", cites |-> cites[s]]
  BY <1>2, AnswerBlocks
<1>5. /\ DOMAIN rows' = D!Cited(stay) \cup D!Printed(cites)
      /\ \A s \in DOMAIN cites : \A n \in DOMAIN cites[s] :
              n \in DOMAIN rows' /\ rows'[n] = cites[s][n]
      /\ \A s \in stay : \A n \in DOMAIN blocks[s].cites :
              /\ n \in DOMAIN rows' <=> n \in DOMAIN rows
              /\ n \in DOMAIN rows => rows'[n] = rows[n]
  BY <1>1, <1>2, AnswerRows
<1>6. lost' = {}
  BY <1>1, <1>3, <1>4
<1>7. D!OneMeaning'
  <2>1. ASSUME NEW s \in DOMAIN blocks', NEW z \in DOMAIN blocks',
               NEW n \in DOMAIN blocks'[s].cites \cap DOMAIN blocks'[z].cites
        PROVE  blocks'[s].cites[n] = blocks'[z].cites[n]
    <3>1. CASE s \in stay /\ z \in stay
      BY <3>1, <1>1, <1>2, <1>4 DEF D!OneMeaning, Made
    <3>2. CASE s \in DOMAIN cites /\ z \in DOMAIN cites
      BY <3>2, <1>2, <1>4 DEF Made
    <3>3. CASE s \in stay /\ z \in DOMAIN cites
      <4>1. n <= h /\ n > h /\ n \in Int /\ h \in Int
        BY <3>3, <1>2, <1>4 DEF Made, D!Numbers
      <4> QED BY <4>1
    <3>4. CASE s \in DOMAIN cites /\ z \in stay
      <4>1. n <= h /\ n > h /\ n \in Int /\ h \in Int
        BY <3>4, <1>2, <1>4 DEF Made, D!Numbers
      <4> QED BY <4>1
    <3> QED BY <3>1, <3>2, <3>3, <3>4, <1>4
  <2>2. ASSUME NEW s \in DOMAIN blocks', NEW n \in DOMAIN blocks'[s].cites \cap DOMAIN rows'
        PROVE  rows'[n] = blocks'[s].cites[n]
    <3>1. CASE s \in stay
      BY <3>1, <1>1, <1>2, <1>4, <1>5 DEF D!OneMeaning, Made
    <3>2. CASE s \in DOMAIN cites
      BY <3>2, <1>4, <1>5
    <3> QED BY <3>1, <3>2, <1>4
  <2> QED BY <2>1, <2>2 DEF D!OneMeaning
<1>8. D!TypeOK'
  <2>1. DOMAIN blocks' \subseteq D!BlockIds
    BY <1>1, <1>2, <1>4 DEF Made, D!TypeOK
  <2>2. ASSUME NEW s \in DOMAIN blocks'
        PROVE  /\ DOMAIN blocks'[s] = {"status", "cites"}
               /\ blocks'[s].status \in {"machine", "reviewed"}
               /\ DOMAIN blocks'[s].cites \subseteq D!Numbers
               /\ \A n \in DOMAIN blocks'[s].cites : blocks'[s].cites[n] \in Sources
    <3>1. CASE s \in stay
      BY <3>1, <1>1, <1>2, <1>4 DEF D!TypeOK, Made
    <3>2. CASE s \in DOMAIN cites
      BY <3>2, <1>2, <1>4 DEF Made
    <3> QED BY <3>1, <3>2, <1>4
  <2>3. DOMAIN rows' \subseteq D!Numbers /\ \A n \in DOMAIN rows' : rows'[n] \in Sources
    <3>1. ASSUME NEW n \in D!Printed(cites)
          PROVE  n \in D!Numbers /\ rows'[n] \in Sources
      <4>1. PICK s \in DOMAIN cites : n \in DOMAIN cites[s]
        BY DEF D!Printed
      <4> QED BY <4>1, <1>2, <1>5 DEF Made
    <3>2. ASSUME NEW n \in D!Cited(stay)
          PROVE  n \in D!Numbers /\ rows'[n] \in Sources
      <4>1. PICK s \in stay : n \in D!Markers(s)
        BY DEF D!Cited
      <4>2. n \in DOMAIN rows
        BY DEF D!Cited
      <4>3. n \in DOMAIN blocks[s].cites
        BY <4>1 DEF D!Markers
      <4> QED BY <4>2, <4>3, <1>1, <1>5 DEF D!TypeOK
    <3> QED BY <3>1, <3>2, <1>5
  <2>4. list' \subseteq Sources
    <3>1. list \subseteq Sources /\ corpus \subseteq Sources /\ list' = corpus \cup D!Carried(stay, corpus)
      BY <1>1, <1>2 DEF D!TypeOK, Made, D!Answer
    <3>2. D!Carried(stay, corpus) \subseteq list
      BY DEF D!Carried, D!Find
    <3> QED BY <3>1, <3>2
  <2>5. reported' \subseteq D!Numbers
    <3>1. ASSUME NEW n \in reported'
          PROVE  \E s \in stay : n \in D!Markers(s)
      BY <1>2 DEF Made, D!Answer, D!Unattributed, D!Rowless, D!Cited
    <3> QED BY <3>1, <1>1, <1>2 DEF Made, D!Markers, D!TypeOK
  <2>6. lost' \subseteq D!BlockIds /\ asked' \in 0 .. MaxRequests /\ edits' \in 0 .. MaxEdits
    BY <1>1, <1>3, <1>6, DocumentBounds DEF D!TypeOK
  <2> QED BY <2>1, <2>2, <2>3, <2>4, <2>5, <2>6 DEF D!TypeOK
<1> QED BY <1>6, <1>7, <1>8 DEF DocumentInv, D!KeptBlocksStay

LEMMA DocumentStep == ASSUME Readable, DocumentInv, [D!Next]_(D!vars) PROVE DocumentInv'
<1>1. CASE UNCHANGED D!vars
  BY <1>1 DEF D!vars, DocumentInv, D!TypeOK, D!OneMeaning, D!KeptBlocksStay
<1>2. CASE EditStep
  BY <1>2, EditsKeepInv
<1>3. CASE \E template \in Templates, some \in BOOLEAN :
             \E these \in SUBSET D!BlockIds, corpus \in Corpora :
               D!Generate(template, some, these, corpus)
  BY <1>3, GenerateKeepsInv
<1> QED BY <1>1, <1>2, <1>3 DEF D!Next, EditStep

(* The inductive invariant: the type, one meaning for each number in all   *)
(* blocks and rows, and no block lost that was to stay.                    *)
THEOREM DocumentSafety == ASSUME Readable PROVE D!Spec => []DocumentInv
<1>1. D!Init => DocumentInv
  BY DocumentBegins
<1>2. DocumentInv /\ [D!Next]_(D!vars) => DocumentInv'
  BY DocumentStep
<1> QED BY <1>1, <1>2, PTL DEF D!Spec

(* A new block never takes a number a kept one still uses, whatever was    *)
(* kept, made anew, copied or lost before (writer.py:114).                 *)
THEOREM NumbersUnique == ASSUME Readable PROVE D!Spec => []D!OneMeaning
BY DocumentSafety, PTL DEF DocumentInv

(* Every block a request is to keep stands in its answer as it was         *)
(* (world.py:262).                                                         *)
THEOREM KeptStay == ASSUME Readable PROVE D!Spec => []D!KeptBlocksStay
BY DocumentSafety, PTL DEF DocumentInv

-----------------------------------------------------------------------------
(* A reader gets from the number to the source of the words.               *)
Followed(s, n) ==
  n \in DOMAIN rows /\ rows[n] = blocks[s].cites[n] /\ blocks[s].cites[n] \in list

LEMMA UntoldIs ==
  ASSUME D!TypeOK, NEW s \in DOMAIN blocks, NEW n \in DOMAIN blocks[s].cites
  PROVE  <<s, n>> \in D!Untold <=> ~Followed(s, n)
BY DEF D!Untold, Followed, D!TypeOK

(* A citation of a kept block is reported if and only if nobody can follow *)
(* it in the answer, and then nobody could before.                         *)
LEMMA KeptCitation ==
  ASSUME Readable, DocumentInv,
         NEW stay, NEW corpus, NEW h, NEW cites, Made(stay, corpus, h, cites),
         NEW s \in stay, NEW n \in DOMAIN blocks[s].cites
  PROVE  /\ n \in reported' <=> ~Followed(s, n)'
         /\ n \in reported' => ~Followed(s, n)
<1>1. /\ D!TypeOK /\ D!OneMeaning /\ D!RegenerationAssumption
      /\ s \in DOMAIN blocks /\ corpus \in SUBSET Sources /\ list \in SUBSET Sources
      /\ n \in D!Markers(s)
  BY MarkersAreCitations DEF DocumentInv, Readable, Made, D!TypeOK
<1>2. /\ blocks'[s] = blocks[s]
      /\ n \in DOMAIN rows' <=> n \in DOMAIN rows
      /\ n \in DOMAIN rows => rows'[n] = rows[n]
  BY <1>1, AnswerBlocks, AnswerRows
<1>3. /\ list' = corpus \cup D!Carried(stay, corpus)
      /\ reported' = D!Unattributed(stay, corpus)
  BY DEF Made, D!Answer
<1>4. n \in D!Cited(stay) <=> n \in DOMAIN rows
  BY <1>1 DEF D!Cited
<1>5. n \in D!Rowless(stay) <=> n \notin DOMAIN rows
  BY <1>1 DEF D!Rowless
<1>6. CASE n \notin DOMAIN rows
  BY <1>2, <1>3, <1>5, <1>6 DEF D!Unattributed, Followed
<1>7. CASE n \in DOMAIN rows
  <2>1. rows[n] = blocks[s].cites[n] /\ rows[n] \in Sources
    BY <1>1, <1>7 DEF D!OneMeaning, D!TypeOK
  <2>2. /\ D!Find(corpus \cup list, rows[n]) = (corpus \cup list) \cap {rows[n]}
        /\ D!Find(corpus, rows[n]) = corpus \cap {rows[n]}
        /\ D!Find(list, rows[n]) = list \cap {rows[n]}
    <3>1. corpus \cup list \in SUBSET Sources
      BY <1>1
    <3> QED BY <1>1, <2>1, <3>1, FindIsExact
  <2>3. n \in reported' <=> rows[n] \notin corpus \cup list
    <3>1. n \in reported' <=> D!Find(corpus \cup list, rows[n]) = {}
      BY <1>3, <1>4, <1>5, <1>7 DEF D!Unattributed
    <3> QED BY <2>2, <3>1
  <2>4. rows[n] \in list' <=> rows[n] \in corpus \cup list
    <3>1. D!Carried(stay, corpus) \subseteq list
      BY DEF D!Carried, D!Find
    <3>2. ASSUME rows[n] \in list, rows[n] \notin corpus
          PROVE  rows[n] \in D!Carried(stay, corpus)
      <4>1. D!Find(corpus, rows[n]) = {} /\ rows[n] \in D!Find(list, rows[n])
        BY <2>2, <3>2
      <4> QED BY <1>4, <1>7, <4>1 DEF D!Carried
    <3> QED BY <1>3, <3>1, <3>2
  <2> QED BY <1>2, <1>7, <2>1, <2>3, <2>4 DEF Followed
<1> QED BY <1>6, <1>7

LEMMA GenerateAttributes ==
  ASSUME Readable, DocumentInv, DocumentInv',
         NEW template \in Templates, NEW some \in BOOLEAN, NEW these, NEW corpus \in Corpora,
         D!Generate(template, some, these, corpus)
  PROVE  /\ reported' = {p[2] : p \in D!Untold'}
         /\ D!Untold' \subseteq D!Untold
<1> DEFINE stay == D!ToKeep(some, these)
<1>1. D!TypeOK /\ D!TypeOK'
  BY DEF DocumentInv
<1>2. PICK h, cites : Made(stay, corpus, h, cites)
  BY <1>1, GenerateMakes
<1> HIDE DEF stay
<1>3. /\ DOMAIN blocks' = stay \cup DOMAIN cites
      /\ \A s \in stay : blocks'[s] = blocks[s]
      /\ \A s \in DOMAIN cites : blocks'[s].cites = cites[s]
  <2>1. /\ DOMAIN blocks' = stay \cup DOMAIN cites
        /\ \A s \in stay : blocks'[s] = blocks[s]
        /\ \A s \in DOMAIN cites :
             /\ s \notin stay
             /\ blocks'[s] = [status |-> "machine", cites |-> cites[s]]
    BY <1>2, AnswerBlocks
  <2> QED BY <2>1
<1>4. stay \subseteq DOMAIN blocks
  BY <1>2 DEF Made
<1>5. \A s \in DOMAIN cites : \A n \in DOMAIN cites[s] :
           n \in DOMAIN rows' /\ rows'[n] = cites[s][n]
  <2>1. /\ DOMAIN rows' = D!Cited(stay) \cup D!Printed(cites)
        /\ \A s \in DOMAIN cites : \A n \in DOMAIN cites[s] :
             n \in DOMAIN rows' /\ rows'[n] = cites[s][n]
        /\ \A s \in stay : \A n \in DOMAIN blocks[s].cites :
             /\ n \in DOMAIN rows' <=> n \in DOMAIN rows
             /\ n \in DOMAIN rows => rows'[n] = rows[n]
    BY <1>1, <1>2, AnswerRows
  <2> QED BY <2>1
<1>6. ASSUME NEW s \in DOMAIN cites, NEW n \in DOMAIN cites[s]
      PROVE  Followed(s, n)'
  <2>1. n \in DOMAIN rows' /\ rows'[n] = cites[s][n]
    BY <1>5
  <2>2. cites[s][n] \in list'
    BY <1>2 DEF Made, D!Answer
  <2> QED BY <1>3, <2>1, <2>2 DEF Followed
<1>7. ASSUME NEW p \in D!Untold'
      PROVE  p \in D!Untold /\ p[2] \in reported'
  <2>1. p[1] \in DOMAIN blocks' /\ p[2] \in DOMAIN blocks'[p[1]].cites /\ p = <<p[1], p[2]>>
    BY <1>1, <1>7 DEF D!Untold
  <2>2. ~Followed(p[1], p[2])'
    BY <1>1, <2>1 DEF D!Untold, Followed
  <2>3. p[1] \in stay /\ p[2] \in DOMAIN blocks[p[1]].cites
    BY <1>3, <1>6, <2>1, <2>2
  <2>4. p[2] \in reported' /\ ~Followed(p[1], p[2])
    BY <1>2, <2>2, <2>3, KeptCitation
  <2>5. <<p[1], p[2]>> \in D!Untold
    BY <1>1, <1>4, <2>3, <2>4, UntoldIs
  <2> QED BY <2>1, <2>4, <2>5
<1>8. ASSUME NEW n \in reported'
      PROVE  \E p \in D!Untold' : n = p[2]
  <2>1. PICK s \in stay : n \in D!Markers(s)
    BY <1>2 DEF Made, D!Answer, D!Unattributed, D!Rowless, D!Cited
  <2>2. n \in DOMAIN blocks[s].cites
    BY <2>1 DEF D!Markers
  <2>3. ~Followed(s, n)'
    BY <1>2, <2>2, KeptCitation
  <2>4. s \in DOMAIN blocks' /\ n \in DOMAIN blocks'[s].cites
    BY <1>3, <2>2
  <2>5. <<s, n>> \in D!Untold'
    BY <1>1, <2>3, <2>4 DEF D!Untold, Followed, D!TypeOK
  <2> QED BY <2>5
<1> QED BY <1>7, <1>8

(* Every answer reports the citations nobody can follow, no other, and     *)
(* makes none itself (kept_sources.py, attribute).                         *)
THEOREM AnswersAttributed == ASSUME Readable PROVE D!Spec => D!Attributed
<1>1. ASSUME DocumentInv, DocumentInv', [D!Next]_(D!vars)
      PROVE  [asked' # asked => /\ reported' = {p[2] : p \in D!Untold'}
                                /\ D!Untold' \subseteq D!Untold]_(D!vars)
  <2>1. CASE UNCHANGED asked
    BY <2>1 DEF D!vars
  <2>2. CASE \E template \in Templates, some \in BOOLEAN :
               \E these \in SUBSET D!BlockIds, corpus \in Corpora :
                 D!Generate(template, some, these, corpus)
    BY <1>1, <2>2, GenerateAttributes
  <2> QED BY <1>1, <2>1, <2>2 DEF D!Next, D!Review, D!CopySentence, D!LoseRow, D!LoseEntry, D!vars
<1> QED BY <1>1, DocumentSafety, PTL DEF D!Spec, D!Attributed
=============================================================================
