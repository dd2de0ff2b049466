-------------------------------- MODULE Requests --------------------------------
(***************************************************************************)
(* What requests meet in a worker, part by part: the budget of their       *)
(* calls, the threads of one, the check of the model, the rate limit, the  *)
(* reader of collections, the indexes with their copies and the document a *)
(* client has made anew in parts.  The parts share no state in their       *)
(* modules, so each behaviour is one of a single part, and the others stay *)
(* as they begin.                                                          *)
(***************************************************************************)
EXTENDS Integers, Request

CONSTANTS
  Calls, Prompt, Output, TokenLimit, CallAttempts,
  Askers, MaxChanges,
  Clients, RateLimit, Window, Second, MaxClients, MaxTime,
  Readers, Top, Subs, Sizes, PageSize, MaxPages, ReadAttempts, MaxFaults,
  Workers, Lookers, Pods,
  OneWorker,  \* the pod whose threads belong to one worker
  Broken, MaxVersion, MaxCopies, MaxFailures,
  Templates, Sources, Corpora, Url, Title, NoUrl, MarkerLimit, MaxNew, MaxNumber,
  MaxRequests, MaxEdits

VARIABLE part

VARIABLES used, reserved, timed, timeUp, callAt, held, made, reached
B == INSTANCE RequestBudget WITH
  Limit <- TokenLimit, Attempts <- CallAttempts, pc <- callAt
budget == <<used, reserved, timed, timeUp, callAt, held, made, reached>>

VARIABLES model, suspended, check, due, askerAt, seen, changes
G == INSTANCE Gateway WITH Requests <- Askers, pc <- askerAt
gateway == <<model, suspended, check, due, askerAt, seen, changes>>

VARIABLES now, hits, order, passed, promised
L == INSTANCE RateLimiter WITH Limit <- RateLimit
limiter == <<now, hits, order, passed, promised>>

VARIABLES materials, repeats, totals, listings, readerAt, at, rest, pages, tries,
          spent, lists, gaps, faults
C == INSTANCE CollectionReader WITH
  Requests <- Readers, Attempts <- ReadAttempts, pc <- readerAt
collections == <<materials, repeats, totals, listings, readerAt, at, rest, pages,
                 tries, spent, lists, gaps, faults>>

VARIABLES workerOf, volume, copying, copies, copiesMade, lookDue, reads, identity, copyOf,
          failed, copier, threadAt, threadPath, threadSeen, named, misses
I == INSTANCE LocalIndex WITH
  Threads <- Lookers, current <- copyOf, due <- lookDue, made <- copiesMade,
  pc <- threadAt, path <- threadPath, seen <- threadSeen, failures <- misses
index == <<workerOf, volume, copying, copies, copiesMade, lookDue, reads, identity, copyOf,
            failed, copier, threadAt, threadPath, threadSeen, named, misses>>

VARIABLES blocks, rows, list, reported, lost, asked, edits
D == INSTANCE Regeneration
document == <<blocks, rows, list, reported, lost, asked, edits>>

request == vars  \* of module Request

partVars == <<part, document, index, budget, request, gateway, limiter, collections>>

ASSUME BudgetAssumption == B!BudgetAssumption
ASSUME GatewayAssumption == G!GatewayAssumption
ASSUME LimiterAssumption == L!LimiterAssumption
ASSUME ReaderAssumption == C!ReaderAssumption
ASSUME IndexAssumption == I!IndexAssumption
ASSUME RegenerationAssumption == D!RegenerationAssumption

(* A part that does not run begins in one way.  Workers without a          *)
(* directory for copies share nothing, so one of them is enough; and one   *)
(* meets an index that comes only later.                                   *)
PartInit ==
  /\ part \in {"budget", "request", "gateway", "limiter", "collections", "index",
              "document"}
  /\ B!Init /\ Init /\ G!Init /\ L!Init /\ C!Init /\ I!Init
  /\ D!Init
  /\ part # "budget" => ~timed
  /\ part # "request" => wants = {}
  /\ part # "index" => workerOf = OneWorker /\ volume = 1 /\ ~copying
  /\ ~copying => workerOf = OneWorker
  /\ workerOf # OneWorker => volume = 1
  /\ part # "gateway" => model
  /\ part # "collections" =>
       ~repeats /\ ~totals /\ materials = CHOOSE sizes \in Sizes : TRUE

ForBudget(step) ==
  /\ part = "budget" /\ step
  /\ UNCHANGED <<part, document, index, request, gateway, limiter, collections>>

ForRequest(step) ==
  /\ part = "request" /\ step
  /\ UNCHANGED <<part, document, index, budget, gateway, limiter, collections>>

ForGateway(step) ==
  /\ part = "gateway" /\ step
  /\ UNCHANGED <<part, document, index, budget, request, limiter, collections>>

ForLimiter(step) ==
  /\ part = "limiter" /\ step
  /\ UNCHANGED <<part, document, index, budget, request, gateway, collections>>

ForCollections(step) ==
  /\ part = "collections" /\ step
  /\ UNCHANGED <<part, document, index, budget, request, gateway, limiter>>

ForIndex(step) ==
  /\ part = "index" /\ step
  /\ UNCHANGED <<part, document, budget, request, gateway, limiter, collections>>

ForDocument(step) ==
  /\ part = "document" /\ step
  /\ UNCHANGED <<part, index, budget, request, gateway, limiter, collections>>

BudgetNext ==
  \/ ForBudget(B!TimeUp)
  \/ \E c \in Calls :
       \/ ForBudget(B!Begin(c)) \/ ForBudget(B!Grant(c)) \/ ForBudget(B!Deny(c))
       \/ ForBudget(B!Wait(c)) \/ ForBudget(B!Send(c))
       \/ ForBudget(B!EndUnspent(c))
       \/ ForBudget(B!RetryUnreached(c)) \/ ForBudget(B!RetryReached(c))
       \/ \E cost \in B!LastCosts(c) : ForBudget(B!End(c, cost))

RequestNext ==
  \/ \E t \in Threads :
       \/ ForRequest(Works(t) /\ Ask(t))
       \/ ForRequest(Works(t) /\ Send(t))
       \/ ForRequest(Works(t) /\ GiveUp(t))
       \/ ForRequest(Works(t) /\ EndCall(t))
  \/ \E j \in Jobs : ForRequest(EndJob(j))
  \/ ForRequest(CollectionNotFound)
  \/ ForRequest(Prepared) \/ ForRequest(WorldMade)
  \/ ForRequest(TakePart2) \/ ForRequest(TakePart3)
  \/ ForRequest(Raise) \/ ForRequest(Leave) \/ ForRequest(TimeEnds)

GatewayNext ==
  \/ ForGateway(G!TimePasses)
  \/ ForGateway(G!ModelChanges) \/ ForGateway(G!SuspensionChanges)
  \/ \E r \in Askers :
       \/ ForGateway(G!ReadCheck(r)) \/ ForGateway(G!ReadAge(r))
       \/ ForGateway(G!Told(r)) \/ ForGateway(G!KeepCheck(r))

LimiterNext ==
  \/ ForLimiter(L!Tick)
  \/ \E k \in Clients : ForLimiter(L!Pass(k)) \/ ForLimiter(L!Refuse(k))

CollectionsNext ==
  \/ \E c \in C!Collections : ForCollections(C!Expire(c))
  \/ \E r \in Readers :
       \/ ForCollections(C!Record(r)) \/ ForCollections(C!Open(r))
       \/ ForCollections(C!Page(r)) \/ ForCollections(C!Keep(r))
       \/ ForCollections(C!NextSub(r)) \/ ForCollections(C!Made(r))
       \/ ForCollections(C!TimeUp(r)) \/ ForCollections(C!Drops(r))
       \/ ForCollections(C!Refuses(r)) \/ ForCollections(C!TimeEnds(r))

IndexNext ==
  \/ ForIndex(I!Swap)
  \/ \E w \in Workers :
       ForIndex(I!Drop(w)) \/ ForIndex(I!MinutePasses(w)) \/ ForIndex(I!CopyAgain(w))
  \/ \E t \in Lookers :
       \/ ForIndex(I!NameWithoutCopying(t)) \/ ForIndex(I!NameWhileCopied(t))
       \/ ForIndex(I!NameAtOnce(t)) \/ ForIndex(I!NameUnseen(t))
       \/ ForIndex(I!StartCopy(t)) \/ ForIndex(I!EndCopy(t))
       \/ ForIndex(I!CopyFails(t)) \/ ForIndex(I!Stat(t))
       \/ ForIndex(I!StatFails(t)) \/ ForIndex(I!Reopen(t))

DocumentNext ==
  \/ \E template \in Templates, some \in BOOLEAN :
       \E these \in SUBSET D!BlockIds, corpus \in Corpora :
         ForDocument(D!Generate(template, some, these, corpus))
  \/ \E s \in DOMAIN blocks : ForDocument(D!Review(s))
  \/ \E s, z \in DOMAIN blocks :
       \E n \in DOMAIN blocks[s].cites : ForDocument(D!CopySentence(s, z, n))
  \/ \E n \in DOMAIN rows : ForDocument(D!LoseRow(n))
  \/ \E s \in list : ForDocument(D!LoseEntry(s))

PartNext ==
  \/ DocumentNext \/ IndexNext \/ BudgetNext \/ RequestNext \/ GatewayNext
  \/ LimiterNext \/ CollectionsNext

(* The fairness of the modules, each for the behaviours of its part.       *)
PartFairness ==
  /\ \A c \in Calls : WF_budget(part = "budget" /\ B!CallStep(c))
  /\ WF_gateway(part = "gateway" /\ G!TimePasses)
  /\ WF_gateway(part = "gateway" /\ suspended /\ G!SuspensionChanges)
  /\ \A r \in Askers : WF_gateway(part = "gateway" /\ G!RequestStep(r))
  /\ \A w \in Workers :
       /\ WF_index(part = "index" /\ I!MinutePasses(w))
       /\ WF_index(part = "index" /\ I!CopyAgain(w))
       /\ SF_index(/\ part = "index"
                   /\ \E t \in Lookers :
                        /\ workerOf[t] = w
                        /\ I!NameAtOnce(t) \/ I!NameWhileCopied(t) \/ I!StartCopy(t))
  /\ \A t \in Lookers :
       WF_index(part = "index" /\ (I!Name(t) \/ I!Stat(t) \/ I!Reopen(t)))

PartSpec == PartInit /\ [][PartNext]_partVars /\ PartFairness

-----------------------------------------------------------------------------
(* Every part's type invariant: the state each component of a worker keeps *)
(* for requests is of the kind its module declares.                        *)
TypesOK ==
  /\ B!TypeOK /\ TypeOK /\ G!TypeOK /\ L!TypeOK /\ C!TypeOK /\ I!TypeOK
  /\ D!TypeOK

(* The invariants and action properties of the modules (see there): the    *)
(* budget of parallel calls in app/llm/budget.py, ...                      *)
BudgetKept == B!WithinLimit /\ B!ReservedIsHeld
DeniedForSpentTokens == B!DeniedForSpentTokens

(* ... the sliding window of app/api/limits.py, ...                        *)
WindowKept == L!WindowKept

(* ... the lists of app/sources/wlo that end early, ...                    *)
SaysWhatIsMissing == C!SaysWhatIsMissing
SaysWhatIsMissingEver == C!SaysWhatIsMissingEver
OwnTimeOnly == C!OwnTimeOnly

(* ... the index a worker goes on reading (app/sources/local_index.py).    *)
ServesOn == I!ServesOn

(* Part 1 made anew in parts: every block that is to stay stays, a number  *)
(* has one meaning, and every citation of an answer leads to its source or *)
(* is reported (app/compose/kept_sources.py, app/synthesis/writer.py).     *)
AnswersHold == D!Attributed /\ [](D!KeptBlocksStay /\ D!OneMeaning)

(* A worker gets to read the last index.                                   *)
FollowsFile == part = "index" => I!FollowsFile

(* Every call of the budget ends (app/llm/call.py).                        *)
EveryCallEnds == part = "budget" => B!EveryCallEnds

(* The model is used again when it is back (app/compendium/gateway.py).    *)
UsesModelAgain == part = "gateway" => G!UsesModelAgain
=============================================================================
