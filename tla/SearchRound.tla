----------------------------- MODULE SearchRound -----------------------------
(* One search round: the concurrent queries of the search node, each through the *)
(* search gateway (cache, retries, chain of providers, shared set of rejected    *)
(* keys, shared budget), and process_results, which turns the hits of the round  *)
(* into documents.  A query is interleaved with the others at its awaits.        *)
EXTENDS Naturals, Sequences, FiniteSets, SequencesExt

CONSTANTS
    Queries,         \* the planned queries, in order: a sequence of subquestions
    OpenSubqs,       \* the open subquestions of the plan, in its order
    Chain,           \* search providers with a key, in order
    Brave,           \* the provider preferred for every third query
    MaxSearches,     \* settings.budget.max_searches
    Spent,           \* searches charged in earlier rounds
    MaxParallel,     \* settings.concurrency.max_parallel_searches
    Retries,         \* settings.search.retries
    Broadens,        \* queries whose broadened text differs from their own
    HitsOf,          \* what a provider finds for a query, when it finds anything
    Page,            \* canonical URL of a hit's URL, or None
    Triage,          \* triage score of a page, in percent
    Text,            \* hash of the text of a page
    Snippet,         \* hash of the snippet of a page, or None: it has none
    Title,           \* hash of the title of a page
    Near,            \* pairs of different texts above the MinHash threshold
    TopK,            \* settings.fetch.top_k_*
    Earlier,         \* documents of the earlier rounds
    None

Index == 1..Len(Queries)
Kinds == {"planned", "broadened"}
QueryStatus == {"planned", "done", "empty", "failed", "skipped_budget"}
QueryRecord == [planned : QueryStatus, broadened : QueryStatus \cup {"absent"}]
Hits  == [url : DOMAIN Page, full : BOOLEAN]
Pages == DOMAIN Text

(* A document: selected for reading in some round, its text once it is there,    *)
(* the number of the document its origin is named after (0: none yet), the hash  *)
(* of what it was read as then, and whether the similarity index has it.         *)
Document == [page : Pages, subqs : SUBSET (ToSet(Queries) \cup ToSet(OpenSubqs)),
             queries : SUBSET (Index \X Kinds),
             text : {Text[p] : p \in Pages} \cup {Snippet[p] : p \in Pages} \cup {None},
             hash : {Text[p] : p \in Pages} \cup {Snippet[p] : p \in Pages}
                        \cup {Title[p] : p \in Pages} \cup {None},
             selected : BOOLEAN, origin : Nat, indexed : BOOLEAN]

(* What a round leaves and the next one starts from: one document per page; what *)
(* was selected has an origin and the hash it was given for, named after a       *)
(* document that is its own origin; equal hashes share theirs.                   *)
OnePerPage(held) == \A i, j \in DOMAIN held : held[i].page = held[j].page => i = j
OriginsNamed(held) ==
    \A i \in DOMAIN held : held[i].origin # 0 =>
        /\ held[i].hash # None /\ held[i].selected
        /\ held[i].origin \in DOMAIN held
        /\ held[held[i].origin].origin = held[i].origin
CopiesJoined(held) ==
    \A i, j \in DOMAIN held :
        held[i].origin # 0 /\ held[j].origin # 0 /\ held[i].hash = held[j].hash
            => held[i].origin = held[j].origin
Coherent(held) ==
    /\ OnePerPage(held) /\ OriginsNamed(held) /\ CopiesJoined(held)
    /\ \A i \in DOMAIN held : held[i].selected \/ held[i].indexed => held[i].origin # 0

(* What the settings may be set to (config/schema.py).                           *)
BudgetSettings == MaxSearches \in 1..200
ConcurrencySettings == MaxParallel \in 1..20
SearchSettings == Retries \in 0..5
FetchSettings == TopK \in 1..20

ASSUME RoundAssumption ==
    /\ Queries \in Seq(ToSet(Queries)) /\ OpenSubqs \in Seq(ToSet(OpenSubqs))
    /\ Chain \in Seq(ToSet(Chain)) /\ IsInjective(Chain) /\ None \notin ToSet(Chain)
    /\ BudgetSettings /\ ConcurrencySettings /\ SearchSettings /\ FetchSettings /\ Spent \in Nat
    /\ Broadens \subseteq Index /\ HitsOf \in [Index -> Seq(Hits)]
    /\ \A u \in DOMAIN Page : Page[u] \in Pages \cup {None}
    /\ \A p \in Pages : p # None /\ Text[p] # None /\ Title[p] # None /\ Triage[p] \in Nat
    /\ Earlier \in Seq(Document) /\ Coherent(Earlier)

VARIABLES
    phase,     \* where the nodes are: "search", "merge", "select", "fetch",
               \* "origins", then "finished"; or "raised"
    task,      \* the coroutine of each planned query
    status,    \* status of each query, and of the broadened query it may get
    searches,  \* meter.searches
    rejected,  \* gateway.rejected
    pending,   \* state.pending_hits, in order of arrival
    docs,      \* state.documents
    subq,      \* the open subquestion whose pages are being selected
    picked,    \* how many were selected for it
    chosen,    \* selected: documents that still have to get an origin
    fetching,  \* of these, the ones whose text is being fetched
    found      \* history: the hits the queries received

searching  == <<task, status, searches, rejected, found>>
processing == <<docs, subq, picked, chosen, fetching>>
vars == <<phase, searching, pending, processing>>

-----------------------------------------------------------------------------
(* A coroutine: the providers (their places in the chain) it is still to ask, and  *)
(* the one it asks.                                                               *)
NewTask == [pc |-> "queued", broad |-> FALSE, todo |-> {}, at |-> 0,
            attempt |-> 0, auth |-> FALSE, empty |-> FALSE]

Init ==
    /\ phase = "search"
    /\ task = [q \in Index |-> NewTask]
    /\ status = [q \in Index |-> [planned |-> "planned", broadened |-> "absent"]]
    /\ searches = Spent
    /\ rejected = {}
    /\ pending = <<>>
    /\ docs = Earlier
    /\ subq = 1 /\ picked = 0 /\ chosen = <<>> /\ fetching = {}
    /\ found = {}

\* Mutant: a broadened query is taken for the planned one.
Kind_Planned(t) == "planned"
\* Mutant: one search more than the budget.
SearchesLeft_OffByOne == IF searches <= MaxSearches THEN MaxSearches - searches + 1 ELSE 0
\* Mutant: a broadened query keeps its slot of the semaphore while it waits for one.
Holding_Broadened(t) == t.pc \in {"lookup", "asking", "backoff", "failing", "moving"} \/ (t.pc = "queued" /\ t.broad)
Kind(t)       == IF t.broad THEN "broadened" ELSE "planned"
SearchesLeft  == IF searches < MaxSearches THEN MaxSearches - searches ELSE 0
Holding(t)    == t.pc \in {"lookup", "asking", "backoff", "failing", "moving"}
FreeSlot      == Cardinality({q \in Index : Holding(task[q])}) < MaxParallel
Dead(t)       == [t EXCEPT !.pc = "done"]

(* A logical search asks the providers not rejected when it starts, in the order  *)
(* of the chain, but Brave first for every third query when it is one of two.     *)
Live == {i \in DOMAIN Chain : Chain[i] \notin rejected}
Before(q, i, j) ==
    IF Len(Chain) = 2 /\ q % 3 = 0 /\ Brave \in {Chain[i], Chain[j]} THEN Chain[i] = Brave ELSE i < j
Ask(q, t) ==
    \E i \in t.todo :
        /\ \A j \in t.todo \ {i} : Before(q, i, j)
        /\ task' = [task EXCEPT ![q] = [t EXCEPT !.pc = "lookup", !.todo = @ \ {i}, !.at = i]]

(* run(): the semaphore is taken, the budget checked, and the search charged     *)
(* before its first await.                                                       *)
SkipQuery(q) ==
    /\ task[q].pc = "queued" /\ FreeSlot /\ SearchesLeft = 0
    /\ status' = [status EXCEPT ![q][Kind(task[q])] = "skipped_budget"]
    /\ task' = [task EXCEPT ![q] = Dead(@)]
    /\ UNCHANGED <<phase, searches, rejected, pending, processing, found>>

StartQuery(q) ==
    /\ task[q].pc = "queued" /\ FreeSlot /\ SearchesLeft > 0
    /\ searches' = searches + 1
    /\ IF Live # {}
       THEN /\ Ask(q, [task[q] EXCEPT !.todo = Live, !.empty = FALSE])
            /\ UNCHANGED <<phase, status>>
       ELSE /\ task' = [task EXCEPT ![q] = Dead(@)]
            /\ phase' = IF Chain # <<>> THEN "raised" ELSE phase
            /\ status' = IF Chain = <<>> THEN [status EXCEPT ![q][Kind(task[q])] = "failed"] ELSE status
    /\ UNCHANGED <<rejected, pending, processing, found>>

(* A search with hits: the query is done and its hits join the pending ones.     *)
Receive(q) ==
    /\ status' = [status EXCEPT ![q][Kind(task[q])] = "done"]
    /\ pending' = pending \o [i \in DOMAIN HitsOf[q] |-> [url |-> HitsOf[q][i].url,
                     full |-> HitsOf[q][i].full, query |-> q, kind |-> Kind(task[q])]]
    /\ found' = found \cup {[url |-> HitsOf[q][i].url, query |-> q] : i \in DOMAIN HitsOf[q]}
    /\ task' = [task EXCEPT ![q] = Dead(@)]
    /\ UNCHANGED <<phase, searches, rejected, processing>>

(* The cache is read first; an entry without hits does not spare the call.       *)
CacheHit(q)  == task[q].pc = "lookup" /\ HitsOf[q] # <<>> /\ Receive(q)
CacheMiss(q) ==
    /\ task[q].pc = "lookup"
    /\ task' = [task EXCEPT ![q].pc = "asking", ![q].attempt = 1]
    /\ UNCHANGED <<phase, status, searches, rejected, pending, processing, found>>

Found(q) == task[q].pc = "asking" /\ HitsOf[q] # <<>> /\ Receive(q)
FindsNothing(q) ==
    /\ task[q].pc = "asking"
    /\ task' = [task EXCEPT ![q].pc = "moving", ![q].empty = TRUE]
    /\ UNCHANGED <<phase, status, searches, rejected, pending, processing, found>>

(* A provider error: 401/403 and key errors reject the key; 429, 408, 5xx and    *)
(* timeouts are retried; 432/433 and other refusals are not.                     *)
KeyRejected     == [auth |-> TRUE, retryable |-> FALSE]
Refused         == [auth |-> FALSE, retryable |-> FALSE]
MayPass         == [auth |-> FALSE, retryable |-> TRUE]
StatusErrors    == {KeyRejected, Refused, MayPass}
TransportErrors == {MayPass}
Errors          == StatusErrors \cup TransportErrors
AskFails(q) ==
    /\ task[q].pc = "asking"
    /\ \E error \in Errors :
         task' = [task EXCEPT ![q].pc = IF error.retryable /\ task[q].attempt < Retries + 1
                                        THEN "backoff" ELSE "failing",
                              ![q].auth = error.auth]
    /\ UNCHANGED <<phase, status, searches, rejected, pending, processing, found>>
AskAgain(q) ==
    /\ task[q].pc = "backoff"
    /\ task' = [task EXCEPT ![q].pc = "asking", ![q].attempt = @ + 1]
    /\ UNCHANGED <<phase, status, searches, rejected, pending, processing, found>>

(* A 2xx reply whose body is not JSON is no provider error: it leaves search().  *)
NotJson(q) ==
    /\ task[q].pc = "asking"
    /\ phase' = "raised"
    /\ task' = [task EXCEPT ![q] = Dead(@)]
    /\ UNCHANGED <<status, searches, rejected, pending, processing, found>>

(* The error reaches search() after the event that reported it, and is recorded. *)
GiveUp(q) ==
    /\ task[q].pc = "failing"
    /\ rejected' = IF task[q].auth THEN rejected \cup {Chain[task[q].at]} ELSE rejected
    /\ task' = [task EXCEPT ![q].pc = "moving", ![q].empty = FALSE]
    /\ UNCHANGED <<phase, status, searches, pending, processing, found>>

AllRejected == Chain # <<>> /\ ToSet(Chain) \subseteq rejected

(* After an empty outcome, one broadened query, which queues for a slot again.   *)
Broadened(q, t) == ~t.broad /\ t.empty /\ q \in Broadens /\ SearchesLeft > 0

(* The chain is used up: every key rejected by now stops the run, otherwise the  *)
(* query is empty or failed, as its last provider was.                           *)
EndOfChain(q, t) ==
    LET result == IF t.empty THEN "empty" ELSE "failed" IN
    IF AllRejected
    THEN /\ phase' = "raised"
         /\ task' = [task EXCEPT ![q] = Dead(t)]
         /\ UNCHANGED status
    ELSE /\ UNCHANGED phase
         /\ status' = [status EXCEPT ![q] =
               IF t.broad THEN [@ EXCEPT !.broadened = result]
               ELSE [planned |-> result,
                     broadened |-> IF Broadened(q, t) THEN "planned" ELSE "absent"]]
         /\ task' = [task EXCEPT ![q] =
               IF Broadened(q, t) THEN [NewTask EXCEPT !.broad = TRUE] ELSE Dead(t)]

(* The next turn of the loop over the providers, once the last one is recorded.  *)
TryNext(q) ==
    /\ task[q].pc = "moving"
    /\ IF task[q].todo # {} THEN Ask(q, task[q]) /\ UNCHANGED <<phase, status>>
       ELSE EndOfChain(q, task[q])
    /\ UNCHANGED <<searches, rejected, pending, processing, found>>

Run(q) ==
    \/ SkipQuery(q) \/ StartQuery(q) \/ CacheHit(q) \/ CacheMiss(q) \/ Found(q)
    \/ FindsNothing(q) \/ AskFails(q) \/ AskAgain(q) \/ NotJson(q) \/ GiveUp(q) \/ TryNext(q)

(* gather() returns when every query has; a query that raised ends the node at   *)
(* once and leaves the other coroutines running.                                 *)
Gathered ==
    /\ phase = "search" /\ \A q \in Index : task[q].pc = "done"
    /\ phase' = "merge"
    /\ UNCHANGED <<searching, pending, processing>>

-----------------------------------------------------------------------------
(* process_results, a step per turn of its loops; nothing else runs in between   *)
(* but the fetches, which wait for one another only at their end.                *)

\* Mutant: a page that is known is skipped.
Merged_SkipsKnown(held, hit) ==
    IF Page[hit.url] = None \/ \E i \in DOMAIN held : held[i].page = Page[hit.url] THEN held
    ELSE Append(held, [page |-> Page[hit.url], subqs |-> {Queries[hit.query]},
                       queries |-> {<<hit.query, hit.kind>>},
                       text |-> IF hit.full THEN Text[Page[hit.url]] ELSE None, hash |-> None,
                       selected |-> FALSE, origin |-> 0, indexed |-> FALSE])
(* The documents after a hit: a page that is known takes over the subquestion,   *)
(* the query and a text it lacked.                                               *)
Merged(held, hit) ==
    LET page == Page[hit.url]
        id   == <<hit.query, hit.kind>>
        text == IF hit.full THEN Text[page] ELSE None
    IN IF page = None THEN held
       ELSE IF \E i \in DOMAIN held : held[i].page = page
       THEN [i \in DOMAIN held |->
                IF held[i].page # page THEN held[i]
                ELSE [held[i] EXCEPT !.subqs = @ \cup {Queries[hit.query]}, !.queries = @ \cup {id},
                                     !.text = IF @ = None THEN text ELSE @]]
       ELSE Append(held, [page |-> page, subqs |-> {Queries[hit.query]}, queries |-> {id},
                          text |-> text, hash |-> None,
                          selected |-> FALSE, origin |-> 0, indexed |-> FALSE])

MergeHit ==
    /\ phase = "merge" /\ pending # <<>>
    /\ docs' = Merged(docs, Head(pending))
    /\ pending' = Tail(pending)
    /\ UNCHANGED <<phase, searching, subq, picked, chosen, fetching>>
AllMerged ==
    /\ phase = "merge" /\ pending = <<>>
    /\ phase' = "select"
    /\ UNCHANGED <<searching, pending, processing>>

(* Triage: per subquestion, the best unread pages of its own, at most TopK.  A   *)
(* page already chosen for an earlier subquestion leaves the list.  Ties go by   *)
(* the document's id, a string: below ten documents in the order of the numbers. *)
Unread(s) == {i \in DOMAIN docs : /\ s \in docs[i].subqs
                                  /\ ~docs[i].selected
                                  /\ Triage[docs[i].page] >= 15}
Better(i, j) ==
    \/ Triage[docs[i].page] > Triage[docs[j].page]
    \/ Triage[docs[i].page] = Triage[docs[j].page] /\ i < j

SelectPage ==
    /\ phase = "select" /\ subq <= Len(OpenSubqs) /\ picked < TopK
    /\ \E i \in Unread(OpenSubqs[subq]) :
          /\ \A j \in Unread(OpenSubqs[subq]) \ {i} : Better(i, j)
          /\ docs' = [docs EXCEPT ![i].selected = TRUE]
          /\ chosen' = Append(chosen, i)
    /\ picked' = picked + 1
    /\ UNCHANGED <<phase, searching, pending, subq, fetching>>
NextSubquestion ==
    /\ phase = "select" /\ subq <= Len(OpenSubqs)
    /\ picked = TopK \/ Unread(OpenSubqs[subq]) = {}
    /\ subq' = subq + 1 /\ picked' = 0
    /\ UNCHANGED <<phase, searching, pending, docs, chosen, fetching>>
AllSelected ==
    /\ phase = "select" /\ subq > Len(OpenSubqs)
    /\ fetching' = {i \in ToSet(chosen) : docs[i].text = None}
    /\ phase' = "fetch"
    /\ UNCHANGED <<searching, pending, docs, subq, picked, chosen>>

(* ContentFetcher.fetch: the text, or after its retries nothing; the snippet then *)
(* stands for the text, if there is one.                                          *)
Fetched(page) == {Text[page], None}
FetchPage(i) ==
    /\ phase = "fetch"
    /\ \E text \in Fetched(docs[i].page) :
          docs' = [docs EXCEPT ![i].text = IF text = None THEN Snippet[docs[i].page] ELSE text]
    /\ fetching' = fetching \ {i}
    /\ UNCHANGED <<phase, searching, pending, subq, picked, chosen>>
AllFetched ==
    /\ phase = "fetch" /\ fetching = {}
    /\ phase' = "origins"
    /\ UNCHANGED <<searching, pending, processing>>

(* OriginIndex.assign, in the order of selection: the origin of an identical     *)
(* text, else that of the first near-duplicate in the similarity index, else its *)
(* own.  A text with an identical one is known by its hash alone.  The index is   *)
(* restored from the hashes of the documents, so it holds what earlier rounds     *)
(* assigned, and not a text that a page got after its origin.                     *)
ReadAs(i) ==
    IF docs[i].text # None THEN docs[i].text
    ELSE IF Snippet[docs[i].page] # None THEN Snippet[docs[i].page]
    ELSE Title[docs[i].page]
Copies(i)  == {j \in DOMAIN docs : docs[j].origin # 0 /\ docs[j].hash = ReadAs(i)}
Similar(i) == {j \in DOMAIN docs : docs[j].indexed /\ <<docs[j].hash, ReadAs(i)>> \in Near}
\* Mutant: only near-duplicates are looked up.
Origins_NoHash(i) ==
    IF Similar(i) # {} THEN {docs[j].origin : j \in {h \in Similar(i) : \A k \in Similar(i) : h <= k}}
    ELSE {i}
Origins(i) ==
    IF Copies(i) # {} THEN {docs[j].origin : j \in Copies(i)}
    ELSE IF Similar(i) # {} THEN {docs[j].origin : j \in {h \in Similar(i) : \A k \in Similar(i) : h <= k}}
    ELSE {i}
AssignOrigin ==
    /\ phase = "origins" /\ chosen # <<>>
    /\ \E origin \in Origins(Head(chosen)) :
          docs' = [docs EXCEPT ![Head(chosen)].origin = origin,
                               ![Head(chosen)].hash = ReadAs(Head(chosen)),
                               ![Head(chosen)].indexed = (Copies(Head(chosen)) = {})]
    /\ chosen' = Tail(chosen)
    /\ UNCHANGED <<phase, searching, pending, subq, picked, fetching>>
Finish ==
    /\ phase = "origins" /\ chosen = <<>>
    /\ phase' = "finished"
    /\ UNCHANGED <<searching, pending, processing>>

ProcessResults ==
    \/ MergeHit \/ AllMerged \/ SelectPage \/ NextSubquestion \/ AllSelected
    \/ \E i \in fetching : FetchPage(i)
    \/ AllFetched \/ AssignOrigin \/ Finish

Ended == phase \in {"finished", "raised"} /\ \A q \in Index : task[q].pc = "done"

Progress == (\E q \in Index : Run(q)) \/ Gathered \/ ProcessResults

Next == Progress \/ (Ended /\ UNCHANGED vars)

(* Requests time out and backoffs end, and the event loop runs what is ready:    *)
(* while some coroutine can step, one does.                                      *)
Spec == Init /\ [][Next]_vars /\ WF_vars(Progress)

-----------------------------------------------------------------------------
(* The budget of searches is a hard limit, although concurrent queries check and *)
(* charge it: every one is charged before another can look at the meter.         *)
BudgetNeverOvershot == searches <= (IF Spent > MaxSearches THEN Spent ELSE MaxSearches)

(* A node that ends without raising has settled every query it planned or        *)
(* broadened, and every query that is charged for is settled exactly once.       *)
Settled == {"done", "empty", "failed"}
SettledQueries == {x \in Index \X Kinds : status[x[1]][x[2]] \in Settled}
EveryQuerySettled ==
    phase \notin {"search", "raised"} =>
        /\ \A q \in Index : status[q].planned # "planned" /\ status[q].broadened # "planned"
        /\ searches = Spent + Cardinality(SettledQueries)

(* Whatever the order in which concurrent searches answer, each page found is    *)
(* one document, which knows every subquestion and query that found it.          *)
Known(hit) ==
    \E i \in DOMAIN docs : /\ docs[i].page = Page[hit.url]
                           /\ Queries[hit.query] \in docs[i].subqs
                           /\ \E kind \in Kinds : <<hit.query, kind>> \in docs[i].queries
NoHitLost ==
    phase \in {"select", "fetch", "origins", "finished"} =>
        /\ OnePerPage(docs)
        /\ \A hit \in found : Page[hit.url] = None \/ Known(hit)

(* Copies count once: pages read as the same text have one origin, and an origin *)
(* is named after a document that is its own origin.  Every page that was        *)
(* selected has one when the next node reads it.                                 *)
CopiesShareOrigin == phase = "finished" => Coherent(docs)

(* The nodes end, and with them every coroutine: the broadened queries wait for  *)
(* slots of the semaphore that no waiting query holds.                           *)
RoundEnds == <>(phase \in {"finished", "raised"} /\ \A q \in Index : task[q].pc = "done")
=============================================================================
