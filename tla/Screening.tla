----------------------------- MODULE Screening ------------------------------
(***************************************************************************)
(* The watchlists (services/watchlist_sync.py) and who reads them: the     *)
(* screening endpoint with its cache (routers/screening.py) and the        *)
(* nightly re-screening of accounts.  Every process runs the daily job;    *)
(* nothing keeps two from running at once.  How similar two names are is   *)
(* left out: a name matches itself.                                        *)
(***************************************************************************)
EXTENDS Naturals, FiniteSets

CONSTANTS
  Name,        \* names on the lists or of customers
  Feed,        \* feeds downloaded: OFAC, UN, EU
  Fallback,    \* Fallback[f]: the data set in the code for when f fails
  Vendor,      \* documents that World-Check and Dow Jones always yield
  BuiltIn,     \* SANCTIONS_BASELINE, searched without an index
  Cleared,     \* those with a disposition that suppresses SANCTIONS_HIT
  Job,         \* processes that synchronise
  Query,       \* requests that screen
  Customers,   \* accounts, each named by its owner's name
  Batch,       \* LIMIT of the re-screening
  MaxHour,     \* bound: hours
  MaxMishaps   \* bound: failures

ASSUME ScreeningAssumption ==
  /\ BuiltIn \cup Cleared \cup Customers \subseteq Name
  /\ Fallback \in [Feed -> SUBSET Name] /\ Vendor \subseteq Name \X {"sanctions", "pep"}
  /\ {Batch, MaxHour, MaxMishaps} \subseteq Nat

VARIABLES
  hour,
  lists,     \* lists[f]: names that f has listed since
  docs,      \* documents <<name, index>>
  visible,   \* those a search sees
  results,   \* screening:combined:*, entries [name, found, at, overlapped]
  job,       \* job[j]: the step of a synchronisation and what it has in hand
  query,     \* query[q]: a request and how far it is
  synced,    \* synced[d]: hour a synchronisation with d in it was over
  escalated, \* accounts set to EDD_REQUIRED
  overlooked, \* names synced before and answered "clean" for no reason below
  unflagged, \* sanctioned accounts a re-screening left as they were (history)
  mishaps,   \* kinds of failure so far (history)
  failures   \* how many there were

mishapVars == <<mishaps, failures>>
screenVars == <<hour, lists, docs, visible, results, job, query, synced,
                escalated, overlooked, unflagged, mishapVars>>
indexVars  == <<docs, visible>>
accountVars == <<escalated, unflagged>>
answerVars == <<query, overlooked>>

Duty(step, got, todo, rows, hits, aborted) ==
  [step |-> step, got |-> got, todo |-> todo, rows |-> rows, hits |-> hits, aborted |-> aborted]
NoJob == Duty(0, {}, {}, {}, {}, FALSE)
Search(at, n, since, found, overlapped) ==
  [at |-> at, name |-> n, since |-> since, found |-> found, overlapped |-> overlapped]
NotYet == 99
NoQuery == Search("idle", "", NotYet, FALSE, FALSE)

Index == {"sanctions", "pep"}
Document == Name \X Index

(* The indices are empty before the first synchronisation.                 *)
ScreenInit ==
  /\ hour = 0 /\ lists = Fallback
  /\ docs = {} /\ visible = {} /\ results = {}
  /\ job = [j \in Job |-> NoJob] /\ query = [q \in Query |-> NoQuery]
  /\ synced = [d \in Document |-> NotYet]
  /\ escalated = {}
  /\ overlooked = {} /\ unflagged = {} /\ mishaps = {} /\ failures = 0

Mishap(what) ==
  failures < MaxMishaps /\ failures' = failures + 1 /\ mishaps' = mishaps \cup {what}

(* What a search of an index finds: what it shows, where it can be asked,  *)
(* and for sanctions the data set in the code besides.  Both also read     *)
(* pep_entities, a table that nothing in the repository fills.             *)
Finds(index, up) ==
  (IF up THEN {n \in Name : <<n, index>> \in visible} ELSE {})
    \cup (IF index = "sanctions" THEN BuiltIn ELSE {})

(* The hour from which a name has been in one of the indices.              *)
Since(n) ==
  LET s == synced[<<n, "sanctions">>]  p == synced[<<n, "pep">>] IN IF s <= p THEN s ELSE p

-----------------------------------------------------------------------------
(* sync_all_watchlists, in this order.  Variants: the cache is emptied     *)
(* first; the indices are not refreshed.                                   *)
StepsCacheFirst == <<"fetch", "refresh", "scan", "index", "read", "rescreen">>
StepsUnrefreshed == <<"fetch", "index", "scan", "read", "rescreen">>
Steps == <<"fetch", "index", "refresh", "scan", "read", "rescreen">>

Reading == CHOOSE i \in DOMAIN Steps : Steps[i] = "read"
On(j, step) == job[j].step \in DOMAIN Steps /\ Steps[job[j].step] = step
Takes(j, duty) == job' = [job EXCEPT ![j] = duty]
Onwards(j) == Takes(j, Duty(job[j].step + 1, job[j].got, {}, job[j].rows, job[j].hits, job[j].aborted))
Left(j, todo, hits, aborted) ==
  Takes(j, Duty(job[j].step, job[j].got, todo, job[j].rows, hits, aborted))
Asks(q, search) == query' = [query EXCEPT ![q] = search]

SyncStart(j) ==
  /\ job[j] = NoJob /\ Takes(j, Duty(1, {}, {}, {}, {}, FALSE))
  /\ query' = [q \in Query |-> LET r == query[q] IN
                 IF r.at = "store" THEN Search("store", r.name, r.since, r.found, ~r.found) ELSE r]
  /\ UNCHANGED <<hour, lists, indexVars, results, overlooked, synced,
                 accountVars, mishapVars>>

(* A feed that fails is replaced by its data set in the code, each for     *)
(* itself; what the feeds list is of the sanctions index, what the vendors *)
(* do of either.                                                           *)
Fetched(live) ==
  Vendor \cup ((UNION {IF f \in live THEN lists[f] ELSE Fallback[f] : f \in Feed}) \X {"sanctions"})

Fetch(j) ==
  /\ On(j, "fetch")
  /\ \E live \in SUBSET Feed :
       Takes(j, Duty(job[j].step + 1, Fetched(live), Fetched(live), {}, {}, FALSE))
  /\ UNCHANGED <<hour, lists, indexVars, results, answerVars, synced,
                 accountVars, mishapVars>>

(* Documents are added or overwritten one by one, never removed, and one   *)
(* that fails is logged.                                                   *)
IndexDocument(j) ==
  /\ On(j, "index")
  /\ IF job[j].todo = {} THEN
       /\ Onwards(j)
       /\ UNCHANGED <<docs, mishapVars>>
     ELSE \E d \in job[j].todo :
       /\ Left(j, job[j].todo \ {d}, job[j].hits, job[j].aborted)
       /\ \/ docs' = docs \cup {d} /\ UNCHANGED mishapVars
          \/ Mishap("index") /\ UNCHANGED docs
  /\ UNCHANGED <<hour, lists, visible, results, answerVars, synced, accountVars>>

RefreshAll(j) ==
  /\ On(j, "refresh")
  /\ \/ visible' = docs /\ UNCHANGED mishapVars
     \/ Mishap("index") /\ UNCHANGED visible
  /\ Onwards(j)
  /\ UNCHANGED <<hour, lists, docs, results, answerVars, synced, accountVars>>

(* _invalidate_screening_cache: SCAN returns every key that is there from  *)
(* start to end, and may return those set meanwhile.  Then: "SYNCED".      *)
Scan(j) ==
  /\ On(j, "scan") /\ results' \in SUBSET results
  /\ IF results' = {} THEN UNCHANGED mishapVars ELSE Mishap("scan")
  /\ synced' = [d \in Document |->
                  IF d \in job[j].got /\ hour < synced[d] THEN hour ELSE synced[d]]
  /\ Onwards(j)
  /\ UNCHANGED <<hour, lists, indexVars, answerVars, accountVars>>

-----------------------------------------------------------------------------
(* trigger_ongoing_cdd_rescreening: some accounts of a tenant, or of all;  *)
(* where row level security is in force, the daily job, which names no     *)
(* tenant, sees none.                                                      *)
RescreenRead(j) ==
  /\ On(j, "read")
  /\ \E rows \in SUBSET Customers :
       /\ \/ Cardinality(rows) = Batch
          \/ rows = Customers /\ Cardinality(Customers) < Batch
          \/ rows = {}
       /\ Takes(j, Duty(job[j].step + 1, job[j].got, rows, rows, {}, FALSE))
  /\ UNCHANGED <<hour, lists, indexVars, results, answerVars, synced,
                 accountVars, mishapVars>>

(* perform_sanctions_search alone, account by account, in one transaction, *)
(* which an error aborts while the loop goes on.                           *)
Rescreen(j) ==
  /\ On(j, "rescreen")
  /\ \E n \in job[j].todo :
       \/ /\ \E up \in BOOLEAN :
               /\ IF up THEN UNCHANGED mishapVars ELSE Mishap("es")
               /\ Left(j, job[j].todo \ {n},
                       job[j].hits \cup (({n} \cap Finds("sanctions", up)) \ Cleared), job[j].aborted)
       \/ Mishap("sql") /\ Left(j, job[j].todo \ {n}, job[j].hits, TRUE)
  /\ UNCHANGED <<hour, lists, indexVars, results, answerVars, synced, accountVars>>

RescreenCommit(j) ==
  /\ On(j, "rescreen") /\ job[j].todo = {}
  /\ escalated' = IF job[j].aborted THEN escalated ELSE escalated \cup job[j].hits
  /\ unflagged' = unflagged \cup
       {n \in job[j].rows \ (Cleared \cup escalated') : <<n, "sanctions">> \in job[j].got}
  /\ Takes(j, NoJob)
  /\ UNCHANGED <<hour, lists, indexVars, results, answerVars, synced, mishapVars>>

(* /watchlist/rescreen, against the lists as they are indexed.             *)
RescreenStart(j) ==
  /\ job[j] = NoJob
  /\ Takes(j, Duty(Reading, {d \in Document : synced[d] # NotYet}, {}, {}, {}, FALSE))
  /\ UNCHANGED <<hour, lists, indexVars, results, answerVars, synced,
                 accountVars, mishapVars>>

(* /watchlist/sync ends where the daily job goes on to re-screen.          *)
SyncOnly(j) ==
  /\ On(j, "read") /\ Takes(j, NoJob)
  /\ UNCHANGED <<hour, lists, indexVars, results, answerVars, synced,
                 accountVars, mishapVars>>

-----------------------------------------------------------------------------
(* search_sanctions_and_pep.                                               *)
Syncing == \E j \in Job : job[j].step \in 1 .. Reading - 1

(* Another search computed the entry while lists were being synchronised,  *)
(* and it is gone within the hour.                                         *)
Explained(overlapped, since) == overlapped /\ hour <= since + 1

Answers(n, found, since, overlapped) ==
  overlooked' = IF found \/ (since = NotYet) \/ Explained(overlapped, since)
                THEN overlooked ELSE overlooked \cup {n}

SearchStart(q, n) ==
  LET hits == {e \in results : e.name = n} IN
  /\ query[q] = NoQuery
  /\ \/ \E e \in hits : Answers(n, e.found, Since(n), e.overlapped) /\ UNCHANGED query
     \/ /\ hits = {}
        /\ Asks(q, Search("index", n, Since(n), FALSE, FALSE))
        /\ UNCHANGED overlooked
  /\ UNCHANGED <<hour, lists, indexVars, results, job, synced, accountVars, mishapVars>>

(* perform_sanctions_search, then perform_pep_search, each of which may    *)
(* fail to ask its index.  They are one step: nothing leaves an index, so  *)
(* what is clean in two steps was clean at the first.                      *)
SearchBoth(q) ==
  /\ query[q].at = "index"
  /\ \E up \in [Index -> BOOLEAN] :
       LET r == query[q]  found == \E i \in Index : r.name \in Finds(i, up[i]) IN
       /\ IF \A i \in Index : up[i] THEN UNCHANGED mishapVars ELSE Mishap("es")
       /\ Asks(q, Search("store", r.name, r.since, found, ~found /\ Syncing))
  /\ UNCHANGED <<hour, lists, indexVars, results, job, synced, accountVars, overlooked>>

(* SETEX, for an hour; without Redis the answer is not kept.               *)
SearchStore(q) ==
  LET n == query[q].name IN
  /\ query[q].at = "store"
  /\ \/ /\ results' = {e \in results : e.name # n} \cup
             {[name |-> n, found |-> query[q].found, at |-> hour,
               overlapped |-> query[q].overlapped]}
     \/ UNCHANGED results
  /\ Answers(n, query[q].found, query[q].since, query[q].overlapped)
  /\ Asks(q, NoQuery)
  /\ UNCHANGED <<hour, lists, indexVars, job, synced, accountVars, mishapVars>>

-----------------------------------------------------------------------------
(* The environment: lists grow (a name that leaves them stays in the       *)
(* indices), the engine refreshes its indices by itself, entries expire.   *)
Publish(f, n) ==
  /\ n \notin lists[f] /\ lists' = [lists EXCEPT ![f] = @ \cup {n}]
  /\ UNCHANGED <<hour, indexVars, results, job, answerVars, synced, accountVars, mishapVars>>

AutoRefresh ==
  /\ visible # docs /\ visible' = docs
  /\ UNCHANGED <<hour, lists, docs, results, job, answerVars, synced, accountVars, mishapVars>>

(* An entry of this hour expires in the next.                              *)
Outlives(e) == e.at + 1 >= hour + 1

Expire(e) ==
  /\ e.at < hour /\ results' = results \ {e}
  /\ UNCHANGED <<hour, lists, indexVars, job, answerVars, synced, accountVars, mishapVars>>

(* Requests take less than an hour.                                        *)
NextHour ==
  /\ hour < MaxHour /\ \A q \in Query : query[q] = NoQuery
  /\ hour' = hour + 1
  /\ results' = {e \in results : Outlives(e)}
  /\ UNCHANGED <<lists, indexVars, job, answerVars, synced, accountVars, mishapVars>>

ScreenNext ==
  \/ \E j \in Job : \/ SyncStart(j) \/ Fetch(j) \/ IndexDocument(j) \/ RefreshAll(j) \/ Scan(j)
                    \/ SyncOnly(j) \/ RescreenStart(j)
                    \/ RescreenRead(j) \/ Rescreen(j) \/ RescreenCommit(j)
  \/ \E q \in Query : \/ \E n \in Name : SearchStart(q, n)
                      \/ SearchBoth(q) \/ SearchStore(q)
  \/ \E f \in Feed, n \in Name : Publish(f, n)
  \/ \E e \in results : Expire(e)
  \/ AutoRefresh \/ NextHour

ScreenSpec == ScreenInit /\ [][ScreenNext]_screenVars

ScreenTypeOK ==
  /\ visible \subseteq docs /\ docs \subseteq Document /\ escalated \subseteq Customers
  /\ \A e \in results : e.name \in Name /\ e.at <= hour

(* Once a synchronisation that fetched a name, as sanctioned or as a PEP,  *)
(* is over, a search for it answers "clean" only out of an entry that      *)
(* another search computed while lists were being synchronised, and for no *)
(* more than the hour that such an entry lives                             *)
(* (watchlist_sync.py:367-378, screening.py:416-460).                      *)
ListedIsFound ==
  mishaps \subseteq {"sql"} => overlooked = {}

(* A re-screening escalates, of the accounts it reads, every one whose     *)
(* owner is sanctioned by the lists it has just fetched, or, asked for by  *)
(* itself, by those synchronised before, whatever other jobs and requests  *)
(* do meanwhile (watchlist_sync.py:464, 515).  An owner who is only a PEP  *)
(* is excepted: the code looks for nobody in the PEP index.                *)
ListedIsEscalated ==
  mishaps \subseteq {"scan"} => unflagged = {}

ListedIsTreated == ListedIsFound /\ ListedIsEscalated
=============================================================================
