------------------------------ MODULE AppsAdapter ------------------------------
(***************************************************************************)
(* chatgpt-apps/int-tools-mcp: an HTTP server with a thread for each       *)
(* request and one adapter.  search asks the memory and puts what it finds *)
(* into a cache by a stable id, item by item; fetch only looks there.  The *)
(* adapter's own runtime (mcp-intdata-cli.py) has no tools of the profile  *)
(* intbrain, so a search succeeds only with a runtime that is handed in.   *)
(***************************************************************************)
EXTENDS Naturals, FiniteSets

CONSTANTS
  Item,        \* items of the memory
  IdOf(_),     \* the first of source_hash, id, memory_id, context_id, session_id
  Thread,      \* requests at a time
  MaxChanges,  \* bound on how often the memory's items change
  MaxCalls     \* bound on the requests

Hit(i, v) == [item |-> i, version |-> v]
Nothing == Hit(0, 0)
NotShown == [id |-> "none", hit |-> Nothing]
Ids == {IdOf(i) : i \in Item}

VARIABLES
  runtime,   \* "own" or "injected"
  memory,    \* the version of each item
  cache,     \* by id: the item and version found last
  req,       \* by thread: place, what it found, what it has still to put
  listed,    \* what searches have answered since the server started
  shown,     \* what the last fetch answered
  calls,
  crossed    \* ids that two searches at a time, or one search for two items, put

vars == <<runtime, memory, cache, req, listed, shown, calls, crossed>>

Free == [pc |-> "free", found |-> {}, todo |-> {}]

Init ==
  /\ runtime \in {"own", "injected"}
  /\ memory = [i \in Item |-> 0]
  /\ cache = [x \in Ids |-> Nothing]
  /\ req = [t \in Thread |-> Free]
  /\ listed = {}
  /\ shown = NotShown
  /\ calls = 0
  /\ crossed = {}

Change(i) ==
  /\ memory[i] < MaxChanges
  /\ memory' = [memory EXCEPT ![i] = @ + 1]
  /\ UNCHANGED <<runtime, cache, req, listed, shown, calls, crossed>>

\* _call_tool, search: the internal call raises with the adapter's own runtime.
Search(t) ==
  /\ req[t].pc = "free" /\ calls < MaxCalls
  /\ calls' = calls + 1
  /\ \E found \in SUBSET Item :
       LET hits == {Hit(i, memory[i]) : i \in found}
       IN req' = IF runtime = "own" THEN req ELSE [req EXCEPT ![t] = [pc |-> "search", found |-> hits, todo |-> hits]]
  /\ UNCHANGED <<runtime, memory, cache, listed, shown, crossed>>

\* An item is not put again when its id is there.
PutItem_Once(t) ==
  \E hit \in req[t].todo :
    LET id == IdOf(hit.item)
    IN /\ cache' = [cache EXCEPT ![id] = IF @ = Nothing THEN hit ELSE @]
       /\ req' = [req EXCEPT ![t].todo = @ \ {hit}]
       /\ UNCHANGED <<runtime, memory, listed, shown, calls, crossed>>

\* _normalize_search_results: each item is put under its id.  Searches of other
\* threads put theirs in between.
PutItem(t) ==
  \E hit \in req[t].todo :
    LET id == IdOf(hit.item)
        waiting == UNION {req[u].todo : u \in Thread}
    IN /\ cache' = [cache EXCEPT ![id] = hit]
       /\ req' = [req EXCEPT ![t].todo = @ \ {hit}]
       /\ crossed' = IF \E h \in waiting \ {hit} : IdOf(h.item) = id
                     THEN crossed \cup {id} ELSE crossed
       /\ UNCHANGED <<runtime, memory, listed, shown, calls>>

AnswerSearch(t) ==
  /\ req[t].pc = "search" /\ req[t].todo = {}
  /\ listed' = listed \cup req[t].found
  /\ req' = [req EXCEPT ![t] = Free]
  /\ UNCHANGED <<runtime, memory, cache, shown, calls, crossed>>

\* fetch: what the cache has, or not found.
Fetch(t, id) ==
  /\ req[t].pc = "free" /\ calls < MaxCalls
  /\ calls' = calls + 1
  /\ shown' = [id |-> id, hit |-> cache[id]]
  /\ UNCHANGED <<runtime, memory, cache, req, listed, crossed>>

\* The server is started again: the cache begins empty.
Restart ==
  /\ cache' = [x \in Ids |-> Nothing]
  /\ req' = [t \in Thread |-> Free]
  /\ listed' = {} /\ shown' = NotShown /\ crossed' = {}
  /\ cache # cache'
  /\ UNCHANGED <<runtime, memory, calls>>

Next ==
  \/ \E i \in Item : Change(i)
  \/ \E t \in Thread : Search(t) \/ PutItem(t) \/ AnswerSearch(t) \/ \E id \in Ids : Fetch(t, id)
  \/ Restart

Spec == Init /\ [][Next]_vars

-----------------------------------------------------------------------------
\* What a search has listed is found from then on, and no search lists a newer
\* version of it than the cache has, unless searches that ran together, or one
\* search for two items, put that id; nothing is found with the own runtime.
FetchFaithful ==
  /\ \A h \in listed : cache[IdOf(h.item)] # Nothing
  /\ \A h \in listed : IdOf(h.item) \notin crossed =>
       LET kept == cache[IdOf(h.item)] IN kept.item # h.item \/ kept.version >= h.version
  /\ shown.hit # Nothing => runtime = "injected" /\ IdOf(shown.hit.item) = shown.id

-----------------------------------------------------------------------------
\* What is assumed of the constants.
Assumed == 0 \notin Item

\* What is in the cache, or has been, and what still goes there.
Put     == listed \cup UNION {req[t].found \ req[t].todo : t \in Thread}
Waiting == UNION {req[t].todo : t \in Thread}

\* The invariant: an item that waits is no older than what was put of it, unless
\* its id was crossed.
AllHits == [item : Item, version : Nat]
Types ==
  /\ runtime \in {"own", "injected"} /\ memory \in [Item -> Nat]
  /\ cache \in [Ids -> AllHits \cup {Nothing}]
  /\ req \in [Thread -> [pc : {"free", "search"}, found : SUBSET AllHits, todo : SUBSET AllHits]]
  /\ listed \subseteq AllHits
  /\ \A t \in Thread : req[t].pc = "free" => req[t] = Free
Versions == \A h \in Put \cup Waiting : h.version <= memory[h.item]
InCache == \A h \in Put : cache[IdOf(h.item)] # Nothing
Newest ==
  \A h \in Put : IdOf(h.item) \notin crossed =>
    LET kept == cache[IdOf(h.item)] IN kept.item # h.item \/ kept.version >= h.version
InOrder ==
  \A h \in Put, w \in Waiting :
    w.item = h.item /\ IdOf(h.item) \notin crossed => w.version >= h.version
Keyed ==
  /\ \A x \in Ids : cache[x] # Nothing => IdOf(cache[x].item) = x /\ runtime = "injected"
  /\ Waiting # {} => runtime = "injected"
Shown == shown.hit # Nothing => runtime = "injected" /\ IdOf(shown.hit.item) = shown.id
Safe == Types /\ Versions /\ InCache /\ Newest /\ InOrder /\ Keyed /\ Shown
=============================================================================
