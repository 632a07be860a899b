---------------------------- MODULE ProgramsProofs ----------------------------
(***************************************************************************)
(* Proofs about the programs of MCPrograms.  For each program that a       *)
(* property speaks of, its module has the inductive invariant Safe; here   *)
(* it is shown that Init has it, that every step keeps it and that it      *)
(* implies the property.  In a behaviour of another program the property   *)
(* says nothing, so a theorem is about the steps of its own programs.      *)
(***************************************************************************)
EXTENDS MCPrograms, FiniteSetTheorems, WellFoundedInduction, TLAPS

-----------------------------------------------------------------------------
(* The adapter of applications: v1 to v8 are runtime, memory, cache, req, listed,  *)
(* shown, calls and crossed of AppsAdapter.                                        *)

\* An adapter that has answered nothing.
LEMMA AppsInit == ASSUME Apps!Init PROVE Apps!Safe
BY DEF Apps!Init, Apps!Safe, Apps!Types, Apps!Versions, Apps!InCache, Apps!Newest, Apps!InOrder,
       Apps!Keyed, Apps!Shown, Apps!Put, Apps!Waiting, Apps!AllHits, Apps!Hit, Apps!Nothing, Apps!NotShown, Apps!Free

\* The steps that leave alone what was put and what waits.
LEMMA AppsSame ==
  ASSUME Apps!Safe, Apps!Types', Apps!Put' = Apps!Put, Apps!Waiting' = Apps!Waiting,
         \A i \in AppsItem : v2'[i] >= v2[i], UNCHANGED <<v1, v3, v8>>, Apps!Shown'
  PROVE  Apps!Safe'
<1>1. Apps!Put \subseteq Apps!AllHits /\ Apps!Waiting \subseteq Apps!AllHits
  BY DEF Apps!Safe, Apps!Types, Apps!Put, Apps!Waiting
<1>2. Apps!Versions'
  BY <1>1 DEF Apps!Safe, Apps!Versions, Apps!Types, Apps!AllHits
<1>3. Apps!InCache' /\ Apps!Newest' /\ Apps!InOrder' /\ Apps!Keyed'
  BY DEF Apps!Safe, Apps!InCache, Apps!Newest, Apps!InOrder, Apps!Keyed, Apps!Nothing, Apps!Hit
<1> QED BY <1>2, <1>3 DEF Apps!Safe

\* search finds the items as they are now.
LEMMA AppsSearch == ASSUME Apps!Safe, NEW t \in AppsThread, Apps!Search(t) PROVE Apps!Safe'
<1>1. PICK found \in SUBSET AppsItem :
        v4' = IF v1 = "own" THEN v4
              ELSE [v4 EXCEPT ![t] = [pc |-> "search", found |-> {Apps!Hit(i, v2[i]) : i \in found},
                                      todo |-> {Apps!Hit(i, v2[i]) : i \in found}]]
  BY DEF Apps!Search
<1>2. /\ UNCHANGED <<v1, v2, v3, v5, v6, v8>> /\ v4[t] = Apps!Free
  BY DEF Apps!Search, Apps!Safe, Apps!Types
<1>a. Apps!Shown'
  BY <1>2 DEF Apps!Safe, Apps!Shown, Apps!Nothing, Apps!Hit
<1>3. CASE v1 = "own"
  <2>1. v4' = v4
    BY <1>1, <1>3
  <2>2. Apps!Put' = Apps!Put /\ Apps!Waiting' = Apps!Waiting /\ Apps!Types'
    BY <1>2, <2>1 DEF Apps!Put, Apps!Waiting, Apps!Safe, Apps!Types, Apps!Ids, Apps!AllHits, Apps!Nothing, Apps!Hit, Apps!Free
  <2> QED BY <1>2, <2>2, <1>a, AppsSame DEF Apps!Safe, Apps!Types
<1>4. CASE v1 # "own"
  <2> DEFINE hits == {Apps!Hit(i, v2[i]) : i \in found}
  <2>1. v4' = [v4 EXCEPT ![t] = [pc |-> "search", found |-> hits, todo |-> hits]]
    BY <1>1, <1>4
  <2>2. hits \subseteq Apps!AllHits /\ \A h \in hits : h.version = v2[h.item] /\ h.item \in AppsItem
    BY DEF Apps!Hit, Apps!AllHits, Apps!Safe, Apps!Types
  <2> HIDE DEF hits
  <2>3. Apps!Types'
    BY <1>2, <2>1, <2>2 DEF Apps!Safe, Apps!Types, Apps!Ids, Apps!Nothing, Apps!Hit, Apps!AllHits, Apps!Free
  <2>4. Apps!Put' = Apps!Put /\ Apps!Waiting' = Apps!Waiting \cup hits
    BY <1>2, <2>1 DEF Apps!Put, Apps!Waiting, Apps!Free, Apps!Safe, Apps!Types
  <2>5. Apps!Versions'
    <3>1. \A h \in hits : h.version <= v2[h.item]
      BY <2>2 DEF Apps!Safe, Apps!Types
    <3> QED BY <1>2, <2>4, <3>1 DEF Apps!Versions, Apps!Safe
  <2>6. Apps!InCache' /\ Apps!Newest'
    BY <1>2, <2>4 DEF Apps!Safe, Apps!InCache, Apps!Newest, Apps!Nothing, Apps!Hit
  <2>7. Apps!InOrder'
    <3>1. \A h \in Apps!Put, w \in hits : w.item = h.item => w.version >= h.version
      BY <2>2 DEF Apps!Versions, Apps!Safe
    <3> QED BY <1>2, <2>4, <3>1 DEF Apps!InOrder, Apps!Safe
  <2>8. Apps!Keyed'
    BY <1>2, <1>4, <2>4 DEF Apps!Keyed, Apps!Safe, Apps!Types, Apps!Ids, Apps!Nothing, Apps!Hit
  <2> QED BY <2>3, <2>5, <2>6, <2>7, <2>8, <1>a DEF Apps!Safe
<1> QED BY <1>3, <1>4

\* _normalize_search_results: the cache gets the item, and what waits with the
\* same id and differs from it makes the id crossed.
LEMMA AppsPutItem == ASSUME Apps!Assumed, Apps!Safe, NEW t \in AppsThread, Apps!PutItem(t) PROVE Apps!Safe'
<1>1. PICK hit \in v4[t].todo :
        /\ v3' = [v3 EXCEPT ![AppsId(hit.item)] = hit]
        /\ v4' = [v4 EXCEPT ![t].todo = @ \ {hit}]
        /\ v8' = IF \E h \in Apps!Waiting \ {hit} : AppsId(h.item) = AppsId(hit.item)
                 THEN v8 \cup {AppsId(hit.item)} ELSE v8
        /\ UNCHANGED <<v1, v2, v5, v6>>
  BY DEF Apps!PutItem, Apps!Waiting
<1> DEFINE id == AppsId(hit.item)
<1>2. hit \in Apps!AllHits /\ hit \in Apps!Waiting /\ id \in Apps!Ids /\ hit # Apps!Nothing
  BY DEF Apps!Safe, Apps!Types, Apps!Waiting, Apps!AllHits, Apps!Ids, Apps!Assumed, Apps!Nothing, Apps!Hit
<1>3. Apps!Put \subseteq Apps!AllHits /\ Apps!Waiting \subseteq Apps!AllHits /\ v3 \in [Apps!Ids -> Apps!AllHits \cup {Apps!Nothing}]
  BY DEF Apps!Safe, Apps!Types, Apps!Put, Apps!Waiting
<1>4. Apps!Types'
  <2>1. v3' \in [Apps!Ids -> Apps!AllHits \cup {Apps!Nothing}]
    BY <1>1, <1>2, <1>3
  <2>2. v4[t] # Apps!Free /\ v4[t].pc # "free"
    BY DEF Apps!Safe, Apps!Types, Apps!Free
  <2>3. v4' \in [AppsThread -> [pc : {"free", "search"}, found : SUBSET Apps!AllHits, todo : SUBSET Apps!AllHits]]
    BY <1>1 DEF Apps!Safe, Apps!Types
  <2>4. \A u \in AppsThread : v4'[u].pc = "free" => v4'[u] = Apps!Free
    BY <1>1, <2>2 DEF Apps!Safe, Apps!Types
  <2> QED BY <1>1, <2>1, <2>3, <2>4 DEF Apps!Safe, Apps!Types
<1>5. Apps!Put' \subseteq Apps!Put \cup {hit} /\ Apps!Waiting' \subseteq Apps!Waiting
  BY <1>1 DEF Apps!Put, Apps!Waiting, Apps!Safe, Apps!Types
<1>6. /\ v8 \subseteq v8'
      /\ id \notin v8' => \A h \in Apps!Waiting : AppsId(h.item) = id => h = hit
  BY <1>1
<1>7. \A x \in Apps!Ids : v3'[x] = IF x = id THEN hit ELSE v3[x]
  BY <1>1, <1>3
<1>8. \A h \in Apps!AllHits : AppsId(h.item) \in Apps!Ids
  BY DEF Apps!AllHits, Apps!Ids
<1> HIDE DEF id
<1>9. Apps!Versions'
  BY <1>1, <1>2, <1>5 DEF Apps!Safe, Apps!Versions
<1>10. Apps!InCache'
  BY <1>2, <1>3, <1>5, <1>7, <1>8 DEF Apps!Safe, Apps!InCache, id, Apps!Nothing, Apps!Hit
<1>11. Apps!Newest'
  <2> SUFFICES ASSUME NEW h \in Apps!Put', AppsId(h.item) \notin v8'
               PROVE  v3'[AppsId(h.item)].item # h.item \/ v3'[AppsId(h.item)].version >= h.version
    BY DEF Apps!Newest
  <2>1. CASE h = hit
    BY <1>2, <1>7, <2>1 DEF id, Apps!AllHits
  <2>2. CASE h \in Apps!Put /\ AppsId(h.item) = id
    BY <1>2, <1>6, <1>7, <2>2 DEF Apps!Safe, Apps!InOrder
  <2>3. CASE h \in Apps!Put /\ AppsId(h.item) # id
    BY <1>3, <1>6, <1>7, <1>8, <2>3 DEF Apps!Safe, Apps!Newest
  <2> QED BY <1>5, <2>1, <2>2, <2>3
<1>12. Apps!InOrder'
  <2> SUFFICES ASSUME NEW h \in Apps!Put', NEW w \in Apps!Waiting', w.item = h.item, AppsId(h.item) \notin v8'
               PROVE  w.version >= h.version
    BY DEF Apps!InOrder
  <2>1. CASE h = hit
    BY <1>2, <1>5, <1>6, <2>1 DEF id, Apps!AllHits
  <2>2. CASE h \in Apps!Put
    BY <1>5, <1>6, <2>2 DEF Apps!Safe, Apps!InOrder
  <2> QED BY <1>5, <2>1, <2>2
<1>13. Apps!Keyed'
  BY <1>1, <1>2, <1>5, <1>7 DEF Apps!Safe, Apps!Keyed, id, Apps!Ids, Apps!Nothing, Apps!Hit
<1>14. Apps!Shown'
  BY <1>1 DEF Apps!Safe, Apps!Shown, Apps!Nothing, Apps!Hit
<1> QED BY <1>4, <1>9, <1>10, <1>11, <1>12, <1>13, <1>14 DEF Apps!Safe

\* The other steps: nothing is put and nothing comes to wait.
LEMMA AppsOther ==
  ASSUME Apps!Safe, \/ \E i \in AppsItem : Apps!Change(i)
                    \/ \E t \in AppsThread : Apps!AnswerSearch(t) \/ \E x \in Apps!Ids : Apps!Fetch(t, x)
                    \/ UNCHANGED <<v1, v2, v3, v4, v5, v6, v8>>
  PROVE  Apps!Safe'
<1>1. ASSUME NEW i \in AppsItem, Apps!Change(i) PROVE Apps!Safe'
  <2>1. UNCHANGED <<v1, v3, v4, v5, v6, v8>> /\ v2' = [v2 EXCEPT ![i] = @ + 1]
    BY <1>1 DEF Apps!Change
  <2>2. Apps!Types' /\ \A j \in AppsItem : v2'[j] >= v2[j]
    BY <2>1 DEF Apps!Safe, Apps!Types, Apps!Ids, Apps!Nothing, Apps!Hit, Apps!AllHits, Apps!Free
  <2>3. Apps!Put' = Apps!Put /\ Apps!Waiting' = Apps!Waiting /\ Apps!Shown'
    BY <2>1 DEF Apps!Put, Apps!Waiting, Apps!Shown, Apps!Safe, Apps!Nothing, Apps!Hit
  <2> QED BY <2>1, <2>2, <2>3, AppsSame
<1>2. ASSUME NEW t \in AppsThread, Apps!AnswerSearch(t) PROVE Apps!Safe'
  <2>1. /\ v4[t].todo = {} /\ v5' = v5 \cup v4[t].found /\ v4' = [v4 EXCEPT ![t] = Apps!Free]
        /\ UNCHANGED <<v1, v2, v3, v6, v8>>
    BY <1>2 DEF Apps!AnswerSearch
  <2>2. Apps!Types' /\ \A j \in AppsItem : v2'[j] >= v2[j]
    <3>1. Apps!Free \in [pc : {"free", "search"}, found : SUBSET Apps!AllHits, todo : SUBSET Apps!AllHits]
      BY DEF Apps!Free
    <3>2. v4' \in [AppsThread -> [pc : {"free", "search"}, found : SUBSET Apps!AllHits, todo : SUBSET Apps!AllHits]]
      BY <2>1, <3>1 DEF Apps!Safe, Apps!Types
    <3>3. v5' \subseteq Apps!AllHits
      BY <2>1 DEF Apps!Safe, Apps!Types
    <3>4. \A u \in AppsThread : v4'[u].pc = "free" => v4'[u] = Apps!Free
      BY <2>1 DEF Apps!Safe, Apps!Types
    <3> QED BY <2>1, <3>2, <3>3, <3>4 DEF Apps!Safe, Apps!Types
  <2>3. Apps!Put' = Apps!Put /\ Apps!Waiting' = Apps!Waiting
    BY <2>1 DEF Apps!Put, Apps!Waiting, Apps!Safe, Apps!Types, Apps!Free
  <2>4. Apps!Shown'
    BY <2>1 DEF Apps!Shown, Apps!Safe, Apps!Nothing, Apps!Hit
  <2> QED BY <2>1, <2>2, <2>3, <2>4, AppsSame
<1>3. ASSUME NEW t \in AppsThread, NEW x \in Apps!Ids, Apps!Fetch(t, x) PROVE Apps!Safe'
  <2>1. v6' = [id |-> x, hit |-> v3[x]] /\ UNCHANGED <<v1, v2, v3, v4, v5, v8>>
    BY <1>3 DEF Apps!Fetch
  <2>2. Apps!Types' /\ \A j \in AppsItem : v2'[j] >= v2[j]
    BY <2>1 DEF Apps!Safe, Apps!Types, Apps!Ids, Apps!Nothing, Apps!Hit, Apps!AllHits, Apps!Free
  <2>3. Apps!Put' = Apps!Put /\ Apps!Waiting' = Apps!Waiting
    BY <2>1 DEF Apps!Put, Apps!Waiting
  <2>4. Apps!Shown'
    BY <2>1 DEF Apps!Shown, Apps!Keyed, Apps!Safe, Apps!Nothing, Apps!Hit
  <2> QED BY <2>1, <2>2, <2>3, <2>4, AppsSame
<1>4. ASSUME UNCHANGED <<v1, v2, v3, v4, v5, v6, v8>> PROVE Apps!Safe'
  <2>1. Apps!Types' /\ \A j \in AppsItem : v2'[j] >= v2[j]
    BY <1>4 DEF Apps!Safe, Apps!Types, Apps!Ids, Apps!Nothing, Apps!Hit, Apps!AllHits, Apps!Free
  <2>2. Apps!Put' = Apps!Put /\ Apps!Waiting' = Apps!Waiting /\ Apps!Shown'
    BY <1>4 DEF Apps!Put, Apps!Waiting, Apps!Shown, Apps!Safe, Apps!Nothing, Apps!Hit
  <2> QED BY <1>4, <2>1, <2>2, AppsSame
<1> QED BY <1>1, <1>2, <1>3, <1>4

\* After a restart nothing is in the cache and nothing was listed.
LEMMA AppsRestart == ASSUME Apps!Safe, Apps!Restart PROVE Apps!Safe'
<1>1. /\ v3' = [x \in Apps!Ids |-> Apps!Nothing] /\ v4' = [t \in AppsThread |-> Apps!Free]
      /\ v5' = {} /\ v6' = Apps!NotShown /\ v8' = {} /\ UNCHANGED <<v1, v2>>
  BY DEF Apps!Restart
<1>2. Apps!Put' = {} /\ Apps!Waiting' = {}
  BY <1>1 DEF Apps!Put, Apps!Waiting, Apps!Free
<1>3. Apps!Types'
  BY <1>1 DEF Apps!Safe, Apps!Types, Apps!Ids, Apps!Nothing, Apps!Hit, Apps!AllHits, Apps!Free
<1> QED
  BY <1>1, <1>2, <1>3 DEF Apps!Safe, Apps!Versions, Apps!InCache, Apps!Newest, Apps!InOrder, Apps!Keyed, Apps!Shown,
     Apps!NotShown, Apps!Ids

\* search and fetch, for every number of items, ids, threads and requests:
\* what a search has listed, fetch finds.
THEOREM FetchIsFaithful == Spec => []FetchFaithful
<1> DEFINE Safe == program = "apps" => Apps!Safe
<1>1. Init => Safe
  BY AppsInit DEF Init
<1>2. ASSUME Safe, [Next]_vars PROVE Safe'
  <2> SUFFICES ASSUME program' = "apps" PROVE Apps!Safe'
    OBVIOUS
  <2>1. CASE Next
    <3>1. program = "apps" /\ Apps!Next
      BY <2>1 DEF Next
    <3> QED BY <1>2, <3>1, AppsAssumption, AppsSearch, AppsPutItem, AppsOther, AppsRestart DEF Apps!Next
  <2>2. CASE UNCHANGED vars
    BY <1>2, <2>2, AppsOther DEF vars
  <2> QED BY <1>2, <2>1, <2>2
<1>3. Safe => FetchFaithful
  <2> SUFFICES ASSUME Apps!Safe PROVE Apps!FetchFaithful
    BY DEF FetchFaithful
  <2>1. v5 \subseteq Apps!Put
    BY DEF Apps!Put
  <2> QED BY <2>1 DEF Apps!FetchFaithful, Apps!Safe, Apps!InCache, Apps!Newest, Apps!Shown
<1> QED BY <1>1, <1>2, <1>3, PTL DEF Spec

-----------------------------------------------------------------------------
(* The Firefox launcher: meta, pc, servers, strange and slip are v1 to v5. *)

\* No launcher has started yet.
LEMMA FirefoxInit == ASSUME Firefox!Init PROVE Firefox!Safe
BY DEF Firefox!Init, Firefox!Safe, Firefox!Types, Firefox!Spawned, Firefox!OneStarts, Firefox!Alone, Firefox!Named,
       Firefox!Starting

\* remove_stale_run_meta: a launcher that goes on is the only one, and there is
\* no server.
LEMMA FirefoxCheck ==
  ASSUME Firefox!Safe, NEW l \in FirefoxLaunchers, Firefox!Check(l) PROVE Firefox!Safe'
<1>1. /\ v2[l] = "new" /\ UNCHANGED <<v1, v3>> /\ v5' = (v5 \/ Firefox!Starting # {})
      /\ \E at \in {"refused", "spawn", "unlink"} : v2' = [v2 EXCEPT ![l] = at]
      /\ (v2'[l] # "refused" => \A p \in v1 : p \notin v3)
  BY DEF Firefox!Check, Firefox!Goto, Firefox!Alive, Firefox!Safe, Firefox!Types
<1>2. PICK at \in {"refused", "spawn", "unlink"} : v2' = [v2 EXCEPT ![l] = at]
  BY <1>1
<1>3. Firefox!Types'
  BY <1>1, <1>2 DEF Firefox!Safe, Firefox!Types
<1>4. Firefox!Spawned'
  BY <1>1, <1>2 DEF Firefox!Safe, Firefox!Types, Firefox!Spawned
<1>5. ASSUME ~v5' PROVE Firefox!OneStarts' /\ Firefox!Alone' /\ Firefox!Named'
  <2>1. ~v5 /\ Firefox!Starting = {}
    BY <1>1, <1>5 DEF Firefox!Safe, Firefox!Types
  <2>2. Firefox!Starting' \subseteq {l}
    BY <1>1, <1>2, <2>1 DEF Firefox!Safe, Firefox!Types, Firefox!Starting
  <2>3. \A s \in v3 : v1 = {s}
    BY <2>1 DEF Firefox!Safe, Firefox!Named
  <2>4. CASE at = "refused"
    <3>1. Firefox!Starting' = {}
      BY <1>1, <1>2, <2>1, <2>4 DEF Firefox!Safe, Firefox!Types, Firefox!Starting
    <3> QED BY <1>1, <2>3, <3>1 DEF Firefox!OneStarts, Firefox!Alone, Firefox!Named
  <2>5. CASE at # "refused"
    <3>1. v3 = {}
      BY <1>1, <1>2, <2>3, <2>5 DEF Firefox!Safe, Firefox!Types
    <3> QED BY <1>1, <2>2, <3>1 DEF Firefox!OneStarts, Firefox!Alone, Firefox!Named
  <2> QED BY <2>4, <2>5
<1> QED BY <1>3, <1>4, <1>5 DEF Firefox!Safe

\* The steps of the launcher that starts: it stays the only one, and so does its
\* server.
LEMMA FirefoxStarts ==
  ASSUME Firefox!Safe, NEW l \in FirefoxLaunchers,
         Firefox!Unlink(l) \/ Firefox!Stop(l) \/ Firefox!Spawn(l) \/ Firefox!Open(l) \/ Firefox!Write(l)
  PROVE  Firefox!Safe'
<1>1. /\ v2[l] \in {"unlink", "spawn", "open", "write"} /\ v5' = v5
      /\ \E at \in {"spawn", "done", "open", "write", "wait"} : v2' = [v2 EXCEPT ![l] = at]
      /\ v3' = v3 \/ (v3' = v3 \cup {l} /\ v2'[l] = "open")
      /\ v2'[l] = "done" => v3' = v3 /\ v2[l] = "spawn"
      /\ v2'[l] = "wait" => v3' = v3 /\ v1' = {l}
      /\ v2'[l] = "spawn" => v3' = v3 /\ v2[l] = "unlink"
  BY DEF Firefox!Unlink, Firefox!Stop, Firefox!Spawn, Firefox!Open, Firefox!Write, Firefox!Goto, Firefox!Safe,
         Firefox!Types
<1>2. Firefox!Types'
  BY <1>1 DEF Firefox!Safe, Firefox!Types
<1>3. Firefox!Spawned'
  BY <1>1 DEF Firefox!Safe, Firefox!Types, Firefox!Spawned
<1>4. ASSUME ~v5' PROVE Firefox!OneStarts' /\ Firefox!Alone' /\ Firefox!Named'
  <2>1. l \in Firefox!Starting /\ ~v5
    BY <1>1, <1>4 DEF Firefox!Starting
  <2>2. Firefox!Starting = {l} /\ v3 \subseteq {l}
    BY <2>1 DEF Firefox!Safe, Firefox!OneStarts, Firefox!Alone
  <2>3. Firefox!Starting' = IF v2'[l] \in {"done", "wait"} THEN {} ELSE {l}
    BY <1>1, <2>2 DEF Firefox!Safe, Firefox!Types, Firefox!Starting
  <2>4. v3' \subseteq {l}
    BY <1>1, <2>2
  <2>5. v2'[l] = "done" => v3' = {}
    BY <1>1, <2>2 DEF Firefox!Safe, Firefox!Spawned
  <2> QED BY <1>1, <2>3, <2>4, <2>5 DEF Firefox!OneStarts, Firefox!Alone, Firefox!Named
<1> QED BY <1>2, <1>3, <1>4 DEF Firefox!Safe

\* A launcher ends: it takes only its own run file away, and leaves no server
\* without one.
LEMMA FirefoxEnds ==
  ASSUME Firefox!Safe, NEW l \in FirefoxLaunchers,
         Firefox!Finish(l) \/ Firefox!Interrupt(l) \/ Firefox!Die(l)
  PROVE  Firefox!Safe'
<1>1. /\ v2[l] \in {"unlink", "spawn", "open", "write", "wait"} /\ v3' = v3
      /\ v2' = [v2 EXCEPT ![l] = "done"] /\ v5' \in BOOLEAN /\ (v5 => v5')
  BY DEF Firefox!Finish, Firefox!Interrupt, Firefox!Die, Firefox!Goto, Firefox!Safe, Firefox!Types
<1>2. Firefox!Types'
  BY <1>1 DEF Firefox!Safe, Firefox!Types
<1>3. Firefox!Spawned'
  BY <1>1 DEF Firefox!Safe, Firefox!Types, Firefox!Spawned
<1>4. Firefox!Starting' = Firefox!Starting \ {l}
  BY <1>1 DEF Firefox!Safe, Firefox!Types, Firefox!Starting
<1>5. ASSUME ~v5' PROVE Firefox!OneStarts' /\ Firefox!Alone' /\ Firefox!Named'
  <2>1. Firefox!OneStarts /\ Firefox!Alone /\ Firefox!Named
    BY <1>1, <1>5 DEF Firefox!Safe
  <2>2. Firefox!OneStarts' /\ Firefox!Alone'
    BY <1>1, <1>4, <2>1 DEF Firefox!OneStarts, Firefox!Alone
  <2>3. CASE v1' = v1 /\ (v2[l] \in {"open", "write"} => l \notin v3)
    <3>1. \A s \in v3 : s = l => s \notin Firefox!Starting
      BY <2>3 DEF Firefox!Safe, Firefox!Spawned, Firefox!Starting
    <3>2. \A s \in v3 : s \in Firefox!Starting' \/ v1 = {s}
      BY <1>4, <2>1, <3>1 DEF Firefox!Named
    <3> QED BY <1>1, <2>2, <2>3, <3>2 DEF Firefox!Named
  <2>4. CASE v1 \in {{}, {l}} /\ l \notin v3
    <3>1. \A s \in v3 : s \in Firefox!Starting /\ s # l
      BY <2>1, <2>4 DEF Firefox!Named
    <3>2. \A s \in v3 : s \in Firefox!Starting'
      BY <1>4, <3>1
    <3> QED BY <1>1, <2>2, <3>2 DEF Firefox!Named
  <2>5. (v1' = v1 /\ (v2[l] \in {"open", "write"} => l \notin v3)) \/ (v1 \in {{}, {l}} /\ l \notin v3)
    BY <1>5 DEF Firefox!Finish, Firefox!Interrupt, Firefox!Die, Firefox!Others
  <2> QED BY <2>2, <2>3, <2>4, <2>5
<1> QED BY <1>2, <1>3, <1>5 DEF Firefox!Safe

\* What happens outside the launchers: a server ends, an id is used again.
LEMMA FirefoxOutside ==
  ASSUME Firefox!Safe, UNCHANGED <<v1, v2, v5>>, v3' \subseteq v3 PROVE Firefox!Safe'
<1>1. Firefox!Starting' = Firefox!Starting
  BY DEF Firefox!Starting
<1> QED
  BY <1>1 DEF Firefox!Safe, Firefox!Types, Firefox!Spawned, Firefox!OneStarts, Firefox!Alone, Firefox!Named

\* The launcher, for every number of launchers of a profile: it does not leave
\* two servers, but in the listed ways.
THEOREM OneServerAtATime == Spec => []OneServer
<1> DEFINE Safe == program = "firefox" => Firefox!Safe
<1>1. Init => Safe
  BY FirefoxInit DEF Init
<1>2. ASSUME Safe, [Next]_vars PROVE Safe'
  <2> SUFFICES ASSUME program' = "firefox" PROVE Firefox!Safe'
    OBVIOUS
  <2>1. CASE Next
    <3>1. program = "firefox" /\ Firefox!Next
      BY <2>1 DEF Next
    <3>2. PICK l \in FirefoxLaunchers : Firefox!Launch(l) \/ Firefox!ServerEnds(l) \/ Firefox!IdTaken(l)
      BY <3>1 DEF Firefox!Next
    <3>3. CASE Firefox!Launch(l)
      BY <1>2, <3>1, <3>3, FirefoxCheck, FirefoxStarts, FirefoxEnds DEF Firefox!Launch
    <3>4. CASE Firefox!ServerEnds(l) \/ Firefox!IdTaken(l)
      BY <1>2, <3>1, <3>4, FirefoxOutside DEF Firefox!ServerEnds, Firefox!IdTaken
    <3> QED BY <3>2, <3>3, <3>4
  <2>2. CASE UNCHANGED vars
    BY <1>2, <2>2, FirefoxOutside DEF vars
  <2> QED BY <1>2, <2>1, <2>2
<1>3. Safe => OneServer
  BY DEF OneServer, Firefox!OneServer, Firefox!Safe, Firefox!OneStarts, Firefox!Alone, Firefox!Named
<1> QED BY <1>1, <1>2, <1>3, PTL DEF Spec

-----------------------------------------------------------------------------
(* The recovery bundle: v1 to v12 are live, bundle, pc, temp, todo, writes,
   runs, before, crossed, torn, exported and cloud. *)

\* Nothing was exported yet.
LEMMA RecoveryInit == ASSUME Recovery!Init PROVE Recovery!Safe
<1>2. v2 \in [state : {"none", "whole", "torn"}, files : [RecoveryFile -> Nat]] /\ v2.state = "none"
  BY DEF Recovery!Init, Recovery!Nothing
<1>1. v1 \in [RecoveryFile -> Nat] /\ v8 = v1 /\ v4 = [f \in RecoveryFile |-> 0]
  BY DEF Recovery!Init, Recovery!Nothing
<1> QED
  BY <1>1, <1>2 DEF Recovery!Init, Recovery!Safe, Recovery!Types, Recovery!Written, Recovery!Copied,
     Recovery!Restored, Recovery!Copying

\* Another program writes: the file is crossed.
LEMMA RecoveryWrite ==
  ASSUME Recovery!Safe, NEW f \in RecoveryFile, Recovery!Write(f) PROVE Recovery!Safe'
<1>1. PICK v \in Nat : v1' = [v1 EXCEPT ![f] = v]
  <2>1. v6' \in Nat
    BY DEF Recovery!Write, Recovery!Safe, Recovery!Types
  <2>2. PICK v \in {v6', 0} : v1' = [v1 EXCEPT ![f] = v]
    BY DEF Recovery!Write
  <2> QED BY <2>1, <2>2
<1>2. /\ v9' = v9 \cup {f} /\ v6' \in Nat
      /\ UNCHANGED <<v2, v3, v4, v5, v8, v10, v11, v12>>
  BY DEF Recovery!Write, Recovery!Safe, Recovery!Types
<1>3. Recovery!Types'
  BY <1>1, <1>2 DEF Recovery!Safe, Recovery!Types
<1>4. Recovery!Written'
  BY <1>2 DEF Recovery!Safe, Recovery!Written
<1>5. /\ \A g \in RecoveryFile \ v9' : g \in RecoveryFile \ v9 /\ v1'[g] = v1[g]
      /\ \A g : Recovery!Taken(g)' = Recovery!Taken(g)
      /\ \A g : Recovery!Ahead(g)' = Recovery!Ahead(g)
  BY <1>1, <1>2 DEF Recovery!Safe, Recovery!Types, Recovery!Taken, Recovery!Ahead
<1>6. Recovery!Copied'
  BY <1>2, <1>5 DEF Recovery!Safe, Recovery!Copied
<1>7. Recovery!Restored'
  BY <1>2, <1>5 DEF Recovery!Safe, Recovery!Restored
<1> QED BY <1>3, <1>4, <1>6, <1>7 DEF Recovery!Safe

\* export_bundle and import_bundle begin: nothing is copied or restored yet.
LEMMA RecoveryBegins ==
  ASSUME Recovery!Safe, Recovery!Export \/ Recovery!Import PROVE Recovery!Safe'
<1>1. /\ v8' = v1 /\ v9' = {} /\ v4' = [f \in RecoveryFile |-> 0]
      /\ UNCHANGED <<v1, v2, v6, v10, v11, v12>>
  BY DEF Recovery!Export, Recovery!Import, Recovery!Begin, Recovery!Nothing
<1>2. CASE Recovery!Export
  <2>1. v3' = "codex" /\ v5' = {f \in RecoveryFile : RecoveryPlace[f] = "codex"}
    BY <1>2 DEF Recovery!Export, Recovery!In
  <2>2. Recovery!Types'
    BY <1>1, <2>1 DEF Recovery!Safe, Recovery!Types, Recovery!Copying
  <2>3. \A f \in RecoveryFile : Recovery!Ahead(f)'
    BY <2>1 DEF Recovery!Ahead
  <2>4. Recovery!Copied'
    BY <1>1, <2>1, <2>3 DEF Recovery!Copied
  <2> QED BY <1>1, <2>1, <2>2, <2>4 DEF Recovery!Safe, Recovery!Written, Recovery!Restored
<1>3. CASE Recovery!Import
  <2>1. /\ v3' \in {"restore", "idle"}
        /\ v3' = "restore" => v5' = {f \in RecoveryFile : v2.files[f] # 0}
        /\ v5' \subseteq RecoveryFile
    BY <1>3 DEF Recovery!Import
  <2>2. Recovery!Types'
    BY <1>1, <2>1 DEF Recovery!Safe, Recovery!Types
  <2>3. Recovery!Restored'
    BY <1>1, <2>1 DEF Recovery!Restored
  <2>4. v3' \notin Recovery!Copying \cup {"encrypt"}
    BY <2>1 DEF Recovery!Copying
  <2> QED BY <1>1, <2>1, <2>2, <2>3, <2>4 DEF Recovery!Safe, Recovery!Written, Recovery!Copied
<1> QED BY <1>2, <1>3

\* A file is copied into the temporary directory.
LEMMA RecoveryCopyOut ==
  ASSUME Recovery!Safe, NEW f \in RecoveryFile, Recovery!CopyOut(f) PROVE Recovery!Safe'
<1>1. /\ v3 \in Recovery!Copying /\ f \in v5 /\ v4' = [v4 EXCEPT ![f] = v1[f]] /\ v5' = v5 \ {f}
      /\ UNCHANGED <<v1, v2, v3, v6, v8, v9, v10, v11, v12>>
  BY DEF Recovery!CopyOut
<1>2. Recovery!Types'
  BY <1>1 DEF Recovery!Safe, Recovery!Types
<1>3. \A g : Recovery!Taken(g)' = Recovery!Taken(g)
  BY <1>1 DEF Recovery!Taken
<1>5. Recovery!Copied
  BY DEF Recovery!Safe
<1>6. RecoveryPlace[f] = v3 /\ (v3 = "cloud" => v12)
  BY <1>1, <1>5 DEF Recovery!Copied
<1>7. /\ \A g \in RecoveryFile \ {f} : Recovery!Ahead(g)' = Recovery!Ahead(g)
      /\ ~Recovery!Ahead(f)'
  BY <1>1, <1>6 DEF Recovery!Ahead, Recovery!Copying
<1>8. Recovery!Taken(f) = v8[f]
  BY <1>6 DEF Recovery!Taken
<1>9. ASSUME NEW g \in RecoveryFile \ v9
      PROVE  v1[g] = v8[g] /\ v4'[g] = IF Recovery!Ahead(g)' THEN 0 ELSE Recovery!Taken(g)
  <2>1. v1[g] = v8[g] /\ v4[g] = IF Recovery!Ahead(g) THEN 0 ELSE Recovery!Taken(g)
    BY <1>1, <1>5 DEF Recovery!Copied
  <2>2. v4'[g] = IF g = f THEN v1[f] ELSE v4[g]
    BY <1>1 DEF Recovery!Safe, Recovery!Types
  <2>3. CASE g = f
    BY <2>1, <2>2, <2>3, <1>7, <1>8
  <2>4. CASE g # f
    BY <2>1, <2>2, <2>4, <1>7
  <2> QED BY <2>3, <2>4
<1>4. Recovery!Copied'
  BY <1>1, <1>3, <1>5, <1>9 DEF Recovery!Copied
<1>10. v3 # "restore"
  BY <1>1 DEF Recovery!Copying
<1> QED BY <1>1, <1>2, <1>4, <1>10 DEF Recovery!Safe, Recovery!Written, Recovery!Restored

\* The next place is begun: the cloud access, all or nothing, and openclaw.
LEMMA RecoveryPlaces ==
  ASSUME Recovery!Safe, Recovery!CloudAccess \/ Recovery!Openclaw PROVE Recovery!Safe'
<1>1. v5 = {} /\ UNCHANGED <<v1, v2, v4, v6, v8, v9, v10, v11>>
  BY DEF Recovery!CloudAccess, Recovery!Openclaw
<1>0. Recovery!Types /\ Recovery!Written /\ Recovery!Copied /\ Recovery!Assumed
  BY RecoveryAssumption DEF Recovery!Safe
<1>2. CASE Recovery!CloudAccess
  <2>1. /\ v3 = "codex" /\ v3' = "cloud" /\ v12' = (v1[RecoveryConfig] # 0)
        /\ v5' = IF v12' THEN {f \in RecoveryFile : RecoveryPlace[f] = "cloud"} ELSE {}
    BY <1>2 DEF Recovery!CloudAccess, Recovery!In
  <2>2. Recovery!Types'
    BY <1>0, <1>1, <2>1 DEF Recovery!Types, Recovery!Copying
  <2>3. ASSUME NEW f \in RecoveryFile \ v9
        PROVE  v1[f] = v8[f] /\ v4[f] = IF Recovery!Ahead(f)' THEN 0 ELSE Recovery!Taken(f)'
    <3>1. v1[f] = v8[f] /\ v4[f] = IF Recovery!Ahead(f) THEN 0 ELSE Recovery!Taken(f)
      BY <1>0, <2>1 DEF Recovery!Copied, Recovery!Copying
    <3>2. RecoveryPlace[f] \in {"codex", "cloud", "openclaw"}
      BY <1>0 DEF Recovery!Assumed, Recovery!Copying
    <3>3. CASE RecoveryPlace[f] = "codex"
      BY <1>1, <2>1, <3>1, <3>3 DEF Recovery!Ahead, Recovery!Taken
    <3>4. CASE RecoveryPlace[f] = "openclaw"
      BY <1>1, <2>1, <3>1, <3>4 DEF Recovery!Ahead, Recovery!Taken
    <3>5. CASE RecoveryPlace[f] = "cloud"
      BY <1>1, <2>1, <3>1, <3>5 DEF Recovery!Ahead, Recovery!Taken
    <3> QED BY <3>2, <3>3, <3>4, <3>5
  <2>4. RecoveryConfig \in v9 \/ v12' = (v8[RecoveryConfig] # 0)
    BY <1>0, <2>1 DEF Recovery!Copied, Recovery!Copying, Recovery!Assumed, Recovery!In
  <2>5. Recovery!Copied'
    BY <1>1, <2>1, <2>3, <2>4 DEF Recovery!Copied
  <2> QED BY <1>0, <1>1, <2>1, <2>2, <2>5 DEF Recovery!Safe, Recovery!Written, Recovery!Restored
<1>3. CASE Recovery!Openclaw
  <2>1. v3 = "cloud" /\ v3' = "openclaw" /\ v12' = v12 /\ v5' = {f \in RecoveryFile : RecoveryPlace[f] = "openclaw"}
    BY <1>3 DEF Recovery!Openclaw, Recovery!In
  <2>2. Recovery!Types'
    BY <1>0, <1>1, <2>1 DEF Recovery!Types, Recovery!Copying
  <2>3. \A f \in RecoveryFile : Recovery!Ahead(f)' = Recovery!Ahead(f) /\ Recovery!Taken(f)' = Recovery!Taken(f)
    BY <1>1, <2>1 DEF Recovery!Ahead, Recovery!Taken
  <2>4. Recovery!Copied'
    BY <1>0, <1>1, <2>1, <2>3 DEF Recovery!Copied, Recovery!Copying
  <2> QED BY <1>0, <1>1, <2>1, <2>2, <2>4 DEF Recovery!Safe, Recovery!Written, Recovery!Restored
<1> QED BY <1>2, <1>3

\* A file is copied over the live one.
LEMMA RecoveryCopyIn ==
  ASSUME Recovery!Safe, NEW f \in RecoveryFile, Recovery!CopyIn(f) PROVE Recovery!Safe'
<1>1. /\ v3 = "restore" /\ f \in v5 /\ v1' = [v1 EXCEPT ![f] = v2.files[f]] /\ v5' = v5 \ {f}
      /\ UNCHANGED <<v2, v3, v4, v6, v8, v9, v10, v11, v12>>
  BY DEF Recovery!CopyIn
<1>2. Recovery!Types'
  BY <1>1 DEF Recovery!Safe, Recovery!Types
<1>3. Recovery!Restored'
  BY <1>1 DEF Recovery!Safe, Recovery!Types, Recovery!Restored
<1>4. v3' \notin Recovery!Copying \cup {"encrypt"}
  BY <1>1 DEF Recovery!Copying
<1> QED BY <1>1, <1>2, <1>3, <1>4 DEF Recovery!Safe, Recovery!Written, Recovery!Copied

\* openssl writes the bundle, a command ends, or it stops.
LEMMA RecoveryEnds ==
  ASSUME Recovery!Safe,
         Recovery!Encrypt \/ Recovery!Encrypted \/ Recovery!Imported \/ Recovery!Stop
           \/ UNCHANGED <<v1, v2, v3, v4, v5, v6, v8, v9, v10, v11, v12>>
  PROVE  Recovery!Safe'
<1>0. v2' \in [state : {"none", "whole", "torn"}, files : [RecoveryFile -> Nat]]
  BY DEF Recovery!Encrypt, Recovery!Encrypted, Recovery!Imported, Recovery!Stop, Recovery!Nothing, Recovery!Safe, Recovery!Types
<1>1. UNCHANGED <<v1, v4, v6, v8, v9, v12>> /\ (v5' = v5 \/ v5' = {})
  BY DEF Recovery!Encrypt, Recovery!Encrypted, Recovery!Imported, Recovery!Stop
<1>2. v3' = "idle" \/ (v3' = "encrypt" /\ v3 = "openclaw" /\ v5 = {} /\ v5' = {}) \/ UNCHANGED <<v3, v5, v2>>
  BY DEF Recovery!Encrypt, Recovery!Encrypted, Recovery!Imported, Recovery!Stop
<1>3. Recovery!Types'
  <2>1. Recovery!Types
    BY DEF Recovery!Safe
  <2>2. v3' \in Recovery!Copying \cup {"idle", "encrypt", "restore"} /\ v5' \subseteq RecoveryFile
    BY <1>1, <1>2, <2>1 DEF Recovery!Types
  <2>3. v12' \in BOOLEAN /\ v6' \in Nat
    BY <1>1, <2>1 DEF Recovery!Types
  <2> QED BY <1>0, <1>1, <2>1, <2>2, <2>3 DEF Recovery!Types
<1>4. Recovery!Written'
  <2>1. CASE Recovery!Encrypt
    BY <2>1 DEF Recovery!Encrypt, Recovery!Written
  <2>2. CASE Recovery!Encrypted
    <3>1. v2'.state = "whole"
      BY <2>2 DEF Recovery!Encrypted
    <3> QED BY <3>1 DEF Recovery!Written
  <2>3. CASE UNCHANGED <<v2, v10, v11>>
    BY <2>3 DEF Recovery!Safe, Recovery!Written
  <2> QED BY <2>1, <2>2, <2>3 DEF Recovery!Imported, Recovery!Stop
<1>5. \A g : Recovery!Taken(g)' = Recovery!Taken(g)
  BY <1>1 DEF Recovery!Taken
<1>6. v3' # "idle" => \A g : Recovery!Ahead(g)' = Recovery!Ahead(g)
  BY <1>1, <1>2 DEF Recovery!Ahead
<1>7. Recovery!Copied'
  BY <1>1, <1>2, <1>5, <1>6 DEF Recovery!Safe, Recovery!Copied, Recovery!Copying
<1>8. Recovery!Restored'
  BY <1>1, <1>2 DEF Recovery!Safe, Recovery!Restored
<1> QED BY <1>3, <1>4, <1>7, <1>8 DEF Recovery!Safe

\* The recovery bundle, for all sets of secrets, writes and commands: a bundle
\* about to be written has what was there when the export began, but for files
\* written meanwhile, and the cloud access all or nothing; an import restores what
\* the bundle has and nothing else.
THEOREM BundlesAreFaithful == Spec => []BundleFaithful
<1> DEFINE Safe == program = "recovery" => Recovery!Safe
<1>1. Init => Safe
  BY RecoveryInit DEF Init
<1>2. ASSUME Safe, [Next]_vars PROVE Safe'
  <2> SUFFICES ASSUME program' = "recovery" PROVE Recovery!Safe'
    OBVIOUS
  <2>1. CASE Next
    <3>1. program = "recovery" /\ Recovery!Next
      BY <2>1 DEF Next
    <3> QED
      BY <1>2, <3>1, RecoveryWrite, RecoveryBegins, RecoveryCopyOut, RecoveryPlaces, RecoveryCopyIn,
         RecoveryEnds DEF Recovery!Next
  <2>2. CASE UNCHANGED vars
    BY <1>2, <2>2, RecoveryEnds DEF vars
  <2> QED BY <1>2, <2>1, <2>2
<1>3. Safe => BundleFaithful
  <2> SUFFICES ASSUME Recovery!Safe PROVE Recovery!BundleFaithful
    BY DEF BundleFaithful
  <2>1. v3 = "encrypt" => v5 = {} /\ \A f : ~Recovery!Ahead(f)
    BY RecoveryAssumption DEF Recovery!Safe, Recovery!Copied, Recovery!Ahead, Recovery!Types, Recovery!Assumed,
       Recovery!Copying
  <2> QED
    BY <2>1 DEF Recovery!BundleFaithful, Recovery!Safe, Recovery!Written, Recovery!Copied, Recovery!Restored
<1> QED BY <1>1, <1>2, <1>3, PTL DEF Spec

-----------------------------------------------------------------------------
(* The imports of files: v1 to v12 are text, stored, disk, mem, pc, items, done,
   edits, calls, redo, starved and tmp. *)

\* A set of natural numbers that has a member has a smallest one.
LEMMA Smallest ==
  ASSUME NEW S \in SUBSET Nat, S # {} PROVE \E x \in S : \A y \in S : x <= y
<1>1. PICK x \in S : \A y \in S : ~ (<<y, x>> \in OpToRel(<, Nat))
  BY NatLessThanWellFounded, WFMin, Zenon
<1>2. \A y \in S : ~ (y < x)
  BY <1>1 DEF OpToRel
<1> QED BY <1>2

\* An instance counts as the module does.
LEMMA ImportCounts == Import!Cardinality({}) = 0
<1>1. Import!Cardinality({}) = Cardinality({})
  BY DEF Import!Cardinality, Cardinality
<1> QED BY <1>1, FS_EmptySet

\* Nothing is stored yet.
LEMMA ImportInit == ASSUME Import!Assumed, Import!Init PROVE Import!Safe
<1>1. v11 \in BOOLEAN /\ ~v11
  BY DEF Import!Init
<1> QED
  BY <1>1 DEF Import!Assumed, Import!Init, Import!Safe, Import!Types, Import!Idle, Import!Known, Import!Begun, Import!Marked,
     Import!Kept, Import!Given, Import!ImportsAccounted, Import!NoFile

\* What the other parts of the invariant look at stays as it is.
LEMMA ImportSame ==
  ASSUME Import!Safe, Import!Types', v11' = v11, UNCHANGED <<v2, v3, v4, v5, v6, v7, v10, v12>>
  PROVE  Import!Safe'
BY DEF Import!Safe, Import!Idle, Import!Known, Import!Begun, Import!Marked, Import!Kept, Import!Given, Import!ImportsAccounted

\* A file changes.
LEMMA ImportEdit == ASSUME Import!Assumed, Import!Safe, NEW f \in Import!File, Import!Edit(f) PROVE Import!Safe'
<1>1. v8 \in Nat /\ v8' = v8 + 1 /\ v8' \in 0 .. ImportEdits /\ UNCHANGED <<v2, v3, v4, v5, v6, v7, v9, v10, v11, v12>>
  BY DEF Import!Edit, Import!Safe, Import!Types, Import!Assumed
<1>2. \A x \in 0 .. v8 : x \in 0 .. v8'
  BY <1>1
<1>3. v1' \in [Import!File -> [head : 0 .. v8', tail : 0 .. v8']]
  <2>1. v1 \in [Import!File -> [head : 0 .. v8', tail : 0 .. v8']]
    BY <1>2 DEF Import!Safe, Import!Types
  <2>2. v8' \in 0 .. v8'
    BY <1>1
  <2>3. CASE v1' = [v1 EXCEPT ![f].head = v8']
    BY <2>1, <2>2, <2>3
  <2>4. CASE v1' = [v1 EXCEPT ![f].tail = v8']
    BY <2>1, <2>2, <2>4
  <2> QED BY <2>3, <2>4 DEF Import!Edit
<1>4. Import!Types'
  BY <1>1, <1>3 DEF Import!Safe, Import!Types
<1> QED BY <1>1, <1>4, ImportSame

\* A process loads the state file.
LEMMA ImportOpen == ASSUME Import!Safe, NEW p \in ImportProc, Import!Open(p) PROVE Import!Safe'
<1>1. /\ v5[p] = "off" /\ v4' = [v4 EXCEPT ![p] = v3] /\ v5' = [v5 EXCEPT ![p] = "idle"]
      /\ UNCHANGED <<v1, v2, v3, v6, v7, v8, v9, v10, v11, v12>>
  BY DEF Import!Open
<1>2. Import!Types'
  BY <1>1 DEF Import!Safe, Import!Types
<1>3. Import!Idle'
  BY <1>1 DEF Import!Safe, Import!Types, Import!Idle
<1>4. Import!Known' /\ Import!Begun' /\ Import!Marked'
  BY <1>1 DEF Import!Safe, Import!Types, Import!Known, Import!Begun, Import!Marked
<1>5. Import!Kept' /\ Import!Given' /\ Import!ImportsAccounted'
  BY <1>1 DEF Import!Safe, Import!Kept, Import!Given, Import!ImportsAccounted
<1> QED BY <1>2, <1>3, <1>4, <1>5 DEF Import!Safe

\* An import with room for an item gives the first of the new files, if any.
LEMMA ImportGives ==
  ASSUME Import!Assumed, NEW p \in ImportProc, NEW limit \in ImportLimits, limit # 0,
         Import!New(p, limit) = {}
  PROVE  ~ \E f \in Import!File : v1[f].head # 0 /\ Import!ItemOf(f) \notin v4[p]
<1> DEFINE new == {f \in Import!File : v1[f].head # 0 /\ Import!ItemOf(f) \notin v4[p]}
<1>1. CASE limit = ImportNoLimit
  BY <1>1 DEF Import!New
<1>2. CASE limit # ImportNoLimit
  <2>1. limit \in Nat /\ 0 < limit /\ new \in SUBSET Nat
    BY <1>2 DEF Import!Assumed, Import!File
  <2>2. \A f \in new : ~ (Import!Cardinality({g \in new : g < f}) < limit)
    BY <1>2 DEF Import!New
  <2> SUFFICES ASSUME new # {} PROVE FALSE
    OBVIOUS
  <2>3. PICK f \in new : \A g \in new : f <= g
    BY <2>1, Smallest
  <2> HIDE DEF new
  <2>4. {g \in new : g < f} = {}
    <3>1. \A g \in new : ~(g < f)
      BY <2>1, <2>3
    <3> QED BY <3>1
  <2> QED BY <2>1, <2>2, <2>4, ImportCounts
<1> QED BY <1>1, <1>2

\* import_mempalace and import_cabinet: what is returned and may have been
\* stored is known to be, or another process has it as well.
LEMMA ImportReturns ==
  ASSUME Import!Assumed, Import!Safe, NEW p \in ImportProc, NEW limit \in ImportLimits, Import!Import(p, limit)
  PROVE  Import!Safe'
<1> DEFINE new == {Import!ItemOf(f) : f \in Import!New(p, limit)}
           known == v3 \cup UNION {v6[q] \cup v7[q] : q \in ImportProc \ {p}}
<1>1. /\ v5[p] = "idle" /\ v6' = [v6 EXCEPT ![p] = new] /\ v10' = v10 \cup (new \cap known)
      /\ v5' = [v5 EXCEPT ![p] = "items"] /\ UNCHANGED <<v1, v2, v3, v4, v7, v8, v12>>
  BY DEF Import!Import
<1>2. v11' = v11
  <2>1. ~(limit # 0 /\ Import!New(p, limit) = {} /\ \E f \in Import!File : v1[f].head # 0 /\ Import!ItemOf(f) \notin v4[p])
    BY ImportGives
  <2>2. v11 = FALSE
    BY DEF Import!Safe, Import!ImportsAccounted, Import!Types
  <2> QED BY <2>1, <2>2 DEF Import!Import
<1>3. new \subseteq Import!Item /\ \A i \in new : i \notin v4[p]
  <2>1. \A f \in Import!New(p, limit) : f \in Import!File /\ v1[f].head # 0 /\ Import!ItemOf(f) \notin v4[p]
    BY DEF Import!New
  <2>2. \A f \in Import!File : v1[f].head # 0 => v1[f].head \in 1 .. ImportEdits
    BY DEF Import!Safe, Import!Types, Import!Assumed
  <2> QED BY <2>1, <2>2 DEF Import!ItemOf, Import!Item
<1> HIDE DEF new
<1>4. Import!Types'
  <2>1. v11' \in BOOLEAN
    BY <1>2 DEF Import!Safe, Import!Types
  <2> QED BY <1>1, <1>3, <2>1 DEF Import!Safe, Import!Types
<1>5. v7[p] = {} /\ v6[p] = {}
  BY <1>1 DEF Import!Safe, Import!Idle
<1>6. \A i \in new : i \in v3 => i \in v10'
  BY <1>1
<1>7. \A i \in new, q \in ImportProc \ {p} : i \in v6[q] \cup v7[q] => i \in v10'
  BY <1>1
<1>8. Import!Idle' /\ Import!Known' /\ Import!Begun' /\ Import!Marked' /\ Import!Kept'
  BY <1>1 DEF Import!Safe, Import!Types, Import!Idle, Import!Known, Import!Begun, Import!Marked, Import!Kept
<1>9. Import!Given'
  <2> SUFFICES ASSUME NEW q \in ImportProc, NEW i \in v6'[q]
               PROVE  /\ i \notin v7[q]
                      /\ i \in v10' \/ (i \notin v3 /\ \A r \in ImportProc \ {q} : i \notin v6'[r] \cup v7[r])
    BY <1>1 DEF Import!Given
  <2>1. CASE q = p
    <3>1. i \in new
      BY <1>1, <2>1 DEF Import!Safe, Import!Types
    <3>2. \A r \in ImportProc \ {p} : v6'[r] = v6[r]
      BY <1>1 DEF Import!Safe, Import!Types
    <3> QED BY <1>5, <1>6, <1>7, <2>1, <3>1, <3>2
  <2>2. CASE q # p
    <3>1. i \in v6[q]
      BY <1>1, <2>2 DEF Import!Safe, Import!Types
    <3>2. i \notin v7[q] /\ (i \in v10 \/ (i \notin v3 /\ \A r \in ImportProc \ {q} : i \notin v6[r] \cup v7[r]))
      BY <3>1 DEF Import!Safe, Import!Given
    <3>3. i \in new => i \in v10'
      BY <1>7, <2>2, <3>1
    <3>4. \A r \in ImportProc : v6'[r] = IF r = p THEN new ELSE v6[r]
      BY <1>1 DEF Import!Safe, Import!Types
    <3> QED BY <1>1, <1>5, <3>2, <3>3, <3>4
  <2> QED BY <2>1, <2>2
<1>10. Import!ImportsAccounted'
  BY <1>1, <1>2 DEF Import!Safe, Import!ImportsAccounted
<1> QED BY <1>4, <1>8, <1>9, <1>10 DEF Import!Safe

\* The caller stores an item: if it was stored before, it may be.
LEMMA ImportStore ==
  ASSUME Import!Safe, NEW p \in ImportProc, NEW i \in Import!Item, Import!Store(p, i) PROVE Import!Safe'
<1>1. /\ i \in v6[p] /\ v6' = [v6 EXCEPT ![p] = @ \ {i}]
      /\ UNCHANGED <<v1, v3, v4, v5, v8, v9, v10, v11, v12>>
  BY DEF Import!Store
<1>2. \/ v2' = [v2 EXCEPT ![i] = @ + 1] /\ v7' = [v7 EXCEPT ![p] = @ \cup {i}]
      \/ v2' = v2 /\ v7' = v7
  BY DEF Import!Store
<1>3. Import!Types'
  BY <1>1, <1>2 DEF Import!Safe, Import!Types
<1>4. v5[p] = "items" /\ i \notin v7[p]
  BY <1>1 DEF Import!Safe, Import!Idle, Import!Given
<1>5. \A q \in ImportProc : v6'[q] = IF q = p THEN v6[p] \ {i} ELSE v6[q]
  BY <1>1 DEF Import!Safe, Import!Types
<1>6. CASE v2' = v2 /\ v7' = v7
  <2>1. Import!Idle' /\ Import!Known' /\ Import!Begun' /\ Import!Marked' /\ Import!Kept' /\ Import!ImportsAccounted'
    BY <1>1, <1>4, <1>5, <1>6
       DEF Import!Safe, Import!Idle, Import!Known, Import!Begun, Import!Marked, Import!Kept, Import!ImportsAccounted
  <2>2. Import!Given'
    BY <1>1, <1>5, <1>6 DEF Import!Safe, Import!Given
  <2> QED BY <1>3, <2>1, <2>2 DEF Import!Safe
<1>7. CASE v2' = [v2 EXCEPT ![i] = @ + 1] /\ v7' = [v7 EXCEPT ![p] = @ \cup {i}]
  <2>1. /\ \A q \in ImportProc : v7'[q] = IF q = p THEN v7[p] \cup {i} ELSE v7[q]
        /\ \A j \in Import!Item : v2[j] \in Nat /\ v2'[j] = IF j = i THEN v2[i] + 1 ELSE v2[j]
    BY <1>7 DEF Import!Safe, Import!Types
  <2>2. Import!Idle' /\ Import!Known' /\ Import!Begun'
    BY <1>1, <1>4, <1>5, <2>1 DEF Import!Safe, Import!Idle, Import!Known, Import!Begun
  <2>3. Import!Marked'
    BY <1>1, <2>1 DEF Import!Safe, Import!Marked
  <2>4. Import!Kept'
    BY <1>1, <2>1 DEF Import!Safe, Import!Kept
  <2>5. v2[i] > 0 => i \in v10
    BY <1>1, <1>4 DEF Import!Safe, Import!Kept, Import!Given
  <2>6. Import!ImportsAccounted'
    <3>1. \A j \in v3 : v2'[j] > 0
      BY <1>1, <2>3 DEF Import!Safe, Import!Types, Import!Marked
    <3>2. \A j \in Import!Item : v2'[j] > 1 => j \in v10
      BY <2>1, <2>5 DEF Import!Safe, Import!ImportsAccounted
    <3> QED BY <1>1, <3>1, <3>2 DEF Import!Safe, Import!ImportsAccounted
  <2>7. Import!Given'
    <3> SUFFICES ASSUME NEW q \in ImportProc, NEW j \in v6'[q]
                 PROVE  /\ j \notin v7'[q]
                        /\ j \in v10 \/ (j \notin v3 /\ \A r \in ImportProc \ {q} : j \notin v6'[r] \cup v7'[r])
      BY <1>1 DEF Import!Given
    <3>1. j \in v6[q] /\ j \notin v7[q] /\ (q = p => j # i)
      BY <1>5 DEF Import!Safe, Import!Given
    <3>2. j \in v10 \/ (j \notin v3 /\ \A r \in ImportProc \ {q} : j \notin v6[r] \cup v7[r])
      BY <3>1 DEF Import!Safe, Import!Given
    <3>3. j = i => j \in v10
      BY <1>1, <3>1, <3>2
    <3> QED BY <1>5, <2>1, <3>1, <3>2, <3>3
  <2> QED BY <1>3, <2>2, <2>3, <2>4, <2>6, <2>7 DEF Import!Safe
<1> QED BY <1>2, <1>6, <1>7

\* mark_stored writes state.tmp: what is in it was stored.
LEMMA ImportMark ==
  ASSUME Import!Safe, NEW p \in ImportProc, Import!Mark(p) PROVE Import!Safe'
<1>1. /\ v5[p] = "items" /\ v6[p] = {} /\ v4' = [v4 EXCEPT ![p] = @ \cup v7[p]]
      /\ v12' = [there |-> TRUE, hashes |-> v4'[p]] /\ v5' = [v5 EXCEPT ![p] = "save"]
      /\ UNCHANGED <<v1, v2, v3, v6, v7, v8, v9, v10, v11>>
  BY DEF Import!Mark
<1>2. /\ \A q \in ImportProc : v4'[q] = IF q = p THEN v4[p] \cup v7[p] ELSE v4[q]
      /\ \A q \in ImportProc : v5'[q] = IF q = p THEN "save" ELSE v5[q]
      /\ v12'.hashes = v4[p] \cup v7[p] /\ v4[p] \cup v7[p] \subseteq Import!Item
  BY <1>1 DEF Import!Safe, Import!Types
<1>3. Import!Types'
  BY <1>1, <1>2 DEF Import!Safe, Import!Types
<1>4. Import!Idle'
  BY <1>1, <1>2 DEF Import!Safe, Import!Idle
<1>5. Import!Known' /\ Import!Begun'
  BY <1>1, <1>2 DEF Import!Safe, Import!Known, Import!Begun
<1>6. Import!Marked'
  BY <1>1, <1>2 DEF Import!Safe, Import!Marked
<1>7. Import!Kept' /\ Import!Given' /\ Import!ImportsAccounted'
  BY <1>1 DEF Import!Safe, Import!Kept, Import!Given, Import!ImportsAccounted
<1> QED BY <1>3, <1>4, <1>5, <1>6, <1>7 DEF Import!Safe

\* state.tmp becomes the state file: what is not in it any more, and what was stored
\* and is not in it, may be stored again.
LEMMA ImportReplace ==
  ASSUME Import!Safe, NEW p \in ImportProc, Import!Replace(p) PROVE Import!Safe'
<1>1. /\ v5[p] = "save" /\ v10' = v10 \cup ((v3 \cup v7[p]) \ v3') /\ v7' = [v7 EXCEPT ![p] = {}]
      /\ v5' = [v5 EXCEPT ![p] = "idle"] /\ UNCHANGED <<v1, v2, v4, v6, v8, v9, v11>>
  BY DEF Import!Replace
<1>2. v3' \in {v3, v12.hashes} /\ v12' \in {v12, Import!NoFile}
  BY DEF Import!Replace
<1>3. Import!Types'
  <2>1. Import!Types
    BY DEF Import!Safe
  <2>5. v12 \in [there : BOOLEAN, hashes : SUBSET Import!Item] /\ v3 \subseteq Import!Item
    BY <2>1 DEF Import!Types
  <2>6. Import!NoFile \in [there : BOOLEAN, hashes : SUBSET Import!Item]
    BY DEF Import!NoFile
  <2>2. v12' \in [there : BOOLEAN, hashes : SUBSET Import!Item] /\ v3' \subseteq Import!Item
    BY <1>2, <2>5, <2>6
  <2>3. /\ v7' \in [ImportProc -> SUBSET Import!Item]
        /\ v5' \in [ImportProc -> {"off", "idle", "items", "save"}]
    BY <1>1, <2>1 DEF Import!Types
  <2>4. v1' \in [Import!File -> [head : 0 .. v8', tail : 0 .. v8']] /\ v11' \in BOOLEAN
    BY <1>1, <2>1 DEF Import!Types
  <2> QED BY <1>1, <2>1, <2>2, <2>3, <2>4 DEF Import!Types
<1>4. /\ \A q \in ImportProc : v7'[q] = IF q = p THEN {} ELSE v7[q]
      /\ \A q \in ImportProc : v5'[q] = IF q = p THEN "idle" ELSE v5[q]
      /\ v12'.hashes \subseteq v12.hashes
  BY <1>1, <1>2 DEF Import!Safe, Import!Types, Import!NoFile
<1>5. Import!Idle'
  BY <1>1, <1>4 DEF Import!Safe, Import!Idle
<1>6. \A i : \A q \in ImportProc : i \in v3 \cup v10 \cup v7[q] => i \in v3' \cup v10' \cup v7'[q]
  BY <1>1, <1>4
<1>7. Import!Known'
  BY <1>1, <1>6 DEF Import!Safe, Import!Known
<1>8. Import!Begun'
  <2> SUFFICES ASSUME NEW i \in v12.hashes
               PROVE  i \in v3' \cup v10' \/ \E q \in ImportProc : i \in v7'[q]
    BY <1>4 DEF Import!Begun
  <2>1. i \in v3 \cup v10 \/ \E q \in ImportProc : i \in v7[q]
    BY DEF Import!Safe, Import!Begun
  <2> QED BY <1>6, <2>1
<1>9. Import!Marked'
  BY <1>1, <1>2, <1>4 DEF Import!Safe, Import!Marked
<1>10. Import!Kept'
  BY <1>1, <1>6 DEF Import!Safe, Import!Kept
<1>11. Import!Given'
  <2> SUFFICES ASSUME NEW q \in ImportProc, NEW i \in v6[q]
               PROVE  /\ i \notin v7'[q]
                      /\ i \in v10' \/ (i \notin v3' /\ \A r \in ImportProc \ {q} : i \notin v6[r] \cup v7'[r])
    BY <1>1 DEF Import!Given
  <2>1. q # p /\ i \notin v7[q]
    BY <1>1 DEF Import!Safe, Import!Idle, Import!Given
  <2>2. i \in v10 \/ (i \notin v3 /\ \A r \in ImportProc \ {q} : i \notin v6[r] \cup v7[r])
    BY DEF Import!Safe, Import!Given
  <2>3. i \in v12.hashes => i \in v10 \cup v3 \/ \E r \in ImportProc : i \in v7[r]
    BY DEF Import!Safe, Import!Begun
  <2> QED BY <1>1, <1>2, <1>4, <2>1, <2>2, <2>3
<1>12. Import!ImportsAccounted'
  <2>1. \A i \in v3' : i \in Import!Item
    BY <1>3 DEF Import!Types
  <2> QED BY <1>1, <1>9, <2>1 DEF Import!Safe, Import!ImportsAccounted, Import!Marked
<1> QED BY <1>3, <1>5, <1>7, <1>8, <1>9, <1>10, <1>11, <1>12 DEF Import!Safe

\* A process stops.
LEMMA ImportStop ==
  ASSUME Import!Safe, NEW p \in ImportProc, Import!Stop(p) PROVE Import!Safe'
<1>1. /\ v10' = v10 \cup v7[p] /\ v5' = [v5 EXCEPT ![p] = "off"] /\ v6' = [v6 EXCEPT ![p] = {}]
      /\ v7' = [v7 EXCEPT ![p] = {}] /\ v4' = [v4 EXCEPT ![p] = {}]
      /\ UNCHANGED <<v1, v2, v3, v8, v9, v11, v12>>
  BY DEF Import!Stop
<1>2. Import!Types'
  BY <1>1 DEF Import!Safe, Import!Types
<1>3. \A q \in ImportProc : /\ v6'[q] = IF q = p THEN {} ELSE v6[q]
                            /\ v7'[q] = IF q = p THEN {} ELSE v7[q]
                            /\ v4'[q] = IF q = p THEN {} ELSE v4[q]
                            /\ v5'[q] = IF q = p THEN "off" ELSE v5[q]
  BY <1>1 DEF Import!Safe, Import!Types
<1>4. Import!Idle' /\ Import!Known' /\ Import!Begun' /\ Import!Marked' /\ Import!Kept' /\ Import!ImportsAccounted'
  BY <1>1, <1>3
     DEF Import!Safe, Import!Idle, Import!Known, Import!Begun, Import!Marked, Import!Kept, Import!ImportsAccounted
<1>5. Import!Given'
  BY <1>1, <1>3 DEF Import!Safe, Import!Given
<1> QED BY <1>2, <1>4, <1>5 DEF Import!Safe

\* The imports of files, for every number of files, processes and calls, and
\* every set of limits: what is marked was stored, it is stored again only in the
\* listed ways, and an import with a limit comes to every file.
THEOREM ImportsAreAccounted == Spec => []ImportsAccounted
<1> DEFINE Safe == program = "import" => Import!Safe
<1>1. Init => Safe
  BY ImportInit, ImportAssumption DEF Init
<1>2. ASSUME Safe, [Next]_vars PROVE Safe'
  <2> SUFFICES ASSUME program' = "import" PROVE Import!Safe'
    OBVIOUS
  <2>1. CASE Next
    <3>1. program = "import" /\ Import!Next
      BY <2>1 DEF Next
    <3> QED
      BY <1>2, <3>1, ImportAssumption, ImportEdit, ImportOpen, ImportReturns, ImportStore, ImportMark, ImportReplace,
         ImportStop DEF Import!Next
  <2>2. CASE UNCHANGED vars
    <3>1. UNCHANGED <<v1, v2, v3, v4, v5, v6, v7, v8, v10, v11, v12>> /\ Import!Safe
      BY <1>2, <2>2 DEF vars
    <3>2. Import!Types'
      BY <3>1 DEF Import!Safe, Import!Types
    <3> QED BY <3>1, <3>2, ImportSame
  <2> QED BY <1>2, <2>1, <2>2
<1>3. Safe => ImportsAccounted
  BY DEF ImportsAccounted, Import!Safe
<1> QED BY <1>1, <1>2, <1>3, PTL DEF Spec

-----------------------------------------------------------------------------
(* GetCourse: v1 to v12 are job, started, ready, imported, pc, tool, id, left,
   answer, told, cut and finished. *)

\* No export was started.
LEMMA GetcourseInit == ASSUME Getcourse!Init PROVE Getcourse!Safe
BY DEF Getcourse!Init, Getcourse!Safe, Getcourse!Types, Getcourse!ExportsAccounted, Getcourse!None

\* A step that starts no export, and forgets none: what a call polls it goes on
\* to poll, or an answer tells it, or it ended with an error.
LEMMA GetcourseKeeps ==
  ASSUME Getcourse!Safe, Getcourse!Types', v2' = v2, v10 \subseteq v10', v10' \subseteq Nat, v11 \subseteq v11',
         v12 \subseteq v12',
         \A c \in GetcourseCall : v5[c] = "poll" =>
           (v5'[c] = "poll" /\ v7'[c] = v7[c]) \/ v7[c] \in v10' \cup v11' \cup {0},
         \A c \in GetcourseCall : \/ v9'[c] = v9[c]
                                  \/ v9'[c].is \notin {"started", "pending", "data"}
                                  \/ v9'[c].id \in v10' /\ (v9'[c].is = "data" => v9'[c].id \in v12')
  PROVE  Getcourse!Safe'
<1>1. 1 .. v2' \subseteq v10' \cup v11' \cup {v7'[c] : c \in {c \in GetcourseCall : v5'[c] = "poll"}}
  <2> SUFFICES ASSUME NEW e \in 1 .. v2, e \notin v10', e \notin v11'
               PROVE  \E c \in GetcourseCall : v5'[c] = "poll" /\ v7'[c] = e
    OBVIOUS
  <2>1. PICK c \in GetcourseCall : v5[c] = "poll" /\ v7[c] = e
    BY DEF Getcourse!Safe, Getcourse!ExportsAccounted
  <2>2. v2 \in Nat
    BY DEF Getcourse!Safe, Getcourse!Types
  <2>3. e # 0
    BY <2>2
  <2> QED BY <2>1, <2>3
<1>2. \A c \in GetcourseCall :
        /\ v9'[c].is \in {"started", "pending", "data"} => v9'[c].id \in v10'
        /\ v9'[c].is = "data" => v9'[c].id \in v12'
  BY DEF Getcourse!Safe, Getcourse!ExportsAccounted
<1> QED BY <1>1, <1>2 DEF Getcourse!Safe, Getcourse!ExportsAccounted

\* GetCourse has prepared an export, or drops one.
LEMMA GetcourseService ==
  ASSUME Getcourse!Safe, Getcourse!Prepared \/ (\E e \in v3 : Getcourse!Dropped(e)) PROVE Getcourse!Safe'
<1>1. UNCHANGED <<v2, v5, v6, v7, v8, v9, v10, v11>> /\ v12 \subseteq v12'
  BY DEF Getcourse!Prepared, Getcourse!Dropped, Getcourse!mine
<1>2. Getcourse!Types'
  <2>1. v3' \subseteq v12'
    BY DEF Getcourse!Prepared, Getcourse!Dropped, Getcourse!Safe, Getcourse!Types
  <2> QED BY <1>1, <2>1 DEF Getcourse!Safe, Getcourse!Types
<1> QED BY <1>1, <1>2, GetcourseKeeps DEF Getcourse!Safe

\* A call begins, with an export that was told or with none, or is refused.
LEMMA GetcourseBegins ==
  ASSUME Getcourse!Safe, NEW c \in GetcourseCall, NEW what \in {"get", "wait", "start", "start wait", "import"},
         NEW e \in Nat, NEW n, Getcourse!Begin(c, what, e, n)
  PROVE  Getcourse!Safe'
<1>1. /\ v5[c] = "new" /\ v6' = [v6 EXCEPT ![c] = what] /\ v7' = [v7 EXCEPT ![c] = e]
      /\ UNCHANGED <<v1, v2, v3, v9, v10, v11, v12>>
      /\ \E at \in {"start", "poll", "import"} : v5' = [v5 EXCEPT ![c] = at]
  BY DEF Getcourse!Begin, Getcourse!Goto, Getcourse!account
<1>2. Getcourse!Types'
  BY <1>1 DEF Getcourse!Safe, Getcourse!Types
<1>3. \A d \in GetcourseCall : v5[d] = "poll" => v5'[d] = "poll" /\ v7'[d] = v7[d]
  BY <1>1 DEF Getcourse!Safe, Getcourse!Types
<1> QED BY <1>1, <1>2, <1>3, GetcourseKeeps DEF Getcourse!Safe

\* What an answer does: the call is done.
LEMMA GetcourseReturns ==
  ASSUME Getcourse!Safe, NEW c \in GetcourseCall, NEW what, NEW e \in Nat, Getcourse!Return(c, what, e),
         what \in {"started", "pending", "data", "ok", "error", "transient"}
  PROVE  /\ v5' \in [GetcourseCall -> {"new", "start", "poll", "import", "done"}] /\ v5'[c] = "done"
         /\ v9' \in [GetcourseCall ->
                       [is : {"none", "started", "pending", "data", "ok", "error", "transient"}, id : Nat]]
         /\ v9'[c].is = what /\ v9'[c].id = e
         /\ \A d \in GetcourseCall \ {c} : v5'[d] = v5[d] /\ v9'[d] = v9[d]
BY DEF Getcourse!Return, Getcourse!Safe, Getcourse!Types

\* A call that does not poll ends without an export.
LEMMA GetcourseEnds ==
  ASSUME Getcourse!Safe, NEW c \in GetcourseCall, v5[c] # "poll", NEW what \in {"ok", "error", "transient"},
         Getcourse!Return(c, what, 0), UNCHANGED <<v1, v2, v3, v6, v7, v10, v11, v12>>
  PROVE  Getcourse!Safe'
<1>1. Getcourse!Types'
  BY GetcourseReturns DEF Getcourse!Safe, Getcourse!Types
<1>2. \A d \in GetcourseCall : v5[d] = "poll" => v5'[d] = "poll" /\ v7'[d] = v7[d]
  BY GetcourseReturns
<1>3. \A d \in GetcourseCall : v9'[d] = v9[d] \/ v9'[d].is \notin {"started", "pending", "data"}
  BY GetcourseReturns
<1> QED BY <1>1, <1>2, <1>3, GetcourseKeeps DEF Getcourse!Safe

\* _start_export: the export is told, polled, or its answer was lost.
LEMMA GetcourseStarts ==
  ASSUME Getcourse!Safe, NEW c \in GetcourseCall, Getcourse!StartExport(c) PROVE Getcourse!Safe'
<1>1. v5[c] = "start" /\ UNCHANGED <<v3, v4, v6, v8, v12>>
  BY DEF Getcourse!StartExport
<1>2. CASE UNCHANGED <<v1, v2, v7, v10, v11>> /\ \E what \in {"error", "transient"} : Getcourse!Return(c, what, 0)
  BY <1>1, <1>2, GetcourseEnds
<1>3. CASE v1 = 0 /\ v1' = v2 + 1 /\ v2' = v2 + 1
  <2> DEFINE e == v2 + 1
  <2>5. v2 \in Nat
    BY DEF Getcourse!Safe, Getcourse!Types
  <2>0. e \in Nat /\ v2 \in Nat /\ v12 = v12'
    BY <1>1, <2>5
  <2>1. ASSUME v10 \subseteq v10', v10' \subseteq Nat, v11 \subseteq v11', v7' \in [GetcourseCall -> Nat],
               v5' \in [GetcourseCall -> {"new", "start", "poll", "import", "done"}],
               v9' \in [GetcourseCall ->
                          [is : {"none", "started", "pending", "data", "ok", "error", "transient"}, id : Nat]],
               \A d \in GetcourseCall \ {c} : v5'[d] = v5[d] /\ v7'[d] = v7[d] /\ v9'[d] = v9[d],
               v9'[c] = v9[c] \/ v9'[c].is = "error" \/ (v9'[c].is = "started" /\ v9'[c].id \in v10'),
               e \in v10' \cup v11' \/ (v5'[c] = "poll" /\ v7'[c] = e)
        PROVE  Getcourse!Safe'
    <3>1. Getcourse!Types'
      <4>1. v2' \in Nat
        BY <1>3, <2>0
      <4> QED BY <1>1, <2>1, <4>1 DEF Getcourse!Safe, Getcourse!Types
    <3>2. 1 .. v2' \subseteq v10' \cup v11' \cup {v7'[d] : d \in {d \in GetcourseCall : v5'[d] = "poll"}}
      <4> SUFFICES ASSUME NEW x \in 1 .. v2', x \notin v10', x \notin v11'
                   PROVE  \E d \in GetcourseCall : v5'[d] = "poll" /\ v7'[d] = x
        OBVIOUS
      <4>1. CASE x = e
        BY <2>1, <4>1
      <4>2. CASE x # e
        <5>1. x \in 1 .. v2
          BY <1>3, <2>0, <4>2
        <5>2. PICK d \in GetcourseCall : v5[d] = "poll" /\ v7[d] = x
          BY <2>1, <5>1 DEF Getcourse!Safe, Getcourse!ExportsAccounted
        <5> QED BY <1>1, <2>1, <5>2
      <4> QED BY <4>1, <4>2
    <3>3. \A d \in GetcourseCall :
            /\ v9'[d].is \in {"started", "pending", "data"} => v9'[d].id \in v10'
            /\ v9'[d].is = "data" => v9'[d].id \in v12'
      BY <2>0, <2>1 DEF Getcourse!Safe, Getcourse!ExportsAccounted
    <3> QED BY <2>1, <3>1, <3>2, <3>3 DEF Getcourse!Safe, Getcourse!ExportsAccounted
  <2>2. CASE Getcourse!Return(c, "started", e) /\ v10' = v10 \cup {e} /\ UNCHANGED <<v7, v11>>
    BY <2>0, <2>1, <2>2, GetcourseReturns DEF Getcourse!Safe, Getcourse!Types
  <2>3. CASE v7' = [v7 EXCEPT ![c] = e] /\ Getcourse!Goto(c, "poll") /\ UNCHANGED <<v10, v11>>
    BY <2>0, <2>1, <2>3 DEF Getcourse!Goto, Getcourse!Safe, Getcourse!Types
  <2>4. CASE Getcourse!Raise(c, "error", e) /\ UNCHANGED <<v7, v10>>
    <3>1. Getcourse!Return(c, "error", 0) /\ v11' = v11 \cup {e}
      BY <2>0, <2>4 DEF Getcourse!Raise
    <3> QED BY <2>0, <2>1, <2>4, <3>1, GetcourseReturns DEF Getcourse!Safe, Getcourse!Types
  <2>6. v2' # v2
    BY <1>3, <2>5
  <2> QED BY <2>2, <2>3, <2>4, <2>6 DEF Getcourse!StartExport
<1>4. \/ UNCHANGED <<v1, v2, v7, v10, v11>> /\ (\E what \in {"error", "transient"} : Getcourse!Return(c, what, 0))
      \/ v1 = 0 /\ v1' = v2 + 1 /\ v2' = v2 + 1
  BY DEF Getcourse!StartExport, Getcourse!Raise
<1> QED BY <1>2, <1>3, <1>4

\* _wait_for_export: the export is read, or told, or the call goes on to poll.
LEMMA GetcoursePolls == ASSUME Getcourse!Safe, NEW c \in GetcourseCall, Getcourse!Poll(c) PROVE Getcourse!Safe'
<1>1. v5[c] = "poll" /\ UNCHANGED <<v1, v2, v3, v6, v7, v11, v12>> /\ v7[c] \in Nat
  BY DEF Getcourse!Poll, Getcourse!account, Getcourse!Safe, Getcourse!Types
<1>2. CASE UNCHANGED <<v5, v9, v10>>
  <2>1. Getcourse!Types'
    BY <1>1, <1>2 DEF Getcourse!Safe, Getcourse!Types
  <2> QED BY <1>1, <1>2, <2>1, GetcourseKeeps DEF Getcourse!Safe
<1>3. ASSUME NEW what \in {"data", "pending"}, Getcourse!Return(c, what, v7[c]), v10' = v10 \cup {v7[c]},
             what = "data" => v7[c] \in v3
      PROVE  Getcourse!Safe'
  <2>1. Getcourse!Types'
    BY <1>1, <1>3, GetcourseReturns DEF Getcourse!Safe, Getcourse!Types
  <2>2. what = "data" => v7[c] \in v12'
    BY <1>1, <1>3 DEF Getcourse!Safe, Getcourse!Types
  <2>3. \A d \in GetcourseCall : v5[d] = "poll" => v5'[d] = "poll" \/ v7[d] \in v10'
    BY <1>3, GetcourseReturns, <1>1
  <2>4. \A d \in GetcourseCall : \/ v9'[d] = v9[d]
                                 \/ v9'[d].id \in v10' /\ (v9'[d].is = "data" => v9'[d].id \in v12')
    BY <1>1, <1>3, <2>2, GetcourseReturns
  <2> QED BY <1>1, <1>3, <2>1, <2>3, <2>4, GetcourseKeeps DEF Getcourse!Safe
<1>4. \/ UNCHANGED <<v5, v9, v10>>
      \/ \E what \in {"data", "pending"} :
           Getcourse!Return(c, what, v7[c]) /\ v10' = v10 \cup {v7[c]} /\ (what = "data" => v7[c] \in v3)
  BY DEF Getcourse!Poll, Getcourse!StillPending
<1> QED BY <1>2, <1>3, <1>4

\* A poll that fails ends the call, with an error.
LEMMA GetcoursePollFails ==
  ASSUME Getcourse!Safe, NEW c \in GetcourseCall, Getcourse!PollFails(c) PROVE Getcourse!Safe'
<1>1. /\ v5[c] = "poll" /\ UNCHANGED <<v1, v2, v3, v6, v7, v10, v12>> /\ v7[c] \in Nat
      /\ v11' = IF v7[c] = 0 THEN v11 ELSE v11 \cup {v7[c]}
  BY DEF Getcourse!PollFails, Getcourse!Raise, Getcourse!account, Getcourse!Safe, Getcourse!Types
<1>2. PICK what \in {"error", "transient"} : Getcourse!Return(c, what, 0)
  BY DEF Getcourse!PollFails, Getcourse!Raise
<1>3. Getcourse!Types'
  BY <1>1, <1>2, GetcourseReturns DEF Getcourse!Safe, Getcourse!Types
<1>4. \A d \in GetcourseCall : v5[d] = "poll" => v5'[d] = "poll" \/ v7[d] \in v11' \cup {0}
  BY <1>1, <1>2, GetcourseReturns
<1>5. \A d \in GetcourseCall : v9'[d] = v9[d] \/ v9'[d].is \notin {"started", "pending", "data"}
  BY <1>2, GetcourseReturns
<1> QED BY <1>1, <1>3, <1>4, <1>5, GetcourseKeeps DEF Getcourse!Safe

\* The tools of GetCourse, for every number of calls, polls and exports.
LEMMA GetcourseNext == ASSUME Getcourse!Safe, Getcourse!Next PROVE Getcourse!Safe'
<1>1. ASSUME NEW c \in GetcourseCall, Getcourse!Step(c) PROVE Getcourse!Safe'
  <2>1. CASE Getcourse!Refuse(c) \/ Getcourse!Import(c)
    <3>1. /\ v5[c] # "poll" /\ UNCHANGED <<v1, v2, v3, v6, v7, v10, v11, v12>>
          /\ \E what \in {"ok", "error", "transient"} : Getcourse!Return(c, what, 0)
      BY <2>1 DEF Getcourse!Refuse, Getcourse!Import, Getcourse!account
    <3> QED BY <3>1, GetcourseEnds
  <2>2. v10 \subseteq Nat
    BY DEF Getcourse!Safe
  <2> QED
    BY <1>1, <2>1, <2>2, GetcourseBegins, GetcourseStarts, GetcoursePolls, GetcoursePollFails DEF Getcourse!Step
<1> QED BY <1>1, GetcourseService DEF Getcourse!Next

-----------------------------------------------------------------------------
(* Bizon365: v1 to v11 are role, sid, files, index, saved, call, answer, posts,
   odd, calls and steps. *)

\* What the invariant says of a call.
BizonWellFormed(call) ==
  /\ call.tool \in Bizon!Tools \cup {Bizon!Idle.tool}
  /\ call = [tool |-> call.tool, pc |-> call.pc, left |-> call.left, retry |-> call.retry, force |-> call.force,
             empty |-> call.empty]
  /\ call.pc \in {"idle", "login", "request", "download", "record"}
  /\ call.left \in 0 .. call.tool.requests
  /\ call.retry \in BOOLEAN /\ call.force \in BOOLEAN /\ call.empty \in BOOLEAN

\* The numbers of requests that the tools make are natural numbers.
LEMMA BizonSmall == \A n \in {0, 1, 2} : n \in Nat
OBVIOUS

\* A request less.
LEMMA BizonLess ==
  \A n, left : n \in Nat /\ left \in 0 .. n /\ left > 1 => left - 1 \in 0 .. n /\ n # 1
OBVIOUS

\* The tools; raw POSTs make one request.
LEMMA BizonTools ==
  ASSUME NEW tool \in Bizon!Tools \cup {Bizon!Idle.tool}
  PROVE  tool.requests \in Nat /\ (tool.does = "raw post" => tool.requests = 1)
<1> DEFINE Is(m, d, n) == tool = [min |-> m, does |-> d, requests |-> n]
<1>1. \/ Is(0, "read", 1) \/ Is(0, "read", 2) \/ Is(0, "read", 0)
      \/ Is(1, "read", 1) \/ Is(1, "download", 1) \/ Is(1, "record", 0) \/ Is(2, "refresh", 0)
      \/ Is(2, "raw get", 1) \/ Is(2, "raw post", 1)
  BY DEF Bizon!Tools, Bizon!Idle
<1>2. ASSUME NEW m, NEW d, NEW n \in {0, 1, 2}, Is(m, d, n), d = "raw post" => n = 1
      PROVE  tool.requests \in Nat /\ (tool.does = "raw post" => tool.requests = 1)
  <2>1. tool.requests = n /\ tool.does = d
    BY <1>2
  <2>2. n \in Nat
    BY BizonSmall
  <2> QED BY <1>2, <2>1, <2>2
<1>3. ASSUME NEW m, NEW d, NEW n \in {0, 1, 2}, Is(m, d, n), d # "raw post"
      PROVE  tool.requests \in Nat /\ (tool.does = "raw post" => tool.requests = 1)
  BY <1>2, <1>3
<1> HIDE DEF Is
<1>4. CASE Is(0, "read", 1) \/ Is(0, "read", 2) \/ Is(0, "read", 0) \/ Is(1, "read", 1)
  BY <1>3, <1>4
<1>5. CASE Is(1, "download", 1) \/ Is(1, "record", 0) \/ Is(2, "refresh", 0) \/ Is(2, "raw get", 1)
  BY <1>3, <1>5
<1>6. CASE Is(2, "raw post", 1)
  BY <1>2, <1>6
<1> QED BY <1>1, <1>4, <1>5, <1>6

\* No call is under way.
LEMMA BizonIdle == BizonWellFormed(Bizon!Idle) /\ Bizon!Idle.pc = "idle" /\ Bizon!Idle.empty = FALSE
<1>1. Bizon!Idle.retry \in BOOLEAN /\ Bizon!Idle.force \in BOOLEAN /\ Bizon!Idle.empty \in BOOLEAN
  BY DEF Bizon!Idle
<1> QED BY <1>1 DEF BizonWellFormed, Bizon!Idle

\* The server has not been called.
LEMMA BizonInit == ASSUME Bizon!Init PROVE Bizon!Safe
<1>1. v9 \in BOOLEAN
  BY DEF Bizon!Init
<1>2. v6 = Bizon!Idle /\ v2 = "none" /\ v8 = 0 /\ v7 = "none"
  BY DEF Bizon!Init
<1> QED
  BY <1>1, <1>2, BizonIdle DEF BizonWellFormed, Bizon!Safe, Bizon!Types, Bizon!Unposted, Bizon!Repeats, Bizon!SessionsMended

\* A call ends, with an answer that says there was nothing only if it is excused.
LEMMA BizonReturn ==
  ASSUME Bizon!Safe, NEW a, Bizon!Return(a), a = "nothing" => v9, v2' \in {"none", "live", "dead"},
         v8' \in 0 .. 1, v9' \in BOOLEAN, v9 => v9'
  PROVE  Bizon!Safe'
<1>1. v6' = Bizon!Idle /\ v7' = a
  BY DEF Bizon!Return
<1>2. Bizon!Types'
  BY <1>1, BizonIdle DEF BizonWellFormed, Bizon!Types
<1>3. Bizon!Unposted' /\ Bizon!Repeats'
  BY <1>1, BizonIdle DEF Bizon!Unposted, Bizon!Repeats
<1>4. Bizon!SessionsMended'
  BY <1>1 DEF Bizon!SessionsMended
<1> QED BY <1>2, <1>3, <1>4 DEF Bizon!Safe

\* A call goes on.
LEMMA BizonGoesOn ==
  ASSUME Bizon!Safe, BizonWellFormed(v6'), v2' \in {"none", "live", "dead"}, v8' = 0, v9' \in BOOLEAN,
         v7' = "none" \/ (v7' = v7 /\ (v9 => v9')), Bizon!Repeats'
  PROVE  Bizon!Safe'
<1>1. Bizon!Types'
  BY DEF BizonWellFormed, Bizon!Types
<1>2. Bizon!Unposted' /\ Bizon!SessionsMended'
  BY DEF Bizon!Safe, Bizon!Unposted, Bizon!SessionsMended
<1> QED BY <1>1, <1>2 DEF Bizon!Safe

\* The session runs out.
LEMMA BizonRunOut == ASSUME Bizon!Safe, Bizon!RunOut PROVE Bizon!Safe'
<1>1. v2' = "dead" /\ UNCHANGED <<v6, v7, v8>> /\ v9' = (v9 \/ (v6.pc # "idle" /\ ~v6.retry))
  BY DEF Bizon!RunOut
<1>2. v9' \in BOOLEAN /\ (v9 => v9') /\ (v6.pc # "idle" /\ ~v6.retry => v9')
  BY <1>1
<1>3. Bizon!Types'
  BY <1>1, <1>2 DEF Bizon!Safe, Bizon!Types
<1> QED BY <1>1, <1>2, <1>3 DEF Bizon!Safe, Bizon!Unposted, Bizon!Repeats, Bizon!SessionsMended

\* A tool is called.
LEMMA BizonCall ==
  ASSUME Bizon!Safe, NEW tool \in Bizon!Tools, NEW path, Bizon!Call(tool, path) PROVE Bizon!Safe'
<1>1. v8' = 0 /\ v9' = FALSE /\ UNCHANGED v2 /\ v2 \in {"none", "live", "dead"}
  BY DEF Bizon!Call, Bizon!session, Bizon!Safe, Bizon!Types
<1>2. v9' \in BOOLEAN
  BY <1>1
<1>3. CASE Bizon!Return("error")
  <2>1. v6' = Bizon!Idle /\ v7' = "error"
    BY <1>3 DEF Bizon!Return
  <2> QED
    BY <1>1, <1>2, <2>1, BizonIdle
       DEF BizonWellFormed, Bizon!Safe, Bizon!Types, Bizon!Unposted, Bizon!Repeats, Bizon!SessionsMended
<1>4. CASE v7' = "none" /\ v6' = [tool |-> tool, left |-> tool.requests, retry |-> TRUE,
                                  force |-> tool.does = "refresh", empty |-> FALSE,
                                  pc |-> IF tool.does = "record" THEN "record" ELSE "login"]
  <2>1. /\ v6'.retry = TRUE /\ v6'.force = (tool.does = "refresh") /\ v6'.tool = tool /\ v6'.left = tool.requests
        /\ v6'.empty = FALSE
    BY <1>4
  <2>2. v6'.retry \in BOOLEAN /\ v6'.force \in BOOLEAN /\ v6'.empty \in BOOLEAN
    BY <2>1
  <2>6. tool.requests \in Nat
    BY BizonTools
  <2>3. tool.requests \in 0 .. tool.requests
    BY <2>6
  <2>4. BizonWellFormed(v6')
    BY <1>4, <2>1, <2>2, <2>3 DEF BizonWellFormed
  <2>5. Bizon!Repeats'
    BY <2>1 DEF Bizon!Repeats
  <2> QED BY <1>1, <1>2, <1>4, <2>4, <2>5, BizonGoesOn
<1> QED BY <1>3, <1>4 DEF Bizon!Call

\* login: the session is there, or the login is done or refused.
LEMMA BizonLogin ==
  ASSUME Bizon!Safe, Bizon!LoginSkipped \/ Bizon!LoginDone \/ Bizon!LoginRefused \/ Bizon!LoginFails
  PROVE  Bizon!Safe'
<1>1. v6.pc = "login" /\ v8' = v8 /\ v8 = 0 /\ v2 \in {"none", "live", "dead"} /\ v9 \in BOOLEAN
  BY DEF Bizon!LoginSkipped, Bizon!LoginDone, Bizon!LoginRefused, Bizon!LoginFails, Bizon!Safe, Bizon!Types, Bizon!Unposted
<1>2. v2' \in {"none", "live", "dead"} /\ v9' \in BOOLEAN /\ (v9 => v9')
  BY <1>1 DEF Bizon!LoginSkipped, Bizon!LoginDone, Bizon!LoginRefused, Bizon!LoginFails, Bizon!session
<1>3. ASSUME NEW a \in {"data", "error"}, Bizon!Return(a) PROVE Bizon!Safe'
  BY <1>1, <1>2, <1>3, BizonReturn
<1>4. CASE v6' = [v6 EXCEPT !.pc = "request", !.force = FALSE] /\ UNCHANGED v7
           /\ (v6.retry \/ v2' = "live" \/ v9')
  <2>1. /\ v6'.retry = v6.retry /\ v6'.tool = v6.tool /\ v6'.left = v6.left /\ v6'.pc = "request" /\ v6'.force = FALSE
        /\ v6'.empty = v6.empty
        /\ v6' = [tool |-> v6'.tool, pc |-> v6'.pc, left |-> v6'.left, retry |-> v6'.retry, force |-> v6'.force,
                 empty |-> v6'.empty]
    BY <1>4 DEF Bizon!Safe, Bizon!Types
  <2>2. v6'.force \in BOOLEAN /\ v6'.retry \in BOOLEAN /\ v6'.empty \in BOOLEAN
    BY <2>1 DEF Bizon!Safe, Bizon!Types
  <2>3. BizonWellFormed(v6')
    BY <2>1, <2>2 DEF BizonWellFormed, Bizon!Safe, Bizon!Types
  <2>5. v6.empty => v9'
    BY <1>2 DEF Bizon!Safe, Bizon!Repeats
  <2>4. Bizon!Repeats'
    BY <1>4, <2>1, <2>5 DEF Bizon!Repeats
  <2> QED BY <1>1, <1>2, <1>4, <2>3, <2>4, BizonGoesOn
<1>5. v6.retry \/ v6.force
  BY <1>1 DEF Bizon!Safe, Bizon!Repeats, Bizon!Types
<1>6. CASE Bizon!LoginSkipped
  <2>1. v6.retry
    BY <1>5, <1>6 DEF Bizon!LoginSkipped
  <2> QED BY <1>3, <1>4, <1>6, <2>1 DEF Bizon!LoginSkipped, Bizon!LoggedIn
<1>7. CASE Bizon!LoginDone
  BY <1>3, <1>4, <1>7 DEF Bizon!LoginDone, Bizon!LoggedIn
<1>8. CASE Bizon!LoginRefused
  <2>1. CASE Bizon!Return("error")
    BY <1>3, <2>1
  <2>2. CASE Bizon!LoggedIn /\ v9' = TRUE
    BY <1>3, <1>4, <2>2 DEF Bizon!LoggedIn
  <2> QED BY <1>8, <2>1, <2>2 DEF Bizon!LoginRefused
<1>9. CASE Bizon!LoginFails
  BY <1>3, <1>9 DEF Bizon!LoginFails
<1> QED BY <1>6, <1>7, <1>8, <1>9

\* An answer is given, or the next request is made.
LEMMA BizonAnswered ==
  ASSUME Bizon!Safe, NEW a, Bizon!Answered(a), a = "nothing" => v9, v2' = v2, v9' = v9,
         v8' \in 0 .. 1, v8' = 0 \/ v6.tool.does = "raw post"
  PROVE  Bizon!Safe'
<1> DEFINE empty == v6.empty \/ a = "nothing"
<1>1. v2' \in {"none", "live", "dead"} /\ v9' \in BOOLEAN
  BY DEF Bizon!Safe, Bizon!Types
<1>0. empty \in BOOLEAN /\ (empty => v9')
  BY DEF Bizon!Safe, Bizon!Types, Bizon!Repeats
<1>5. \/ Bizon!Return(IF empty THEN "nothing" ELSE a)
      \/ v6' = [v6 EXCEPT !.left = @ - 1, !.retry = TRUE, !.pc = "login", !.empty = empty] /\ UNCHANGED v7 /\ v6.left > 1
      \/ v6' = [v6 EXCEPT !.pc = "download", !.empty = empty] /\ UNCHANGED v7 /\ v6.tool.does = "download"
  BY DEF Bizon!Answered
<1> HIDE DEF empty
<1>2. CASE Bizon!Return(IF empty THEN "nothing" ELSE a)
  <2>1. CASE empty
    BY <1>0, <1>1, <1>2, <2>1, BizonReturn
  <2>2. CASE ~empty
    BY <1>1, <1>2, <2>2, BizonReturn
  <2> QED BY <2>1, <2>2
<1>3. CASE v6' = [v6 EXCEPT !.left = @ - 1, !.retry = TRUE, !.pc = "login", !.empty = empty] /\ UNCHANGED v7 /\ v6.left > 1
  <2>1. v6.tool \in Bizon!Tools \cup {Bizon!Idle.tool} /\ v6.left \in 0 .. v6.tool.requests
    BY DEF Bizon!Safe, Bizon!Types
  <2>2. v6.tool.requests \in Nat /\ v6.tool.does # "raw post" /\ v6.left - 1 \in 0 .. v6.tool.requests
    <3>1. v6.tool.requests \in Nat /\ (v6.tool.does = "raw post" => v6.tool.requests = 1)
      BY <2>1, BizonTools
    <3>2. v6.left \in 0 .. v6.tool.requests /\ v6.left > 1
      BY <1>3, <2>1
    <3>3. v6.left - 1 \in 0 .. v6.tool.requests /\ v6.tool.requests # 1
      BY <3>1, <3>2, BizonLess, Zenon
    <3> QED BY <3>1, <3>3
  <2>3. /\ v6'.retry = TRUE /\ v6'.tool = v6.tool /\ v6'.left = v6.left - 1 /\ v6'.pc = "login" /\ v6'.force = v6.force
        /\ v6'.empty = empty
        /\ v6' = [tool |-> v6'.tool, pc |-> v6'.pc, left |-> v6'.left, retry |-> v6'.retry, force |-> v6'.force,
                 empty |-> v6'.empty]
    BY <1>3 DEF Bizon!Safe, Bizon!Types
  <2>4. v6'.retry \in BOOLEAN /\ v6'.force \in BOOLEAN /\ v6'.empty \in BOOLEAN
    BY <1>0, <2>3 DEF Bizon!Safe, Bizon!Types
  <2>5. BizonWellFormed(v6')
    BY <2>1, <2>2, <2>3, <2>4 DEF BizonWellFormed
  <2>6. Bizon!Repeats'
    BY <1>0, <2>3 DEF Bizon!Repeats
  <2> QED BY <1>1, <1>3, <2>2, <2>5, <2>6, BizonGoesOn
<1>4. CASE v6' = [v6 EXCEPT !.pc = "download", !.empty = empty] /\ UNCHANGED v7 /\ v6.tool.does = "download"
  <2>1. /\ v6'.retry = v6.retry /\ v6'.tool = v6.tool /\ v6'.left = v6.left /\ v6'.pc = "download" /\ v6'.force = v6.force
        /\ v6'.empty = empty
        /\ v6' = [tool |-> v6'.tool, pc |-> v6'.pc, left |-> v6'.left, retry |-> v6'.retry, force |-> v6'.force,
                 empty |-> v6'.empty]
    BY <1>4 DEF Bizon!Safe, Bizon!Types
  <2>2. v6'.force \in BOOLEAN /\ v6'.retry \in BOOLEAN /\ v6'.empty \in BOOLEAN
    BY <1>0, <2>1 DEF Bizon!Safe, Bizon!Types
  <2>3. BizonWellFormed(v6')
    BY <2>1, <2>2 DEF BizonWellFormed, Bizon!Safe, Bizon!Types
  <2>4. Bizon!Repeats'
    BY <1>0, <2>1 DEF Bizon!Repeats
  <2> QED BY <1>1, <1>4, <2>3, <2>4, BizonGoesOn
<1> QED BY <1>2, <1>3, <1>4, <1>5

\* The client logs in again, to repeat the request.
LEMMA BizonRelogin ==
  ASSUME Bizon!Safe, Bizon!Relogin, v2' = v2, v9' = v9, v8' = 0 PROVE Bizon!Safe'
<1>1. v2' \in {"none", "live", "dead"} /\ v9' \in BOOLEAN
  BY DEF Bizon!Safe, Bizon!Types
<1>2. v6' = [v6 EXCEPT !.pc = "login", !.force = TRUE, !.retry = FALSE] /\ UNCHANGED v7
  BY DEF Bizon!Relogin
<1>3. /\ v6'.retry = FALSE /\ v6'.tool = v6.tool /\ v6'.left = v6.left /\ v6'.pc = "login" /\ v6'.force = TRUE
      /\ v6'.empty = v6.empty
      /\ v6' = [tool |-> v6'.tool, pc |-> v6'.pc, left |-> v6'.left, retry |-> v6'.retry, force |-> v6'.force,
                 empty |-> v6'.empty]
  BY <1>2 DEF Bizon!Safe, Bizon!Types
<1>4. v6'.force \in BOOLEAN /\ v6'.retry \in BOOLEAN /\ v6'.empty \in BOOLEAN
  BY <1>3 DEF Bizon!Safe, Bizon!Types
<1>5. BizonWellFormed(v6')
  BY <1>3, <1>4 DEF BizonWellFormed, Bizon!Safe, Bizon!Types
<1>7. v6.empty => v9'
  BY DEF Bizon!Safe, Bizon!Repeats
<1>6. Bizon!Repeats'
  BY <1>3, <1>7 DEF Bizon!Repeats
<1> QED BY <1>1, <1>2, <1>5, <1>6, BizonGoesOn

\* _request_json: an answer, an empty one, 401, or an error.
LEMMA BizonRequest == ASSUME Bizon!Safe, NEW reply, Bizon!Request(reply) PROVE Bizon!Safe'
<1>1. /\ v6.pc = "request" /\ v8 = 0 /\ UNCHANGED <<v2, v9>>
      /\ IF v6.tool.does = "raw post" /\ v2 = "live" THEN v8' = 0 + 1 ELSE v8' = 0
  BY DEF Bizon!Request, Bizon!session, Bizon!Posting, Bizon!Safe, Bizon!Unposted
<1>2. v2' \in {"none", "live", "dead"} /\ v9' \in BOOLEAN /\ v8' \in 0 .. 1
  <2>1. v2' \in {"none", "live", "dead"} /\ v9' \in BOOLEAN
    BY <1>1 DEF Bizon!Safe, Bizon!Types
  <2>2. v8' = 0 \/ v8' = 0 + 1
    BY <1>1
  <2>3. v8' \in 0 .. 1
    BY <2>2
  <2> QED BY <2>1, <2>3
<1>3. CASE Bizon!Return("error")
  BY <1>1, <1>2, <1>3, BizonReturn
<1>4. ASSUME NEW a, Bizon!Answered(a), a = "nothing" => v9 PROVE Bizon!Safe'
  BY <1>1, <1>2, <1>4, BizonAnswered
<1>5. CASE Bizon!Relogin /\ v8' = 0
  BY <1>1, <1>5, BizonRelogin
<1>6. CASE (Bizon!Posting \/ v2 = "dead") /\ Bizon!OnEmpty
  <2>1. CASE Bizon!Posting
    BY <1>4, <1>6, <2>1 DEF Bizon!OnEmpty
  <2>2. CASE ~Bizon!Posting /\ v6.retry
    BY <1>1, <1>5, <1>6, <2>2 DEF Bizon!OnEmpty, Bizon!Posting
  <2>3. CASE ~Bizon!Posting /\ ~v6.retry
    <3>1. v9
      BY <1>1, <1>6, <2>3 DEF Bizon!Safe, Bizon!Repeats
    <3>2. Bizon!Answered("nothing")
      BY <1>6, <2>3 DEF Bizon!OnEmpty
    <3> QED BY <1>4, <3>1, <3>2
  <2> QED BY <2>1, <2>2, <2>3
<1>7. CASE v2 = "dead" /\ (IF v6.retry THEN Bizon!Relogin ELSE Bizon!Return("error"))
  BY <1>1, <1>3, <1>5, <1>7
<1>8. CASE Bizon!Answered("data")
  BY <1>4, <1>8
<1> QED BY <1>3, <1>6, <1>7, <1>8 DEF Bizon!Request

\* The steps that answer, or leave the call alone.
LEMMA BizonOther ==
  ASSUME Bizon!Safe,
         \/ Bizon!RequestFails \/ Bizon!Download
         \/ \E f \in BizonRecording : Bizon!Record(f) \/ Bizon!ArchiveChanges(f)
         \/ UNCHANGED <<v2, v6, v7, v8, v9>>
  PROVE  Bizon!Safe'
<1>1. v2 \in {"none", "live", "dead"} /\ v9 \in BOOLEAN /\ v8 \in 0 .. 1
  BY DEF Bizon!Safe, Bizon!Types
<1>2. \/ UNCHANGED <<v2, v8, v9>> /\ (\E a \in {"data", "error"} : Bizon!Return(a))
      \/ UNCHANGED <<v2, v6, v7, v8, v9>>
  BY DEF Bizon!RequestFails, Bizon!Download, Bizon!Record, Bizon!ArchiveChanges, Bizon!session
<1>3. CASE UNCHANGED <<v2, v6, v7, v8, v9>>
  <2>1. Bizon!Types'
    BY <1>3 DEF Bizon!Safe, Bizon!Types
  <2> QED BY <1>3, <2>1 DEF Bizon!Safe, Bizon!Unposted, Bizon!Repeats, Bizon!SessionsMended
<1> QED BY <1>1, <1>2, <1>3, BizonReturn

\* The clients of services, for all recordings, calls, polls and exports: a
\* session that ran out is mended once, and in no other way; an export that was
\* started is known to somebody, or its call failed.
THEOREM ServicesAreAccounted == Spec => []ServicesAccounted
<1> DEFINE Safe == (program = "bizon" => Bizon!Safe) /\ (program = "getcourse" => Getcourse!Safe)
<1>1. Init => Safe
  BY BizonInit, GetcourseInit DEF Init
<1>2. ASSUME Safe, [Next]_vars PROVE Safe'
  <2>1. ASSUME program' = "bizon" PROVE Bizon!Safe'
    <3>1. CASE Next
      <4>1. program = "bizon" /\ Bizon!Next
        BY <2>1, <3>1 DEF Next
      <4> QED
        BY <1>2, <4>1, BizonRunOut, BizonCall, BizonLogin, BizonRequest, BizonOther DEF Bizon!Next
    <3>2. CASE UNCHANGED vars
      BY <1>2, <2>1, <3>2, BizonOther DEF vars
    <3> QED BY <1>2, <3>1, <3>2
  <2>2. ASSUME program' = "getcourse" PROVE Getcourse!Safe'
    <3>1. CASE Next
      <4>1. program = "getcourse" /\ Getcourse!Next
        BY <2>2, <3>1 DEF Next
      <4> QED BY <1>2, <4>1, GetcourseNext
    <3>2. CASE UNCHANGED vars
      <4>1. Getcourse!Safe /\ UNCHANGED <<v1, v2, v3, v4, v5, v6, v7, v8, v9, v10, v11, v12>>
        BY <1>2, <2>2, <3>2 DEF vars
      <4> QED BY <4>1 DEF Getcourse!Safe, Getcourse!Types, Getcourse!ExportsAccounted
    <3> QED BY <1>2, <3>1, <3>2
  <2> QED BY <2>1, <2>2
<1>3. Safe => ServicesAccounted
  BY DEF ServicesAccounted, Bizon!Safe, Getcourse!Safe
<1> QED BY <1>1, <1>2, <1>3, PTL DEF Spec

\* A sequence with an element more at its end.
LEMMA Appended ==
  ASSUME NEW S, NEW s \in Seq(S), NEW x \in S
  PROVE  /\ Append(s, x) \in Seq(S) /\ Append(s, x) # <<>> /\ Len(Append(s, x)) = Len(s) + 1
         /\ DOMAIN Append(s, x) = 1 .. Len(s) + 1 /\ Len(s) \in Nat
         /\ \A i \in 1 .. Len(s) : Append(s, x)[i] = s[i]
         /\ Append(s, x)[Len(s) + 1] = x
OBVIOUS

\* A sequence is one of its elements.
LEMMA OfItsElements ==
  ASSUME NEW S, NEW s \in Seq(S) PROVE s \in Seq({s[i] : i \in 1 .. Len(s)})
OBVIOUS

\* A sequence of some elements is one of more elements.
LEMMA OfMoreElements ==
  ASSUME NEW S, NEW s \in Seq(S), NEW x PROVE s \in Seq(S \cup {x})
OBVIOUS

-----------------------------------------------------------------------------
(* The connector grants: v1 to v7 are now, snaps, grants, life, context,
   consumed and effects. *)

\* A connector that has accepted nothing.
LEMMA GrantInit == ASSUME Grant!Assumed, Grant!Init PROVE Grant!Safe
<1>1. /\ v1 = 0 /\ v4 = 1 /\ v5 \in {0, 1} /\ v7 = {}
      /\ v2 = <<[issued |-> 0, expires |-> GrantSnapLife, revoked |-> {}]>> /\ GrantSnapLife \in Nat
  BY DEF Grant!Assumed, Grant!Init
<1>2. Grant!Types
  BY <1>1 DEF Grant!Types
<1> QED BY <1>1, <1>2 DEF Grant!Safe, Grant!Remembered, Grant!RevocationTakesHold

\* The connector accepts nothing, and snapshots stay: what it remembers stays.
LEMMA GrantSame ==
  ASSUME Grant!Safe, Grant!Types', v7' = v7, v4' >= v4, v4' = v4 => v6' = v6,
         \A s \in DOMAIN v2 : s \in DOMAIN v2' /\ v2'[s] = v2[s]
  PROVE  Grant!Safe'
<1>1. Grant!Remembered'
  <2> SUFFICES ASSUME NEW e \in v7
               PROVE  e.life <= v4' /\ e.life \in Nat /\ (e.life = v4' => e.grant.nonce \in v6')
    BY DEF Grant!Remembered
  <2>1. /\ e.life <= v4 /\ e.life \in Nat /\ v4 \in Nat /\ v4' \in Nat
        /\ e.life = v4 => e.grant.nonce \in v6
    BY DEF Grant!Safe, Grant!Remembered, Grant!Types
  <2>2. e.life <= v4' /\ (e.life = v4' => v4' = v4)
    BY <2>1
  <2> QED BY <2>1, <2>2
<1>2. Grant!RevocationTakesHold'
  BY DEF Grant!Safe, Grant!RevocationTakesHold
<1> QED BY <1>1, <1>2 DEF Grant!Safe

\* execute_effect: what is done is done while the snapshot of the connector holds,
\* and with a nonce that it has not seen.
LEMMA GrantExecute ==
  ASSUME Grant!Safe, NEW g \in v3, NEW p \in GrantPlan, Grant!Execute(g, p) PROVE Grant!Safe'
<1> DEFINE new == [grant |-> g, plan |-> p, at |-> v1, life |-> v4]
<1>1. /\ v7' = v7 \cup {new} /\ v6' = v6 \cup {g.nonce} /\ UNCHANGED <<v1, v2, v3, v4, v5>>
      /\ g.nonce \notin v6 /\ v5 # 0 /\ g.nonce \notin v2[v5].revoked /\ v1 < v2[v5].expires
  BY DEF Grant!Execute, Grant!Valid, Grant!CurrentContext
<1>2. Grant!Types' /\ v4 \in Nat
  BY <1>1 DEF Grant!Safe, Grant!Types
<1>3. v5 \in DOMAIN v2
  BY <1>1 DEF Grant!Safe, Grant!Types
<1>4. Grant!Remembered'
  <2>1. v4 <= v4
    BY <1>2
  <2>2. new.life = v4 /\ new.grant.nonce = g.nonce
    OBVIOUS
  <2> HIDE DEF new
  <2> QED BY <1>1, <1>2, <2>1, <2>2 DEF Grant!Safe, Grant!Remembered
<1>5. \A e \in v7 : e.life = v4 => e.grant.nonce # g.nonce
  BY <1>1 DEF Grant!Safe, Grant!Remembered
<1>6. new.life = v4 /\ new.grant.nonce = g.nonce /\ new.at = v1
  OBVIOUS
<1> HIDE DEF new
<1>7. Grant!RevocationTakesHold'
  BY <1>1, <1>3, <1>5, <1>6 DEF Grant!Safe, Grant!RevocationTakesHold
<1> QED BY <1>2, <1>4, <1>7 DEF Grant!Safe

\* A snapshot is published after the others.
LEMMA GrantPublish == ASSUME Grant!Assumed, Grant!Safe, Grant!Publish PROVE Grant!Safe'
<1> DEFINE Snap == [issued : Nat, expires : Nat, revoked : SUBSET GrantNonce]
<1>1. v2 \in Seq(Snap) /\ v1 \in Nat /\ v4 \in Nat /\ v5 \in 0 .. Len(v2)
  BY DEF Grant!Safe, Grant!Types
<1>2. PICK n \in SUBSET GrantNonce : v2' = Append(v2, Grant!Snapshot(v2[Len(v2)].revoked \cup n))
  BY DEF Grant!Publish
<1>3. UNCHANGED <<v1, v3, v4, v5, v6, v7>>
  BY DEF Grant!Publish
<1>4. Grant!Snapshot(v2[Len(v2)].revoked \cup n) \in Snap
  <2>1. Len(v2) \in 1 .. Len(v2)
    BY <1>1 DEF Grant!Safe, Grant!Types
  <2>4. v2[Len(v2)] \in Snap
    <3> HIDE DEF Snap
    <3> QED BY <1>1, <2>1
  <2>2. v2[Len(v2)].revoked \in SUBSET GrantNonce
    BY <2>4
  <2>3. v1 + GrantSnapLife \in Nat
    BY <1>1 DEF Grant!Assumed
  <2> QED BY <1>1, <2>2, <2>3 DEF Grant!Snapshot
<1>5. /\ v2' \in Seq(Snap) /\ v2' # <<>> /\ Len(v2') = Len(v2) + 1 /\ DOMAIN v2' = 1 .. Len(v2) + 1
      /\ \A s \in 1 .. Len(v2) : v2'[s] = v2[s]
  <2> HIDE DEF Snap
  <2> QED BY <1>1, <1>2, <1>4, Appended
<1>6. v5' \in 0 .. Len(v2')
  BY <1>1, <1>3, <1>5
<1>7. Grant!Types' /\ v4' >= v4
  BY <1>1, <1>3, <1>5, <1>6 DEF Grant!Types
<1>8. \A s \in DOMAIN v2 : s \in DOMAIN v2' /\ v2'[s] = v2[s]
  <2>1. DOMAIN v2 = 1 .. Len(v2) /\ Len(v2) \in Nat
    <3> HIDE DEF Snap
    <3> QED BY <1>1
  <2>2. 1 .. Len(v2) \subseteq 1 .. Len(v2) + 1
    BY <2>1
  <2> QED BY <1>5, <2>1, <2>2
<1> QED BY <1>3, <1>7, <1>8, GrantSame

\* A connector is made anew, with a snapshot that was published.
LEMMA GrantRemake == ASSUME Grant!Safe, Grant!Remake PROVE Grant!Safe'
<1>1. v4 \in Nat /\ v4' = v4 + 1 /\ v5' \in {0} \cup DOMAIN v2 /\ UNCHANGED <<v1, v2, v7>>
  BY DEF Grant!Remake, Grant!Safe, Grant!Types
<1>2. Grant!Types'
  BY <1>1 DEF Grant!Safe, Grant!Types
<1> QED BY <1>1, <1>2, GrantSame

\* What the rest do is nothing to the connector.
LEMMA GrantOther ==
  ASSUME Grant!Safe,
         \/ Grant!Tick \/ (\E p \in GrantPlan, n \in GrantNonce : Grant!Issue(p, n))
         \/ (\E g \in v3 : Grant!Alter(g)) \/ UNCHANGED <<v1, v2, v4, v5, v6, v7>>
  PROVE  Grant!Safe'
<1>1. (v1' = v1 \/ v1' = v1 + 1) /\ UNCHANGED <<v2, v4, v5, v6, v7>>
  BY DEF Grant!Tick, Grant!Issue, Grant!Alter
<1>2. Grant!Types' /\ v4' >= v4
  BY <1>1 DEF Grant!Safe, Grant!Types
<1> QED BY <1>1, <1>2, GrantSame

\* Connectors, with grants, snapshots and revocations in any number.
LEMMA GrantNext ==
  ASSUME Grant!Assumed, Grant!Safe, Grant!Next \/ UNCHANGED <<v1, v2, v3, v4, v5, v6, v7>> PROVE Grant!Safe'
BY GrantExecute, GrantPublish, GrantRemake, GrantOther DEF Grant!Next

-----------------------------------------------------------------------------
(* The release key sets: v1, v2 and v3 are sets, at and past. *)

\* Nothing was published.
LEMMA KeysInit == ASSUME Keys!Init PROVE Keys!Safe
BY DEF Keys!Init, Keys!Safe, Keys!Types, Keys!Chain, Keys!Revoked, Keys!Common

\* What was published stays, so consumers stay where they are.
LEMMA KeysPublish == ASSUME Keys!Safe, NEW s \in 0 .. Len(v1), Keys!Publish(s) PROVE Keys!Safe'
<1>1. PICK new : v1' = Append(v1, new) /\ new.previous = s /\ UNCHANGED <<v2, v3>>
  BY DEF Keys!Publish
<1> DEFINE S == {v1[t] : t \in 1 .. Len(v1)}
<1>2. v1 \in Seq(S) /\ v2 \in [KeysConsumer -> 0 .. Len(v1)] /\ v3 \in [KeysConsumer -> SUBSET (1 .. Len(v1))]
  BY DEF Keys!Safe, Keys!Types
<1>3. v1 \in Seq(S \cup {new})
  <2> HIDE DEF S
  <2> QED BY <1>2, OfMoreElements
<1>4. /\ v1' \in Seq(S \cup {new}) /\ Len(v1') = Len(v1) + 1 /\ Len(v1) \in Nat
      /\ \A i \in 1 .. Len(v1) : v1'[i] = v1[i]
      /\ v1'[Len(v1) + 1] = new
  <2> HIDE DEF S
  <2> QED BY <1>1, <1>3, Appended
<1>5. v1' \in Seq({v1'[t] : t \in 1 .. Len(v1')})
  <2> HIDE DEF S
  <2> QED BY <1>4, OfItsElements
<1>6. /\ v2' \in [KeysConsumer -> 0 .. Len(v1')] /\ v3' \in [KeysConsumer -> SUBSET (1 .. Len(v1'))]
      /\ \A t \in 1 .. Len(v1') : v1'[t].previous \in 0 .. t - 1
  <2>1. 0 .. Len(v1) \subseteq 0 .. Len(v1') /\ 1 .. Len(v1) \subseteq 1 .. Len(v1')
    BY <1>4
  <2>2. ASSUME NEW t \in 1 .. Len(v1') PROVE v1'[t].previous \in 0 .. t - 1
    <3>1. CASE t \in 1 .. Len(v1)
      BY <1>4, <3>1 DEF Keys!Safe, Keys!Types
    <3>2. CASE t = Len(v1) + 1
      BY <1>1, <1>4, <3>2
    <3> QED BY <1>4, <3>1, <3>2
  <2> QED BY <1>1, <1>2, <2>1, <2>2
<1>7. Keys!Types'
  BY <1>5, <1>6 DEF Keys!Types
<1>8. ASSUME NEW c \in KeysConsumer PROVE Keys!Chain(c)' /\ Keys!Revoked(c)'
  <2>1. Keys!Chain(c) /\ Keys!Revoked(c)
    BY DEF Keys!Safe
  <2>2. v2'[c] = v2[c] /\ v3'[c] = v3[c] /\ \A t \in v3[c] : v1'[t] = v1[t]
    BY <1>1, <1>2, <1>4
  <2>3. v2[c] # 0 => v1'[v2[c]] = v1[v2[c]]
    BY <2>1, <2>2 DEF Keys!Chain
  <2>4. Keys!Chain(c)'
    BY <2>1, <2>2, <2>3 DEF Keys!Chain, Keys!Distinct
  <2>5. v3[c] # {} => v2[c] # 0
    BY <2>1 DEF Keys!Chain
  <2>6. Keys!Revoked(c)'
    BY <2>1, <2>2, <2>3, <2>5 DEF Keys!Revoked
  <2> QED BY <2>4, <2>6
<1>9. Keys!Common'
  BY <1>1 DEF Keys!Safe, Keys!Common
<1> QED BY <1>7, <1>8, <1>9 DEF Keys!Safe

\* validate_keyset_semantics: the set that a consumer accepts is the next one of
\* its chain; what was revoked stays so.
LEMMA KeysAccept ==
  ASSUME Keys!Safe, NEW c \in KeysConsumer, NEW t \in 1 .. Len(v1), Keys!Accept(c, t) PROVE Keys!Safe'
<1>1. /\ v1' = v1 /\ v2' = [v2 EXCEPT ![c] = t] /\ v3' = [v3 EXCEPT ![c] = @ \cup {t}]
      /\ v1[t].previous = v2[c] /\ Keys!Distinct(v1[t].keys) /\ Keys!Continues(Keys!KeysOf(v2[c]), v1[t].keys)
  BY DEF Keys!Accept, Keys!Acceptable, Keys!Follows
<1>2. /\ v1 \in Seq({v1[u] : u \in 1 .. Len(v1)})
      /\ v2 \in [KeysConsumer -> 0 .. Len(v1)] /\ v3 \in [KeysConsumer -> SUBSET (1 .. Len(v1))]
      /\ \A u \in 1 .. Len(v1) : v1[u].previous \in 0 .. u - 1
  BY DEF Keys!Safe, Keys!Types
<1>3. Len(v1) \in Nat
  <2> DEFINE S == {v1[u] : u \in 1 .. Len(v1)}
  <2>1. v1 \in Seq(S)
    BY <1>2
  <2> HIDE DEF S
  <2> QED BY <2>1
<1>4. v2[c] < t /\ t # 0 /\ Len(v1) \in Nat /\ t \in Nat
  <2>1. t \in Nat /\ t # 0
    BY <1>3
  <2>2. v1[t].previous \in 0 .. t - 1
    BY <1>2
  <2>3. v2[c] \in 0 .. t - 1
    BY <1>1, <2>2
  <2>4. v2[c] < t
    BY <2>1, <2>3
  <2> QED BY <1>3, <2>1, <2>4
<1>5. \A d \in KeysConsumer : v3[d] \subseteq Nat \ {0} /\ v2[d] \in Nat
  <2>1. 1 .. Len(v1) \subseteq Nat \ {0} /\ 0 .. Len(v1) \subseteq Nat
    BY <1>3
  <2> QED BY <1>2, <2>1
<1>6. Keys!Chain(c) /\ Keys!Revoked(c)
  BY DEF Keys!Safe
<1>7. \A d \in KeysConsumer : d # c => v2'[d] = v2[d] /\ v3'[d] = v3[d]
  BY <1>1, <1>2
<1>8. v2'[c] = t /\ v3'[c] = v3[c] \cup {t}
  BY <1>1, <1>2
<1>9. \A s \in v3[c] : s <= v2[c] /\ s < t
  <2>1. \A s \in v3[c] : s <= v2[c]
    BY <1>6 DEF Keys!Chain
  <2>2. v3[c] \subseteq Nat /\ v2[c] \in Nat
    BY <1>5
  <2> QED BY <1>4, <2>1, <2>2
<1>10. Keys!Chain(c)'
  <2>1. v2[c] \in v3[c] \cup {0}
    BY <1>6 DEF Keys!Chain
  <2>2. \A u \in v3'[c] : u <= t
    BY <1>4, <1>5, <1>8, <1>9
  <2>3. ASSUME NEW u \in v3'[c]
        PROVE  v1[u].previous \in v3'[c] \cup {0} /\ \A s \in v3'[c] : s < u => s <= v1[u].previous
    <3>1. CASE u = t
      BY <1>1, <1>8, <1>9, <2>1, <3>1
    <3>2. CASE u \in v3[c]
      <4>1. ~(t < u)
        BY <1>4, <1>5, <1>9, <3>2
      <4> QED BY <1>6, <1>8, <3>2, <4>1 DEF Keys!Chain
    <3> QED BY <1>8, <3>1, <3>2
  <2> QED BY <1>1, <1>4, <1>8, <2>2, <2>3 DEF Keys!Chain, Keys!Distinct
<1>11. Keys!Revoked(c)'
  <2> SUFFICES ASSUME NEW s \in v3'[c], NEW i \in DOMAIN v1[s].keys, v1[s].keys[i].state = "revoked"
               PROVE  i \in DOMAIN v1[t].keys /\ v1[t].keys[i].state = "revoked" /\ v1[t].keys[i].pk = v1[s].keys[i].pk
    BY <1>1, <1>8 DEF Keys!Revoked
  <2>1. CASE s = t
    BY <2>1
  <2>2. CASE s \in v3[c]
    <3>1. v2[c] # 0
      BY <1>6, <2>2 DEF Keys!Chain
    <3>2. LET keys == v1[v2[c]].keys
          IN i \in DOMAIN keys /\ keys[i].state = "revoked" /\ keys[i].pk = v1[s].keys[i].pk
      BY <1>6, <2>2 DEF Keys!Revoked
    <3>3. Keys!Later("revoked") = {"revoked"}
      BY DEF Keys!Later
    <3> QED BY <1>1, <3>1, <3>2, <3>3 DEF Keys!Continues, Keys!KeysOf
  <2> QED BY <1>8, <2>1, <2>2
<1>12. \A d \in KeysConsumer : Keys!Chain(d) /\ Keys!Revoked(d)
  BY DEF Keys!Safe
<1>13. \A d \in KeysConsumer : d # c => Keys!Chain(d)' /\ Keys!Revoked(d)'
  BY <1>1, <1>7, <1>12 DEF Keys!Chain, Keys!Revoked, Keys!Distinct
<1>14. Keys!Common'
  <2>1. \* the sets of another consumer, up to t
        ASSUME NEW d \in KeysConsumer, t \in v3[d] PROVE {s \in v3[d] : s <= t} = v3[c] \cup {t}
    <3>1. /\ v2[c] \in v3[d] \cup {0} /\ \A s \in v3[d] : s < t => s <= v2[c]
      BY <1>1, <1>12, <2>1 DEF Keys!Chain
    <3>2. CASE v2[c] = 0
      <4>1. v3[c] = {} /\ \A s \in v3[d] : ~(s < t)
        BY <1>5, <1>6, <3>1, <3>2 DEF Keys!Chain
      <4> QED BY <1>4, <1>5, <2>1, <4>1
    <3>3. CASE v2[c] \in v3[d]
      <4>1. v3[c] = {s \in v3[d] : s <= v2[c]}
        BY <3>3 DEF Keys!Safe, Keys!Common
      <4> QED BY <1>4, <1>5, <2>1, <3>1, <4>1
    <3> QED BY <3>1, <3>2, <3>3
  <2> SUFFICES ASSUME NEW d \in KeysConsumer, NEW e \in KeysConsumer, v2'[d] \in v3'[e]
               PROVE  v3'[d] = {s \in v3'[e] : s <= v2'[d]}
    BY DEF Keys!Common
  <2>2. CASE d # c /\ e # c
    BY <1>7, <2>2 DEF Keys!Safe, Keys!Common
  <2>3. CASE d = c /\ e = c
    BY <1>4, <1>5, <1>8, <1>9, <2>3
  <2>4. CASE d = c /\ e # c
    BY <1>7, <1>8, <2>1, <2>4
  <2>5. CASE d # c /\ e = c
    <3>1. CASE v2[d] = t
      <4>1. t \in v3[d] /\ \A s \in v3[d] : s <= t
        BY <1>4, <1>12, <3>1 DEF Keys!Chain
      <4>2. v3[d] = v3[c] \cup {t}
        BY <2>1, <4>1
      <4> QED BY <1>7, <1>8, <2>5, <3>1, <4>1, <4>2
    <3>2. CASE v2[d] \in v3[c]
      <4>1. v3[d] = {s \in v3[c] : s <= v2[d]}
        BY <3>2 DEF Keys!Safe, Keys!Common
      <4>2. ~(t <= v2[d])
        BY <1>4, <1>5, <1>9, <3>2
      <4> QED BY <1>7, <1>8, <2>5, <4>1, <4>2
    <3> QED BY <1>7, <1>8, <2>5, <3>1, <3>2
  <2> QED BY <2>2, <2>3, <2>4, <2>5
<1>15. Keys!Types'
  <2>1. v2' \in [KeysConsumer -> 0 .. Len(v1)]
    BY <1>1, <1>2, <1>3
  <2>2. v3' \in [KeysConsumer -> SUBSET (1 .. Len(v1))]
    BY <1>1, <1>2
  <2> QED BY <1>1, <1>2, <2>1, <2>2 DEF Keys!Types
<1> QED BY <1>15, <1>10, <1>11, <1>13, <1>14 DEF Keys!Safe

\* Release offices and consumers, with sets and keys in any number.
LEMMA KeysNext == ASSUME Keys!Safe, Keys!Next \/ UNCHANGED <<v1, v2, v3>> PROVE Keys!Safe'
<1>1. CASE UNCHANGED <<v1, v2, v3>>
  <2>1. Keys!Types'
    BY <1>1 DEF Keys!Safe, Keys!Types
  <2>2. \A c \in KeysConsumer : Keys!Chain(c)' /\ Keys!Revoked(c)'
    BY <1>1 DEF Keys!Safe, Keys!Chain, Keys!Distinct, Keys!Revoked
  <2>3. Keys!Common'
    BY <1>1 DEF Keys!Safe, Keys!Common
  <2> QED BY <2>1, <2>2, <2>3 DEF Keys!Safe
<1> QED BY <1>1, KeysPublish, KeysAccept DEF Keys!Next

\* What the invariant says of keys and of consumers.
LEMMA KeysHold == ASSUME Keys!Safe PROVE Keys!RevokedForEver /\ Keys!OneHistory
<1>1. \A c \in KeysConsumer : Keys!Chain(c) /\ Keys!Revoked(c)
  BY DEF Keys!Safe
<1>2. Keys!OneHistory
  <2> SUFFICES ASSUME NEW c \in KeysConsumer, NEW d \in KeysConsumer, v2[c] = v2[d] PROVE v3[c] = v3[d]
    BY DEF Keys!OneHistory
  <2>1. CASE v2[c] = 0
    BY <1>1, <2>1 DEF Keys!Chain
  <2>2. CASE v2[c] # 0
    <3>1. v2[d] \in v3[d] /\ \A s \in v3[d] : s <= v2[d]
      BY <1>1, <2>2 DEF Keys!Chain
    <3>2. v3[c] = {s \in v3[d] : s <= v2[c]}
      BY <3>1 DEF Keys!Safe, Keys!Common
    <3> QED BY <3>1, <3>2
  <2> QED BY <2>1, <2>2
<1>3. Keys!RevokedForEver
  <2> SUFFICES ASSUME NEW c \in KeysConsumer, NEW s \in v3[c], NEW i \in DOMAIN v1[s].keys,
                      v1[s].keys[i].state = "revoked", NEW j \in DOMAIN Keys!KeysOf(v2[c]),
                      Keys!KeysOf(v2[c])[j].pk = v1[s].keys[i].pk, NEW t \in KeysTime
               PROVE  ~Keys!Verifies(Keys!KeysOf(v2[c])[j], t)
    BY DEF Keys!RevokedForEver
  <2>1. v2[c] # 0 /\ Keys!Distinct(v1[v2[c]].keys)
    BY <1>1 DEF Keys!Chain
  <2>2. LET keys == v1[v2[c]].keys
        IN i \in DOMAIN keys /\ keys[i].state = "revoked" /\ keys[i].pk = v1[s].keys[i].pk
    BY <1>1 DEF Keys!Revoked
  <2>3. i = j
    BY <2>1, <2>2 DEF Keys!Distinct, Keys!KeysOf
  <2> QED BY <2>1, <2>2, <2>3 DEF Keys!Verifies, Keys!KeysOf
<1> QED BY <1>2, <1>3

-----------------------------------------------------------------------------
(* The approval receipts: now, kids, revision, receipts, made, rows and accepted
   are v1 to v7. *)

\* A verifier that accepted nothing yet.
LEMMA ReceiptInit == ASSUME Receipt!Assumed, Receipt!Init PROVE Receipt!Safe
BY DEF Receipt!Assumed, Receipt!Init, Receipt!Safe, Receipt!Types, Receipt!OneReceipt, Receipt!Remembered, Receipt!SingleUse, Receipt!NotMade

\* What was accepted, its request and its receipts are what they were; rows stay
\* or their time has come.
LEMMA ReceiptRemembered ==
  ASSUME Receipt!Assumed, Receipt!Safe, Receipt!Types', v7' = v7, v1' >= v1,
         \A a \in v7 : v5'[a.request] = v5[a.request] /\ Receipt!Claims(a.receipt)' = Receipt!Claims(a.receipt),
         \A row \in v6 : row \in v6' \/ row.until <= v1'
  PROVE  Receipt!Remembered'
<1> SUFFICES ASSUME NEW a \in v7
             PROVE  /\ a.request \in ReceiptRequest /\ v5'[a.request] # Receipt!NotMade
                    /\ Receipt!Claims(a.receipt)' # {} /\ (Receipt!Held(a)' \/ Receipt!Past(a)')
  BY DEF Receipt!Remembered, Receipt!NotMade
<1>1. /\ a.request \in ReceiptRequest /\ v5[a.request] # Receipt!NotMade
      /\ Receipt!Claims(a.receipt) # {} /\ (Receipt!Held(a) \/ Receipt!Past(a))
  BY DEF Receipt!Safe, Receipt!Remembered
<1>2. /\ v5'[a.request] = v5[a.request] /\ v5[a.request] \in Nat
      /\ Receipt!Claims(a.receipt)' = Receipt!Claims(a.receipt)
      /\ v1 \in Nat /\ v1' \in Nat /\ ReceiptKept \in Nat /\ ReceiptSkew \in Nat
  BY <1>1 DEF Receipt!Safe, Receipt!Types, Receipt!Assumed
<1>3. \A c \in Receipt!Claims(a.receipt) : c.exp \in Nat
  BY DEF Receipt!Safe, Receipt!Types, Receipt!Claims
<1>4. CASE Receipt!Past(a)
  BY <1>2, <1>3, <1>4, <1>1 DEF Receipt!Past
<1>5. CASE Receipt!Held(a)
  <2>1. PICK row \in v6 :
          /\ row.request = a.request /\ row.receipt = a.receipt
          /\ row.until >= v5[a.request] + ReceiptKept
          /\ \A c \in Receipt!Claims(a.receipt) : row.until >= c.exp + ReceiptSkew
    BY <1>5 DEF Receipt!Held
  <2>2. row.until \in Nat
    BY DEF Receipt!Safe, Receipt!Types
  <2>3. CASE row \in v6'
    BY <1>1, <1>2, <2>1, <2>3 DEF Receipt!Held
  <2>4. CASE row.until <= v1'
    BY <1>1, <1>2, <1>3, <2>1, <2>2, <2>4 DEF Receipt!Past
  <2> QED BY <2>3, <2>4
<1> QED BY <1>1, <1>4, <1>5

\* evaluate: what is accepted was not accepted before, and has its row.
LEMMA ReceiptAccept ==
  ASSUME Receipt!Assumed, Receipt!Safe, NEW c \in v4, NEW r \in ReceiptRequest, NEW m \in ReceiptMetadata,
         NEW skew \in 0 .. ReceiptSkew, Receipt!Accept(c, r, m, skew)
  PROVE  Receipt!Safe'
<1> DEFINE row == [request |-> r, receipt |-> c.jti, metadata |-> m, until |-> Receipt!RetentionUntil(c, r)]
           new == [request |-> r, receipt |-> c.jti, at |-> v1]
<1>1. /\ v6' = v6 \cup {row} /\ v7' = v7 \cup {new}
      /\ v1' = v1 /\ v5' = v5 /\ v4' = v4
      /\ v5[r] # Receipt!NotMade /\ Receipt!InTime(c, skew) /\ Receipt!Fresh(r) /\ ~Receipt!Replayed(c, r)
  BY DEF Receipt!Accept
<1>2. /\ v1 \in Nat /\ v5[r] \in Nat /\ c.exp \in Nat /\ skew \in Nat /\ skew <= ReceiptSkew
      /\ ReceiptSkew \in Nat /\ ReceiptKept \in Nat /\ ReceiptAge \in Nat /\ ReceiptAge < ReceiptKept
  BY DEF Receipt!Safe, Receipt!Types, Receipt!Assumed
<1>3. row.until \in Nat /\ row.until >= v5[r] + ReceiptKept /\ row.until >= c.exp + ReceiptSkew
  BY <1>2 DEF Receipt!RetentionUntil, Receipt!Larger
<1>4. Receipt!Types' /\ Receipt!OneReceipt'
  BY <1>1, <1>3 DEF Receipt!Safe, Receipt!Types, Receipt!OneReceipt
<1>5. Receipt!Claims(c.jti) = {c} /\ \A j : Receipt!Claims(j)' = Receipt!Claims(j)
  BY <1>1 DEF Receipt!Claims, Receipt!Safe, Receipt!OneReceipt
<1>6. Receipt!Remembered'
  <2>1. Receipt!Held(new)'
    BY <1>1, <1>3, <1>5 DEF Receipt!Held
  <2>2. \A a \in v7 : Receipt!Held(a) => Receipt!Held(a)'
    BY <1>1, <1>5 DEF Receipt!Held
  <2>3. \A a \in v7 : Receipt!Past(a) => Receipt!Past(a)'
    BY <1>1, <1>5 DEF Receipt!Past
  <2> QED BY <1>1, <1>5, <2>1, <2>2, <2>3 DEF Receipt!Safe, Receipt!Remembered, Receipt!NotMade
<1>7. ASSUME NEW a \in v7, a.request = r \/ a.receipt = c.jti PROVE FALSE
  <2>1. Receipt!Held(a) \/ Receipt!Past(a)
    BY DEF Receipt!Safe, Receipt!Remembered
  <2>2. ~Receipt!Held(a)
    BY <1>1, <1>7 DEF Receipt!Held, Receipt!Replayed
  <2>3. Receipt!Past(a)
    BY <2>1, <2>2
  <2>4. CASE a.request = r
    BY <1>1, <1>2, <2>3, <2>4 DEF Receipt!Past, Receipt!Fresh
  <2>5. CASE a.receipt = c.jti
    <3>1. v1 >= c.exp + ReceiptSkew
      BY <1>5, <2>3, <2>5 DEF Receipt!Past
    <3> QED BY <1>1, <1>2, <3>1 DEF Receipt!InTime
  <2> QED BY <1>7, <2>4, <2>5
<1>8. Receipt!SingleUse'
  BY <1>1, <1>7 DEF Receipt!Safe, Receipt!SingleUse
<1> QED BY <1>4, <1>6, <1>8 DEF Receipt!Safe

\* Every step keeps the invariant: a receipt that is issued is a new one, a
\* request that is made was not, and a row goes when its time has come.
LEMMA ReceiptNext == ASSUME Receipt!Assumed, Receipt!Safe, Receipt!Next \/ UNCHANGED Receipt!vars PROVE Receipt!Safe'
<1>0. ASSUME v7' = v7, Receipt!Types', Receipt!OneReceipt', v1' >= v1,
             \A a \in v7 : v5'[a.request] = v5[a.request] /\ Receipt!Claims(a.receipt)' = Receipt!Claims(a.receipt),
             \A row \in v6 : row \in v6' \/ row.until <= v1'
      PROVE  Receipt!Safe'
  <2>1. Receipt!Remembered'
    BY <1>0, ReceiptRemembered
  <2>2. Receipt!SingleUse'
    BY <1>0 DEF Receipt!Safe, Receipt!SingleUse
  <2> QED BY <1>0, <2>1, <2>2 DEF Receipt!Safe
<1>1. CASE Receipt!Tick
  <2>1. Receipt!Types' /\ Receipt!OneReceipt' /\ v1' >= v1
    BY <1>1 DEF Receipt!Tick, Receipt!Safe, Receipt!Types, Receipt!OneReceipt, Receipt!Assumed
  <2> QED BY <1>0, <1>1, <2>1 DEF Receipt!Tick, Receipt!Claims
<1>2. CASE Receipt!Revise \/ (\E k \in ReceiptKid : Receipt!RetireKey(k)) \/ UNCHANGED Receipt!vars
  <2>1. UNCHANGED <<v1, v4, v5, v6, v7>>
    BY <1>2 DEF Receipt!Revise, Receipt!RetireKey, Receipt!vars
  <2>2. Receipt!Types' /\ Receipt!OneReceipt' /\ v1' >= v1
    BY <2>1 DEF Receipt!Safe, Receipt!Types, Receipt!OneReceipt, Receipt!Assumed
  <2> QED BY <1>0, <2>1, <2>2 DEF Receipt!Claims
<1>3. ASSUME NEW j \in ReceiptJti, NEW k \in ReceiptKid, Receipt!Issue(j, k) PROVE Receipt!Safe'
  <2>1. PICK c : v4' = v4 \cup {c} /\ c.jti = j /\ c.exp \in Nat
    <3>1. PICK iat \in {v1, v1 + 1}, life \in 1 .. ReceiptTtl, m \in ReceiptMetadata, iss \in ReceiptAuthority, wait \in {0, 1} :
            v4' = v4 \cup
              {[jti |-> j, kid |-> k, iss |-> iss, revision |-> v3, metadata |-> m,
                iat |-> iat, nbf |-> iat + wait, exp |-> iat + life]}
      BY <1>3 DEF Receipt!Issue
    <3> DEFINE c == [jti |-> j, kid |-> k, iss |-> iss, revision |-> v3, metadata |-> m,
                     iat |-> iat, nbf |-> iat + wait, exp |-> iat + life]
    <3>2. iat + life \in Nat
      BY DEF Receipt!Safe, Receipt!Types, Receipt!Assumed
    <3>3. v4' = v4 \cup {c} /\ c.jti = j /\ c.exp \in Nat
      BY <3>1, <3>2
    <3> HIDE DEF c
    <3> QED BY <3>3
  <2>2. /\ UNCHANGED <<v1, v5, v6, v7>>
        /\ \A d \in v4 : d.jti # j
    BY <1>3 DEF Receipt!Issue
  <2>3. Receipt!Types' /\ Receipt!OneReceipt' /\ v1' >= v1
    BY <2>1, <2>2 DEF Receipt!Safe, Receipt!Types, Receipt!OneReceipt, Receipt!Assumed
  <2>4. \A a \in v7 : Receipt!Claims(a.receipt)' = Receipt!Claims(a.receipt)
    BY <2>1, <2>2 DEF Receipt!Safe, Receipt!Remembered, Receipt!Claims
  <2>5. v7' = v7 /\ \A a \in v7 : v5'[a.request] = v5[a.request]
    BY <2>2
  <2>6. \A row \in v6 : row \in v6'
    BY <2>2
  <2> QED BY <1>0, <2>3, <2>4, <2>5, <2>6
<1>4. ASSUME NEW r \in ReceiptRequest, Receipt!MakeRequest(r) PROVE Receipt!Safe'
  <2>1. /\ UNCHANGED <<v1, v4, v6, v7>> /\ v5[r] = Receipt!NotMade
        /\ \E t \in Nat : v5' = [v5 EXCEPT ![r] = t]
    <3>1. PICK t \in {v1, v1 + 1} : v5' = [v5 EXCEPT ![r] = t]
      BY <1>4 DEF Receipt!MakeRequest
    <3>2. t \in Nat
      BY DEF Receipt!Safe, Receipt!Types, Receipt!Assumed
    <3> QED BY <1>4, <3>1, <3>2 DEF Receipt!MakeRequest
  <2>2. Receipt!Types' /\ Receipt!OneReceipt' /\ v1' >= v1
    BY <2>1 DEF Receipt!Safe, Receipt!Types, Receipt!OneReceipt, Receipt!Assumed
  <2>3. \A a \in v7 : v5'[a.request] = v5[a.request]
    BY <2>1 DEF Receipt!Safe, Receipt!Types, Receipt!Remembered
  <2> QED BY <1>0, <2>1, <2>2, <2>3 DEF Receipt!Claims
<1>5. ASSUME NEW row \in v6, Receipt!Purge(row) PROVE Receipt!Safe'
  <2>1. /\ UNCHANGED <<v1, v4, v5, v7>> /\ v6' = v6 \ {row} /\ row.until <= v1
    BY <1>5 DEF Receipt!Purge
  <2>2. Receipt!Types' /\ Receipt!OneReceipt' /\ v1' >= v1
    BY <2>1 DEF Receipt!Safe, Receipt!Types, Receipt!OneReceipt, Receipt!Assumed
  <2> QED BY <1>0, <2>1, <2>2 DEF Receipt!Claims
<1> QED BY <1>1, <1>2, <1>3, <1>4, <1>5, ReceiptAccept DEF Receipt!Next

-----------------------------------------------------------------------------
(* The conformance suite: v1 to v7 are files, script, at, mem, verdict, touched
   and changes. *)

\* The steps of a script, and what comes before them.
SuiteStep(script, i) == i \in 1 .. Len(Suite!Steps[script])
SuiteBefore(script, i, s) == \E k \in 1 .. i - 1 : Suite!Steps[script][k] = s

SuiteTerminal == {"ppa", "uri", "ppaDigests", "terminalDigests"}
SuiteReceipt  == {"receipt", "receiptDigests"}
SuitePackage  == {"raw", "manifests", "published"}
SuiteOwn      == {"schemas", "schemaSet", "fixtures", "bootstrap", "strict", "digests", "index", "validators"}

SuiteOrdered(script, i, s) ==
  /\ s \in SuiteTerminal \cup SuiteReceipt \cup SuitePackage \cup SuiteOwn
  /\ s \in SuiteOwn => script = "suite"
  /\ s \in SuitePackage => script = "package"
  /\ s \in SuiteTerminal => script \in {"suite", "terminal", "package"}
  /\ s \in SuiteReceipt => script \in {"suite", "receipt"}
  /\ s = "fixtures" => SuiteBefore(script, i, "schemas")
  /\ s \in {"bootstrap", "strict", "index"} => SuiteBefore(script, i, "fixtures")
  /\ s \in SuiteTerminal \cup SuiteReceipt /\ script = "suite" => SuiteBefore(script, i, "validators")
  /\ s \in SuiteTerminal /\ script = "package" => SuiteBefore(script, i, "published")
  /\ s \in SuiteTerminal \cup {"published", "manifests"} /\ script = "package" => SuiteBefore(script, i, "raw")

\* The steps that load what later ones use come before them.
LEMMA SuiteOrder ==
  ASSUME NEW script \in Suite!Script, NEW i \in 1 .. Len(Suite!Steps[script])
  PROVE  SuiteOrdered(script, i, Suite!Steps[script][i])
<1>1. script \in {"suite", "terminal", "receipt", "package"}
  BY DEF Suite!Script, Suite!Steps
<1>2. CASE script = "suite"
  <2>1. Suite!Steps[script] =
          <<"schemas", "schemaSet", "fixtures", "bootstrap", "strict", "digests", "index", "validators",
            "ppa", "uri", "ppaDigests", "terminalDigests", "receipt", "receiptDigests">>
    BY <1>2 DEF Suite!Steps
  <2>2. Len(Suite!Steps[script]) = 14
    BY <2>1
  <2>3. i \in 1 .. 14
    BY <2>2
  <2> QED BY <1>2, <2>1, <2>3 DEF SuiteBefore, SuiteOrdered, SuiteTerminal, SuiteReceipt, SuitePackage, SuiteOwn
<1>3. CASE script = "terminal"
  <2>1. Suite!Steps[script] = <<"ppa", "uri", "ppaDigests", "terminalDigests">>
    BY <1>3 DEF Suite!Steps
  <2>2. i \in 1 .. 4
    BY <2>1
  <2> QED BY <1>3, <2>1, <2>2 DEF SuiteBefore, SuiteOrdered, SuiteTerminal, SuiteReceipt, SuitePackage, SuiteOwn
<1>4. CASE script = "receipt"
  <2>1. Suite!Steps[script] = <<"receipt", "receiptDigests">>
    BY <1>4 DEF Suite!Steps
  <2>2. i \in 1 .. 2
    BY <2>1
  <2> QED BY <1>4, <2>1, <2>2 DEF SuiteBefore, SuiteOrdered, SuiteTerminal, SuiteReceipt, SuitePackage, SuiteOwn
<1>5. CASE script = "package"
  <2>1. Suite!Steps[script] = <<"raw", "manifests", "published", "ppa", "uri", "ppaDigests", "terminalDigests">>
    BY <1>5 DEF Suite!Steps
  <2>2. i \in 1 .. 7
    BY <2>1
  <2> QED BY <1>5, <2>1, <2>2 DEF SuiteBefore, SuiteOrdered, SuiteTerminal, SuiteReceipt, SuitePackage, SuiteOwn
<1> QED BY <1>1, <1>2, <1>3, <1>4, <1>5

\* Every script has a step.
LEMMA SuiteLengths == \A script \in Suite!Script : Len(Suite!Steps[script]) \in Nat \ {0}
<1>1. Suite!Script = {"suite", "terminal", "receipt", "package"}
  BY DEF Suite!Script, Suite!Steps
<1>2. /\ Len(Suite!Steps["suite"]) = 14 /\ Len(Suite!Steps["terminal"]) = 4
      /\ Len(Suite!Steps["receipt"]) = 2 /\ Len(Suite!Steps["package"]) = 7
  BY DEF Suite!Steps
<1>3. 14 \in Nat \ {0} /\ 4 \in Nat \ {0} /\ 2 \in Nat \ {0} /\ 7 \in Nat \ {0}
  OBVIOUS
<1> QED BY <1>1, <1>2, <1>3, Zenon

\* The steps of a script have been taken that show what its verdict vouches for.
LEMMA SuiteShows ==
  LET Has(script, s) == \E i \in 1 .. Len(Suite!Steps[script]) : Suite!Steps[script][i] = s
  IN  /\ \A s \in {"index", "schemaSet", "digests", "terminalDigests", "receiptDigests"} : Has("suite", s)
      /\ Has("terminal", "terminalDigests") /\ Has("receipt", "receiptDigests") /\ Has("package", "raw")
<1> DEFINE Has(script, s) == \E i \in 1 .. Len(Suite!Steps[script]) : Suite!Steps[script][i] = s
<1>1. \A s \in {"index", "schemaSet", "digests", "terminalDigests", "receiptDigests"} : Has("suite", s)
  <2>1. Suite!Steps["suite"] =
          <<"schemas", "schemaSet", "fixtures", "bootstrap", "strict", "digests", "index", "validators",
            "ppa", "uri", "ppaDigests", "terminalDigests", "receipt", "receiptDigests">>
    BY DEF Suite!Steps
  <2>2. Len(Suite!Steps["suite"]) = 14
    BY <2>1
  <2> QED BY <2>1, <2>2
<1>2. Has("terminal", "terminalDigests")
  <2>1. Suite!Steps["terminal"] = <<"ppa", "uri", "ppaDigests", "terminalDigests">>
    BY DEF Suite!Steps
  <2> QED BY <2>1
<1>3. Has("receipt", "receiptDigests") 
  <2>1. Suite!Steps["receipt"] = <<"receipt", "receiptDigests">>
    BY DEF Suite!Steps
  <2> QED BY <2>1
<1>4. Has("package", "raw")
  <2>1. Suite!Steps["package"] = <<"raw", "manifests", "published", "ppa", "uri", "ppaDigests", "terminalDigests">>
    BY DEF Suite!Steps
  <2> QED BY <2>1
<1> QED BY <1>1, <1>2, <1>3, <1>4

\* Nothing has run.
LEMMA SuiteInit == ASSUME Suite!Init PROVE Suite!Safe
<1>1. 0 \in 0 .. Len(Suite!Steps[v2]) /\ v2 \in Suite!Script
  BY DEF Suite!Init, Suite!Script, Suite!Steps
<1>2. v4 = [f \in Suite!File |-> v4[f]] /\ v4["terminal"] = SuiteUnread
  BY DEF Suite!Init, Suite!Nothing, Suite!File
<1> QED
  BY <1>1, <1>2 DEF Suite!Init, Suite!Safe, Suite!Types, Suite!Loaded, Suite!Passed, Suite!VerdictVouches

\* A run starts, with itself in memory.
LEMMA SuiteStart == ASSUME Suite!Safe, Suite!Start PROVE Suite!Safe'
<1>1. /\ v3' = 1 /\ v5' = "none" /\ v6' = {} /\ v2' \in Suite!Script /\ v1' = v1
      /\ v4' = [f \in Suite!File |-> IF f = v2' THEN v1[f] ELSE SuiteUnread]
  BY DEF Suite!Start
<1>2. 1 \in 0 .. Len(Suite!Steps[v2'])
  BY <1>1, SuiteLengths
<1>3. Suite!Types'
  BY <1>1, <1>2 DEF Suite!Safe, Suite!Types
<1>4. 1 .. v3' - 1 = {}
  BY <1>1
<1>5. Suite!Loaded'
  BY <1>1, <1>4 DEF Suite!Loaded, Suite!Held
<1>6. Suite!Passed'
  BY <1>1, <1>4 DEF Suite!Passed
<1>7. v2' = "package" => v4'["terminal"] = SuiteUnread
  BY <1>1 DEF Suite!File
<1>8. Suite!VerdictVouches'
  BY <1>1, <1>7 DEF Suite!VerdictVouches
<1> QED BY <1>3, <1>5, <1>6, <1>8 DEF Suite!Safe

\* The files change; if that touches none, they are as they were.
LEMMA SuiteChange == ASSUME Suite!Assumed, Suite!Safe, Suite!Change PROVE Suite!Safe'
<1>1. /\ v1' \in SuiteCorpora /\ v6' = v6 \cup {f \in Suite!File : v1'[f] # v1[f]} /\ UNCHANGED <<v2, v3, v4, v5>>
  BY DEF Suite!Change
<1>2. Suite!Types'
  BY <1>1 DEF Suite!Safe, Suite!Types
<1>3. v6' = {} => v6 = {} /\ v1' = v1
  <2> SUFFICES ASSUME v6' = {} PROVE v6 = {} /\ v1' = v1
    OBVIOUS
  <2>1. v6 = {} /\ \A f \in Suite!File : v1'[f] = v1[f]
    BY <1>1
  <2>2. v1 = [f \in Suite!File |-> v1[f]] /\ v1' = [f \in Suite!File |-> v1'[f]]
    BY <1>1 DEF Suite!Assumed, Suite!Safe, Suite!Types
  <2> QED BY <2>1, <2>2
<1>4. Suite!Loaded'
  BY <1>1, <1>3 DEF Suite!Safe, Suite!Loaded, Suite!Held
<1>5. Suite!Passed'
  BY <1>1, <1>3 DEF Suite!Safe, Suite!Passed, Suite!Shown, Suite!Exact, Suite!Loadable, Suite!AsPublished
<1>6. Suite!VerdictVouches'
  BY <1>1, <1>3 DEF Suite!Safe, Suite!VerdictVouches, Suite!AsPublished
<1> QED BY <1>2, <1>4, <1>5, <1>6 DEF Suite!Safe

\* What the steps so far have loaded is what the files are.
LEMMA SuiteHeld ==
  ASSUME Suite!Safe, v3 > 0, v6 = {}, NEW s, SuiteBefore(v2, v3, s), NEW f \in Suite!File, f \in Suite!Loads(s)
  PROVE  v4[f] = v1[f]
BY DEF SuiteBefore, Suite!Safe, Suite!Loaded, Suite!Held

\* Where the files that a run uses are the published ones, each of its steps passes.
LEMMA SuitePasses ==
  ASSUME Suite!Assumed, Suite!Safe, v3 > 0, v6 = {}, Suite!AsPublished(Suite!Uses[v2]) PROVE Suite!Passes(Suite!Here)
<1> DEFINE s == Suite!Here
<1>1. v2 \in Suite!Script /\ v3 \in 1 .. Len(Suite!Steps[v2])
  BY SuiteLengths DEF Suite!Safe, Suite!Types
<1>2. SuiteOrdered(v2, v3, s)
  BY <1>1, SuiteOrder DEF Suite!Here
<1> SUFFICES Suite!Passes(s)
  OBVIOUS
<1> HIDE DEF s
<1>4. \A f \in Suite!Uses[v2] : v1[f] = SuitePublished[f]
  BY DEF Suite!AsPublished
<1>5. /\ \A f \in Suite!File : SuitePublished[f] # SuiteUnread
      /\ \A m \in DOMAIN Suite!Pins : \A f \in Suite!Pins[m] : SuitePublished[m].pins[f] = SuitePublished[f]
      /\ \A c \in DOMAIN Suite!Cases : SuiteAnswered(c, [f \in Suite!Cases[c] |-> SuitePublished[f].text])
  BY DEF Suite!Assumed
<1>6. \A m \in DOMAIN Suite!Pins : m \in Suite!Uses[v2] /\ Suite!Pins[m] \subseteq Suite!Uses[v2]
          /\ m \in Suite!File /\ Suite!Pins[m] \subseteq Suite!File => Suite!Exact(m)
  BY <1>4, <1>5 DEF Suite!Exact, Suite!Loadable
<1>7. ASSUME NEW c \in DOMAIN Suite!Cases, NEW Held \in SUBSET Suite!File, Suite!Cases[c] \subseteq Suite!Uses[v2],
             Suite!Cases[c] \subseteq Suite!File, \A f \in Held : v4[f] = v1[f]
      PROVE  Suite!Pass(c, Held)
  <2>1. [f \in Suite!Cases[c] |-> (IF f \in Held THEN v4[f] ELSE v1[f]).text]
          = [f \in Suite!Cases[c] |-> SuitePublished[f].text]
    BY <1>4, <1>7
  <2> QED BY <1>4, <1>5, <1>7, <2>1 DEF Suite!Pass, Suite!Loadable
<1>8. CASE s \in SuiteOwn
  <2>1. v2 = "suite" /\ Suite!Uses[v2] = Suite!File
    BY <1>2, <1>8 DEF SuiteOrdered, Suite!Uses
  <2>2. \A m \in DOMAIN Suite!Pins : m \in Suite!File /\ Suite!Pins[m] \subseteq Suite!File /\ Suite!Exact(m)
    BY <1>6, <2>1 DEF Suite!Pins, Suite!File, Suite!Schema
  <2>3. \A c \in DOMAIN Suite!Cases : Suite!Cases[c] \subseteq Suite!File
    BY DEF Suite!Cases, Suite!File, Suite!Schema
  <2>4. \A f \in Suite!File : v1[f] # SuiteUnread /\ v1[f] = SuitePublished[f]
    BY <1>4, <1>5, <2>1
  <2>5. CASE s \in {"schemas", "validators"}
    BY <2>4, <2>5 DEF Suite!Passes, Suite!schema_registry, Suite!Loadable, Suite!File, Suite!Schema
  <2>6. CASE s \in {"schemaSet", "digests"}
    BY <2>2, <2>6 DEF Suite!Passes, Suite!validate_schema_set, Suite!validate_priority_digests, Suite!Pins
  <2>7. CASE s = "fixtures"
    <3>1. \A f \in Suite!Schema : v4[f] = v1[f]
      BY <1>2, <2>7, SuiteHeld DEF SuiteOrdered, Suite!Loads, Suite!File
    <3>2. Suite!Pass("fixtures", Suite!Schema)
      BY <1>7, <2>1, <2>3, <3>1 DEF Suite!Cases, Suite!File
    <3> QED BY <2>7, <3>2 DEF Suite!Passes, Suite!run_fixtures
  <2>8. CASE s \in {"bootstrap", "strict", "index"}
    <3>1. v4["vectors"] = v1["vectors"]
      BY <1>2, <2>8, SuiteHeld DEF SuiteOrdered, Suite!Loads, Suite!File
    <3>2. Suite!Pass("bootstrap", {"vectors"}) /\ Suite!Pass("strict", {"vectors"})
      BY <1>7, <2>1, <2>3, <3>1 DEF Suite!Cases, Suite!File
    <3>3. Suite!delegated_index
      BY <1>5, <2>2, <2>4, <3>1 DEF Suite!delegated_index, Suite!Pins, Suite!File, Suite!Exact
    <3> QED BY <2>8, <3>2, <3>3 DEF Suite!Passes, Suite!bootstrap_root_set, Suite!check_strict_vectors
  <2> QED BY <1>8, <2>5, <2>6, <2>7, <2>8 DEF SuiteOwn
<1>9. CASE s \in SuiteTerminal
  <2>1. v2 \in {"suite", "terminal", "package"}
    BY <1>2, <1>9 DEF SuiteOrdered
  <2>2. v4["terminal"] = v1["terminal"]
    <3>1. CASE v2 = "terminal"
      BY <1>1, <3>1 DEF Suite!Safe, Suite!Loaded, Suite!Held, Suite!File
    <3>2. CASE v2 = "suite"
      BY <1>2, <1>9, <3>2, SuiteHeld DEF SuiteOrdered, Suite!Loads, Suite!File
    <3>3. CASE v2 = "package"
      BY <1>2, <1>9, <3>3, SuiteHeld DEF SuiteOrdered, Suite!Loads, Suite!File
    <3> QED BY <2>1, <3>1, <3>2, <3>3
  <2>3. Suite!Packaged \subseteq Suite!Uses[v2] /\ Suite!Packaged \subseteq Suite!File
    BY <2>1 DEF Suite!Uses, Suite!Packaged, Suite!File, Suite!Schema
  <2>4. Suite!Pass("ppa", {"terminal"}) /\ Suite!Pass("uri", {"terminal"})
    BY <1>7, <2>2, <2>3 DEF Suite!Cases, Suite!Packaged
  <2>5. Suite!Exact("ppaDigests") /\ Suite!Exact("terminalDigests")
    BY <1>6, <2>3 DEF Suite!Pins, Suite!Packaged
  <2> QED
    BY <1>9, <2>4, <2>5 DEF SuiteTerminal, Suite!Passes, Suite!validate_ppa, Suite!validate_uri,
       Suite!validate_ppa_digests, Suite!validate_digests
<1>10. CASE s \in SuiteReceipt
  <2>1. v2 \in {"suite", "receipt"}
    BY <1>2, <1>10 DEF SuiteOrdered
  <2>2. v4["receipt"] = v1["receipt"]
    <3>1. CASE v2 = "receipt"
      BY <1>1, <3>1 DEF Suite!Safe, Suite!Loaded, Suite!Held, Suite!File
    <3>2. CASE v2 = "suite"
      BY <1>2, <1>10, <3>2, SuiteHeld DEF SuiteOrdered, Suite!Loads, Suite!File
    <3> QED BY <2>1, <3>1, <3>2
  <2> DEFINE All == Suite!Cases.receipt \cup Suite!Pins.receiptDigests \cup {"receiptDigests"}
  <2>3. All \subseteq Suite!Uses[v2] /\ All \subseteq Suite!File
    BY <2>1 DEF Suite!Uses, Suite!Cases, Suite!Pins, Suite!File, Suite!Schema
  <2>4. Suite!Pass("receipt", {"receipt"})
    BY <1>7, <2>2, <2>3 DEF Suite!Cases, Suite!File
  <2>5. Suite!Exact("receiptDigests") /\ Suite!Exact("receiptVectors")
    BY <1>6, <2>3 DEF Suite!Pins, Suite!Cases
  <2> QED
    BY <1>10, <2>4, <2>5 DEF SuiteReceipt, Suite!Passes, Suite!validate_vectors, Suite!receipt_validate_digests
<1>11. CASE s \in SuitePackage
  <2>1. v2 = "package" /\ Suite!Uses[v2] = Suite!Packaged
    BY <1>2, <1>11 DEF SuiteOrdered, Suite!Uses
  <2> QED
    BY <1>4, <1>11, <2>1 DEF SuitePackage, Suite!Passes, Suite!raw_digests, Suite!verify_manifests,
       Suite!load_published_validator, Suite!Packaged
<1> QED BY <1>2, <1>8, <1>9, <1>10, <1>11 DEF SuiteOrdered

\* A step fails: the files that the run uses are not the published ones.
LEMMA SuiteFail == ASSUME Suite!Assumed, Suite!Safe, Suite!Fail PROVE Suite!Safe'
<1>1. /\ v3 > 0 /\ ~Suite!Passes(Suite!Here) /\ v3' = 0 /\ UNCHANGED <<v1, v2, v4, v6>>
      /\ v5' = IF Suite!Here \in {"raw", "manifests", "published"} THEN "integrity_failed" ELSE "validation_failed"
  BY DEF Suite!Fail
<1>2. v2 \in Suite!Script /\ v3 \in 1 .. Len(Suite!Steps[v2]) /\ Len(Suite!Steps[v2]) \in Nat
  BY <1>1, SuiteLengths DEF Suite!Safe, Suite!Types
<1>3. v5' # "ok" /\ (v6 = {} => ~Suite!AsPublished(Suite!Uses[v2]))
  BY <1>1, SuitePasses
<1>4. v6 = {} /\ v2 = "package" => v5' = "integrity_failed"
  <2> SUFFICES ASSUME v6 = {}, v2 = "package" PROVE v5' = "integrity_failed"
    OBVIOUS
  <2>1. ~Suite!AsPublished(Suite!Packaged) /\ SuiteOrdered(v2, v3, Suite!Here)
    BY <1>2, <1>3, SuiteOrder DEF Suite!Uses, Suite!Here
  <2>2. ~SuiteBefore(v2, v3, "raw")
    BY <1>1, <2>1 DEF SuiteBefore, Suite!Safe, Suite!Passed, Suite!Shown
  <2>3. Suite!Here \in SuitePackage
    BY <2>1, <2>2 DEF SuiteOrdered, SuiteOwn, SuiteReceipt
  <2> QED BY <1>1, <2>3 DEF SuitePackage
<1>5. Suite!Types' /\ Suite!Loaded'
  <2>1. 0 \in 0 .. Len(Suite!Steps[v2])
    BY <1>2
  <2>2. ~(v3' > 0)
    BY <1>1
  <2> QED BY <1>1, <2>1, <2>2 DEF Suite!Safe, Suite!Types, Suite!Loaded
<1>6. Suite!Passed'
  BY <1>1, <1>3 DEF Suite!Passed
<1>7. Suite!VerdictVouches'
  BY <1>1, <1>3, <1>4 DEF Suite!Safe, Suite!VerdictVouches, Suite!AsPublished
<1> QED BY <1>5, <1>6, <1>7 DEF Suite!Safe

\* A step passes: what it has shown is so.
LEMMA SuiteShown ==
  ASSUME Suite!Assumed, Suite!Safe, v3 > 0, v6 = {}, Suite!Passes(Suite!Here) PROVE Suite!Shown(Suite!Here)
<1>1. Suite!Here = "index" => Suite!AsPublished(Suite!Pins.vectors)
  BY DEF Suite!Passes, Suite!delegated_index, Suite!AsPublished
<1>2. Suite!Here = "raw" => Suite!AsPublished(Suite!Packaged)
  BY DEF Suite!Passes, Suite!raw_digests, Suite!AsPublished
<1>3. Suite!Here \in {"schemaSet", "digests", "terminalDigests", "receiptDigests"} => Suite!Exact(Suite!Here)
  BY DEF Suite!Passes, Suite!validate_schema_set, Suite!validate_priority_digests, Suite!validate_digests,
     Suite!receipt_validate_digests
<1> QED BY <1>1, <1>2, <1>3 DEF Suite!Shown

\* All steps have passed: the files are the published ones that the digests lead to.
LEMMA SuiteVouches ==
  ASSUME Suite!Assumed, v2 \in Suite!Script, \A i \in 1 .. Len(Suite!Steps[v2]) : Suite!Shown(Suite!Steps[v2][i])
  PROVE  /\ Suite!AsPublished(Suite!ByCode[v2])
         /\ Suite!AsPublished(Suite!Root[v2]) => Suite!AsPublished(Suite!ByRoot[v2])
<1>1. v2 \in {"suite", "terminal", "receipt", "package"}
  BY DEF Suite!Script, Suite!Steps
<1>2. ASSUME NEW m \in DOMAIN Suite!Pins, Suite!Exact(m), v1[m] = SuitePublished[m]
      PROVE  Suite!AsPublished(Suite!Pins[m])
  BY <1>2 DEF Suite!Assumed, Suite!Exact, Suite!AsPublished
<1>3. CASE v2 = "suite"
  <2>1. /\ Suite!AsPublished(Suite!Pins.vectors) /\ Suite!Exact("schemaSet") /\ Suite!Exact("digests")
        /\ Suite!Exact("terminalDigests") /\ Suite!Exact("receiptDigests")
    BY <1>3, SuiteShows DEF Suite!Shown
  <2>2. v1["terminalDigests"] = SuitePublished["terminalDigests"] /\ v1["receiptDigests"] = SuitePublished["receiptDigests"]
    BY <2>1 DEF Suite!Pins, Suite!AsPublished
  <2>3. Suite!AsPublished(Suite!Pins.terminalDigests) /\ Suite!AsPublished(Suite!Pins.receiptDigests)
    BY <1>2, <2>1, <2>2 DEF Suite!Pins
  <2>4. Suite!AsPublished(Suite!ByCode[v2])
    BY <1>3, <2>1, <2>3 DEF Suite!ByCode, Suite!AsPublished
  <2>5. ASSUME Suite!AsPublished(Suite!Root[v2]) PROVE Suite!AsPublished(Suite!ByRoot[v2])
    <3>1. v1["digests"] = SuitePublished["digests"]
      BY <1>3, <2>5 DEF Suite!Root, Suite!AsPublished
    <3>2. Suite!AsPublished(Suite!Pins.digests)
      BY <1>2, <2>1, <3>1 DEF Suite!Pins
    <3>3. v1["schemaSet"] = SuitePublished["schemaSet"]
      BY <3>2 DEF Suite!Pins, Suite!AsPublished
    <3>4. Suite!AsPublished(Suite!Pins.schemaSet)
      BY <1>2, <2>1, <3>3 DEF Suite!Pins
    <3> QED
      BY <1>3, <2>1, <2>3, <3>1, <3>2, <3>4 DEF Suite!ByRoot, Suite!AsPublished, Suite!Pins, Suite!File, Suite!Schema
  <2> QED BY <2>4, <2>5
<1>4. CASE v2 = "terminal"
  <2>1. Suite!Exact("terminalDigests")
    BY <1>4, SuiteShows DEF Suite!Shown
  <2>2. /\ Suite!ByCode[v2] = {} /\ Suite!Root[v2] = {"terminalDigests"}
        /\ Suite!ByRoot[v2] = Suite!Pins["terminalDigests"] /\ "terminalDigests" \in DOMAIN Suite!Pins
    BY <1>4 DEF Suite!ByCode, Suite!Root, Suite!ByRoot, Suite!Pins
  <2> QED BY <1>2, <2>1, <2>2 DEF Suite!AsPublished
<1>6. CASE v2 = "receipt"
  <2>1. Suite!Exact("receiptDigests")
    BY <1>6, SuiteShows DEF Suite!Shown
  <2>2. /\ Suite!ByCode[v2] = {} /\ Suite!Root[v2] = {"receiptDigests"}
        /\ Suite!ByRoot[v2] = Suite!Pins["receiptDigests"] /\ "receiptDigests" \in DOMAIN Suite!Pins
    BY <1>6 DEF Suite!ByCode, Suite!Root, Suite!ByRoot, Suite!Pins
  <2> QED BY <1>2, <2>1, <2>2 DEF Suite!AsPublished
<1>5. CASE v2 = "package"
  <2>1. Suite!AsPublished(Suite!Packaged)
    BY <1>5, SuiteShows DEF Suite!Shown
  <2> QED BY <1>5, <2>1 DEF Suite!ByCode, Suite!ByRoot
<1> QED BY <1>1, <1>3, <1>4, <1>5, <1>6

\* A step passes; after the last one the run says ok.
LEMMA SuiteCheck == ASSUME Suite!Assumed, Suite!Safe, Suite!Check PROVE Suite!Safe'
<1> DEFINE n == Len(Suite!Steps[v2])
<1>1. /\ v3 > 0 /\ Suite!Passes(Suite!Here) /\ UNCHANGED <<v1, v2, v6>>
      /\ v4' = [f \in Suite!File |-> IF f \in Suite!Loads(Suite!Here) THEN v1[f] ELSE v4[f]]
      /\ IF v3 = n THEN v3' = 0 /\ v5' = "ok" ELSE v3' = v3 + 1 /\ v5' = v5
  BY DEF Suite!Check, Suite!Keep
<1>2. v2 \in Suite!Script /\ n \in Nat /\ v3 \in 1 .. n
  BY <1>1, SuiteLengths DEF Suite!Safe, Suite!Types
<1>3. Suite!Types'
  <2>1. v3' \in 0 .. n
    BY <1>1, <1>2
  <2> QED BY <1>1, <2>1 DEF Suite!Safe, Suite!Types
<1>4. Suite!Loaded'
  <2> SUFFICES ASSUME v3' > 0, v6 = {}, NEW f \in Suite!Held' PROVE v4'[f] = v1[f]
    BY <1>1 DEF Suite!Loaded
  <2>1. v3' = v3 + 1
    BY <1>1
  <2>2. f \in Suite!File /\ (f = v2 \/ \E i \in 1 .. v3' - 1 : f \in Suite!Loads(Suite!Steps[v2][i]))
    BY <1>1 DEF Suite!Held
  <2>3. f \in Suite!Held \/ f \in Suite!Loads(Suite!Here)
    BY <1>2, <2>1, <2>2 DEF Suite!Held, Suite!Here
  <2>4. f \in Suite!Held => v4[f] = v1[f]
    BY <1>1 DEF Suite!Safe, Suite!Loaded
  <2> QED BY <1>1, <2>2, <2>3, <2>4
<1>5. v6 = {} => \A i \in 1 .. v3 : Suite!Shown(Suite!Steps[v2][i])
  <2> SUFFICES ASSUME v6 = {}, NEW i \in 1 .. v3 PROVE Suite!Shown(Suite!Steps[v2][i])
    OBVIOUS
  <2>1. CASE i = v3
    BY <1>1, <2>1, SuiteShown DEF Suite!Here
  <2>2. CASE i \in 1 .. v3 - 1
    BY <1>1, <2>2 DEF Suite!Safe, Suite!Passed
  <2> QED BY <1>2, <2>1, <2>2
<1>6. Suite!Passed'
  <2> SUFFICES ASSUME v6 = {} PROVE Suite!Passed'
    BY <1>1 DEF Suite!Passed
  <2>1. \A t : Suite!Shown(t)' = Suite!Shown(t)
    BY <1>1 DEF Suite!Shown, Suite!AsPublished, Suite!Exact, Suite!Loadable
  <2>2. (IF v3' = 0 THEN n ELSE v3' - 1) = v3
    BY <1>1, <1>2
  <2> QED BY <1>1, <1>5, <2>1, <2>2 DEF Suite!Passed
<1>7. v2 = "package" => v4'["terminal"] = SuiteUnread \/ v4'["terminal"] = SuitePublished["terminal"]
  <2> SUFFICES ASSUME v2 = "package" PROVE v4'["terminal"] = SuiteUnread \/ v4'["terminal"] = SuitePublished["terminal"]
    OBVIOUS
  <2>1. SuiteOrdered(v2, v3, Suite!Here)
    BY <1>2, SuiteOrder DEF Suite!Here
  <2>2. "terminal" \in Suite!Loads(Suite!Here) => Suite!Here = "published"
    BY <2>1 DEF SuiteOrdered, SuiteOwn, SuiteTerminal, SuiteReceipt, SuitePackage, Suite!Loads
  <2>3. CASE Suite!Here = "published"
    BY <1>1, <2>3 DEF Suite!Passes, Suite!load_published_validator, Suite!Loads, Suite!File
  <2>4. CASE "terminal" \notin Suite!Loads(Suite!Here)
    BY <1>1, <2>4 DEF Suite!Safe, Suite!VerdictVouches, Suite!File
  <2> QED BY <2>2, <2>3, <2>4
<1>8. Suite!VerdictVouches'
  <2>1. CASE v3' # 0
    BY <1>1, <1>7, <2>1 DEF Suite!VerdictVouches
  <2>2. CASE v3' = 0
    <3>1. v5' = "ok" /\ v3 = n
      BY <1>1, <1>2, <2>2
    <3>2. v6 = {} => /\ Suite!AsPublished(Suite!ByCode[v2])
                     /\ Suite!AsPublished(Suite!Root[v2]) => Suite!AsPublished(Suite!ByRoot[v2])
      BY <1>2, <1>5, <3>1, SuiteVouches
    <3> QED BY <1>1, <1>7, <3>1, <3>2 DEF Suite!VerdictVouches, Suite!AsPublished
  <2> QED BY <2>1, <2>2
<1> QED BY <1>3, <1>4, <1>6, <1>8 DEF Suite!Safe

\* The suite, whatever the files may be and however often they change.
LEMMA SuiteNext ==
  ASSUME Suite!Assumed, Suite!Safe, Suite!Next \/ UNCHANGED <<v1, v2, v3, v4, v5, v6, v7>> PROVE Suite!Safe'
<1>1. CASE UNCHANGED <<v1, v2, v3, v4, v5, v6, v7>>
  BY <1>1 DEF Suite!Safe, Suite!Types, Suite!Loaded, Suite!Held, Suite!Passed, Suite!Shown, Suite!Exact, Suite!Loadable,
     Suite!AsPublished, Suite!VerdictVouches
<1> QED BY <1>1, SuiteStart, SuiteCheck, SuiteFail, SuiteChange DEF Suite!Next

\* The contracts, for all keys, plans, receipts, requests, files and bounds: a
\* revocation of a grant holds from the time the snapshot may be old, a revoked
\* key verifies nothing any more and consumers of one set have one history, a
\* receipt and a request are accepted once, and what the conformance suite says
\* of the files is true of them.
THEOREM ContractsAreKept == Spec => []ContractsHold
<1> DEFINE Safe == /\ program = "grant" => Grant!Safe
                   /\ program = "keys" => Keys!Safe
                   /\ program = "receipt" => Receipt!Safe
                   /\ program = "suite" => Suite!Safe
<1>1. Init => Safe
  BY GrantAssumption, ReceiptAssumption, GrantInit, KeysInit, ReceiptInit, SuiteInit DEF Init
<1>2. ASSUME Safe, [Next]_vars PROVE Safe'
  <2>1. ASSUME program' = "grant" PROVE Grant!Safe'
    <3>1. program = "grant" /\ (Grant!Next \/ UNCHANGED <<v1, v2, v3, v4, v5, v6, v7>>)
      BY <1>2, <2>1 DEF Next, vars
    <3> QED BY <1>2, <3>1, GrantAssumption, GrantNext
  <2>2. ASSUME program' = "keys" PROVE Keys!Safe'
    <3>1. program = "keys" /\ (Keys!Next \/ UNCHANGED <<v1, v2, v3>>)
      BY <1>2, <2>2 DEF Next, vars
    <3> QED BY <1>2, <3>1, KeysNext
  <2>3. ASSUME program' = "receipt" PROVE Receipt!Safe'
    <3>1. program = "receipt" /\ (Receipt!Next \/ UNCHANGED Receipt!vars)
      BY <1>2, <2>3 DEF Next, vars, Receipt!vars
    <3> QED BY <1>2, <3>1, ReceiptAssumption, ReceiptNext
  <2>4. ASSUME program' = "suite" PROVE Suite!Safe'
    <3>1. program = "suite" /\ (Suite!Next \/ UNCHANGED <<v1, v2, v3, v4, v5, v6, v7>>)
      BY <1>2, <2>4 DEF Next, vars
    <3> QED BY <1>2, <3>1, SuiteAssumption, SuiteNext
  <2> QED BY <2>1, <2>2, <2>3, <2>4
<1>3. Safe => ContractsHold
  BY KeysHold DEF ContractsHold, Grant!Safe, Receipt!Safe, Suite!Safe
<1> QED BY <1>1, <1>2, <1>3, PTL DEF Spec

-----------------------------------------------------------------------------
(* Tool calls: calls, job, answer and change are v1 to v4. *)

\* No call was made yet.
LEMMA CallsInit == ASSUME Calls!Init PROVE Calls!Safe
<1>1. /\ v1 = 0 /\ v2 = [n \in Calls!Call |-> Calls!NoJob] /\ v3 = [n \in Calls!Call |-> "none"] /\ v4 = "none"
  BY DEF Calls!Init
<1>2. Calls!Types
  BY <1>1 DEF Calls!Types, Calls!Answers, Calls!Unsure, Calls!Call
<1>3. Calls!InTurn
  BY <1>1 DEF Calls!InTurn, Calls!Call
<1>4. Calls!Scaffold
  BY <1>1 DEF Calls!Scaffold, Calls!Begun, Calls!NoJob, Calls!NoRequest
<1> QED BY <1>2, <1>3, <1>4 DEF Calls!Safe

\* A step of one call, which stays what it is and keeps its answer.
LEMMA CallStep ==
  ASSUME Calls!Safe, NEW n \in Calls!Call, n <= v1, v1' = v1,
         NEW j \in Calls!Job, v2' = [v2 EXCEPT ![n] = j],
         NEW a \in Calls!Answers, v3' = [v3 EXCEPT ![n] = a], Calls!Fits(j, a),
         j.server = v2[n].server, a = "none" => v3[n] = "none",
         v4' \in {"none", "readme", "clean"}, Calls!Scaffold'
  PROVE  Calls!Safe'
<1>1. /\ \A m \in Calls!Call : v2'[m] = IF m = n THEN j ELSE v2[m]
      /\ \A m \in Calls!Call : v3'[m] = IF m = n THEN a ELSE v3[m]
  BY DEF Calls!Safe, Calls!Types
<1>2. Calls!Types'
  <2>1. DOMAIN v2' = Calls!Call /\ v3' \in [Calls!Call -> Calls!Answers] /\ v1' \in Nat
    BY DEF Calls!Safe, Calls!Types
  <2>2. \A m \in Calls!Call : IF m <= v1 THEN v2'[m] \in Calls!Job /\ Calls!Fits(v2'[m], v3'[m])
                              ELSE v2'[m] = Calls!NoJob /\ v3'[m] = "none"
    BY <1>1 DEF Calls!Safe, Calls!Types
  <2> QED BY <2>1, <2>2 DEF Calls!Types
<1>3. Calls!InTurn'
  BY <1>1 DEF Calls!Safe, Calls!InTurn
<1> QED BY <1>2, <1>3 DEF Calls!Safe

\* The change, when a call goes on that does not come to make it.
LEMMA CallsScaffold ==
  ASSUME Calls!Safe, NEW n \in Calls!Call,
         NEW j, v2' = [v2 EXCEPT ![n] = j], NEW a, v3' = [v3 EXCEPT ![n] = a],
         Calls!Begun(j) <=> Calls!Begun(v2[n]),
         v4' = v4 \/ (v4' = "clean" /\ Calls!Begun(j)),
         v4' = "readme" /\ Calls!Begun(j) => a \in Calls!Unsure \cup {"none", "failed"}
  PROVE  Calls!Scaffold' /\ v4' \in {"none", "readme", "clean"}
<1>1. /\ \A m \in Calls!Call : v2'[m] = IF m = n THEN j ELSE v2[m]
      /\ \A m \in Calls!Call : v3'[m] = IF m = n THEN a ELSE v3[m]
  BY DEF Calls!Safe, Calls!Types
<1>2. \A m \in Calls!Call : Calls!Begun(v2'[m]) <=> Calls!Begun(v2[m])
  BY <1>1
<1>3. \A x, y \in Calls!Call : Calls!Begun(v2'[x]) /\ Calls!Begun(v2'[y]) => x = y
  BY <1>2 DEF Calls!Safe, Calls!Scaffold
<1>4. v4' = "none" <=> \A m \in Calls!Call : ~Calls!Begun(v2'[m])
  BY <1>2 DEF Calls!Safe, Calls!Scaffold
<1>5. v4' = "readme" => \A m \in Calls!Call : Calls!Begun(v2'[m]) => v3'[m] \in Calls!Unsure \cup {"none", "failed"}
  BY <1>1, <1>2 DEF Calls!Safe, Calls!Scaffold
<1>6. v4' \in {"none", "readme", "clean"}
  BY DEF Calls!Safe, Calls!Types
<1> QED BY <1>3, <1>4, <1>5, <1>6 DEF Calls!Scaffold

\* A server reads its next request.
LEMMA CallsReceive ==
  ASSUME Calls!Assumed, Calls!Safe, NEW s \in CallsServer, NEW q \in CallsRequests, Calls!Receive(s, q)
  PROVE  Calls!Safe'
<1> DEFINE n == v1'
           j == [server |-> s, q |-> q,
                 at |-> IF Calls!Accepted(q) THEN IF q.auto THEN "probe" ELSE "running" ELSE "over",
                 progress |-> 0, end |-> "none", spent |-> 0, loose |-> FALSE]
           a == IF Calls!Accepted(q) THEN "none" ELSE "refused"
<1>1. v1 \in Nat /\ n = v1 + 1 /\ n \in Calls!Call /\ v1 < CallsMax
  BY DEF Calls!Receive, Calls!Safe, Calls!Types, Calls!Call, Calls!Assumed
<1>2. v2[n] = Calls!NoJob /\ v3[n] = "none"
  BY <1>1 DEF Calls!Safe, Calls!Types
<1>3. v2' = [v2 EXCEPT ![n] = j] /\ v3' = [v3 EXCEPT ![n] = a] /\ v4' = v4
  <2>1. [v3 EXCEPT ![n] = "none"] = v3
    BY <1>1, <1>2 DEF Calls!Safe, Calls!Types
  <2>2. CASE Calls!Accepted(q)
    BY <2>1, <2>2 DEF Calls!Receive, Calls!NoJob, Calls!Answer
  <2>3. CASE ~Calls!Accepted(q)
    BY <2>3 DEF Calls!Receive, Calls!NoJob, Calls!Answer
  <2> QED BY <2>2, <2>3
<1>4. j \in Calls!Job /\ a \in Calls!Answers /\ Calls!Fits(j, a)
  BY DEF Calls!Job, Calls!Answers, Calls!Unsure, Calls!Fits
<1>5. ~Calls!Begun(j) /\ ~Calls!Begun(v2[n]) /\ j.server = s
  BY <1>2 DEF Calls!Begun, Calls!NoJob, Calls!NoRequest
<1>6. \A m \in Calls!Call : v2[m].server = s => v3[m] # "none"
  BY DEF Calls!Receive, Calls!Serving
<1> HIDE DEF j, a
<1>7. /\ \A m \in Calls!Call : v2'[m] = IF m = n THEN j ELSE v2[m]
      /\ \A m \in Calls!Call : v3'[m] = IF m = n THEN a ELSE v3[m]
  BY <1>3 DEF Calls!Safe, Calls!Types
<1> HIDE DEF n
<1>8. Calls!Types'
  <2>1. DOMAIN v2' = Calls!Call /\ v3' \in [Calls!Call -> Calls!Answers] /\ v1' \in Nat
    BY <1>1, <1>3, <1>4 DEF Calls!Safe, Calls!Types, n
  <2>2. \A m \in Calls!Call : IF m <= v1 + 1 THEN v2'[m] \in Calls!Job /\ Calls!Fits(v2'[m], v3'[m])
                              ELSE v2'[m] = Calls!NoJob /\ v3'[m] = "none"
    <3> SUFFICES ASSUME NEW m \in Calls!Call
                 PROVE  IF m <= v1 + 1 THEN v2'[m] \in Calls!Job /\ Calls!Fits(v2'[m], v3'[m])
                        ELSE v2'[m] = Calls!NoJob /\ v3'[m] = "none"
      OBVIOUS
    <3>1. m \in Int
      BY DEF Calls!Call
    <3>2. CASE m = n
      BY <1>1, <1>4, <1>7, <3>2
    <3>3. CASE m # n
      <4>1. m <= v1 + 1 <=> m <= v1
        BY <1>1, <3>1, <3>3
      <4> QED BY <1>7, <3>3, <4>1 DEF Calls!Safe, Calls!Types
    <3> QED BY <3>2, <3>3
  <2> QED BY <1>1, <2>1, <2>2, <1>3 DEF Calls!Types, n, Calls!Safe
<1>9. Calls!InTurn'
  <2> SUFFICES ASSUME NEW x \in Calls!Call, NEW m \in Calls!Call, x < m, m <= v1 + 1, v2'[x].server = v2'[m].server
               PROVE  v3'[x] # "none"
    BY <1>1 DEF Calls!InTurn, n
  <2>1. x \in Int /\ m \in Int /\ x # n
    BY <1>1 DEF Calls!Call
  <2>2. CASE m = n
    BY <1>5, <1>6, <1>7, <2>1, <2>2
  <2>3. CASE m # n
    <3>1. m <= v1
      BY <1>1, <2>1, <2>3
    <3> QED BY <1>7, <2>1, <2>3, <3>1 DEF Calls!Safe, Calls!InTurn
  <2> QED BY <2>2, <2>3
<1>10. Calls!Scaffold'
  BY <1>1, <1>3, <1>5, CallsScaffold
<1> QED BY <1>8, <1>9, <1>10 DEF Calls!Safe

\* A call of which something is at work was made, and may still come to its answer.
LEMMA CallsAlive ==
  ASSUME Calls!Safe, NEW n \in Calls!Call, v2[n].at # "none"
  PROVE  /\ n <= v1 /\ v2[n] \in Calls!Job /\ v3[n] \in Calls!Answers /\ Calls!Fits(v2[n], v3[n])
         /\ Calls!Begun(v2[n]) /\ v4 = "readme" => v3[n] \in Calls!Unsure \cup {"none", "failed"}
BY DEF Calls!Safe, Calls!Types, Calls!NoJob, Calls!Scaffold

\* The program goes on: openspec_new makes the change when there is none.
LEMMA CallsWork == ASSUME Calls!Safe, NEW n \in Calls!Call, Calls!Work(n) PROVE Calls!Safe'
<1> DEFINE j == [v2[n] EXCEPT !.progress = @ + 1, !.loose = @ /\ v2[n].progress = 0]
           new == v2[n].q.tool = "openspec_new" /\ v2[n].progress = 0
<1>1. v2[n].at # "none" /\ v2[n].progress < 2
  <2>1. v2[n].loose => v2[n] # Calls!NoJob
    BY DEF Calls!NoJob
  <2>2. v2[n] = Calls!NoJob \/ v2[n] \in Calls!Job
    BY DEF Calls!Safe, Calls!Types
  <2>3. v2[n] \in Calls!Job => v2[n].at # "none"
    BY DEF Calls!Job
  <2>4. v2[n].at = "running" \/ v2[n].loose
    BY DEF Calls!Work, Calls!Alive
  <2> QED BY <2>1, <2>2, <2>3, <2>4 DEF Calls!Work
<1>2. n <= v1 /\ v2[n] \in Calls!Job /\ v3[n] \in Calls!Answers /\ Calls!Fits(v2[n], v3[n])
  BY <1>1, CallsAlive
<1>3. /\ v2' = [v2 EXCEPT ![n] = j] /\ v3' = [v3 EXCEPT ![n] = v3[n]] /\ v1' = v1
      /\ v4' = IF new THEN "readme" ELSE v4
      /\ new => v4 = "none"
  <2>1. [v3 EXCEPT ![n] = v3[n]] = v3
    BY DEF Calls!Safe, Calls!Types
  <2>2. v2[n].progress \in 0 .. 2
    BY <1>2 DEF Calls!Job
  <2>3. v2' = [v2 EXCEPT ![n] = j] /\ v3' = v3 /\ v1' = v1
    BY DEF Calls!Work
  <2>4. v4' = (IF new THEN "readme" ELSE v4)
    BY DEF Calls!Work
  <2>5. new => v4 = "none"
    BY <2>2 DEF Calls!Work
  <2> HIDE DEF j, new
  <2> QED BY <2>1, <2>3, <2>4, <2>5
<1>4. j \in Calls!Job /\ j.server = v2[n].server /\ j.q = v2[n].q /\ j.progress > 0 /\ j.at = v2[n].at
  <2>1. (v2[n].loose /\ v2[n].progress = 0) \in BOOLEAN
    OBVIOUS
  <2>2. v2[n].progress \in {0, 1}
    BY <1>1, <1>2 DEF Calls!Job
  <2>3. v2[n].progress + 1 \in 0 .. 2 /\ v2[n].progress + 1 > 0
    BY <2>2
  <2> DEFINE loose == v2[n].loose /\ v2[n].progress = 0
             more  == v2[n].progress + 1
  <2>4. j = [v2[n] EXCEPT !.progress = more, !.loose = loose] /\ loose \in BOOLEAN /\ more \in 0 .. 2 /\ more > 0
    BY <2>1, <2>3
  <2> HIDE DEF loose, more, j
  <2> QED BY <1>2, <2>4 DEF Calls!Job
<1>5. v2[n].at = "running" \/ (v2[n].loose /\ v3[n] \in Calls!Unsure \cup {"none"})
  BY <1>2 DEF Calls!Work, Calls!Alive, Calls!Fits
<1>6. Calls!Fits(j, v3[n]) /\ v3[n] \in Calls!Unsure \cup {"none"}
  BY <1>1, <1>2, <1>4, <1>5 DEF Calls!Fits, Calls!Unsure, Calls!Job
<1>7. Calls!Scaffold' /\ v4' \in {"none", "readme", "clean"}
  <2>1. CASE new
    <3>1. \A m \in Calls!Call : v2'[m] = IF m = n THEN j ELSE v2[m]
      BY <1>3 DEF Calls!Safe, Calls!Types
    <3>2. \A m \in Calls!Call : ~Calls!Begun(v2[m])
      BY <1>3, <2>1 DEF Calls!Safe, Calls!Scaffold
    <3>3. Calls!Begun(j) /\ \A m \in Calls!Call : Calls!Begun(v2'[m]) => m = n
      BY <1>4, <2>1, <3>1, <3>2 DEF Calls!Begun
    <3>4. v3' = v3 /\ v4' = "readme"
      BY <1>3, <2>1 DEF Calls!Work
    <3> QED BY <1>6, <3>1, <3>3, <3>4 DEF Calls!Scaffold
  <2>2. CASE ~new
    <3>1. Calls!Begun(j) <=> Calls!Begun(v2[n])
      <4>1. v2[n].progress \in 0 .. 2
        BY <1>2 DEF Calls!Job
      <4> QED BY <1>4, <2>2, <4>1 DEF Calls!Begun
    <3> HIDE DEF j
    <3> QED BY <1>3, <1>6, <2>2, <3>1, CallsScaffold
  <2> QED BY <2>1, <2>2
<1> HIDE DEF j
<1> QED BY <1>2, <1>3, <1>4, <1>6, <1>7, CallStep

\* The other steps of a call.
LEMMA CallsOther ==
  ASSUME Calls!Safe, NEW n \in Calls!Call,
         \/ Calls!Probe(n) \/ Calls!EndProgram(n) \/ Calls!InnerTimeout(n)
         \/ Calls!Reply(n) \/ Calls!OuterTimeout(n) \/ Calls!KillServer(n)
  PROVE  Calls!Safe'
<1>1. v2[n].at # "none"
  BY DEF Calls!Probe, Calls!EndProgram, Calls!InnerTimeout, Calls!Reply, Calls!OuterTimeout, Calls!KillServer
<1>2. /\ n <= v1 /\ v2[n] \in Calls!Job /\ v3[n] \in Calls!Answers /\ Calls!Fits(v2[n], v3[n])
      /\ Calls!Begun(v2[n]) /\ v4 = "readme" => v3[n] \in Calls!Unsure \cup {"none", "failed"}
  BY <1>1, CallsAlive
<1>3. [v3 EXCEPT ![n] = v3[n]] = v3 /\ v1' = v1
  BY DEF Calls!Safe, Calls!Types, Calls!Probe, Calls!EndProgram, Calls!InnerTimeout, Calls!Reply, Calls!OuterTimeout,
     Calls!KillServer
<1> DEFINE Step(j, a) ==
      /\ v2' = [v2 EXCEPT ![n] = j] /\ v3' = [v3 EXCEPT ![n] = a]
      /\ j \in Calls!Job /\ a \in Calls!Answers /\ Calls!Fits(j, a)
      /\ j.server = v2[n].server /\ j.q = v2[n].q /\ j.progress = v2[n].progress
      /\ a = "none" => v3[n] = "none"
      /\ v4' = v4 \/ (v4' = "clean" /\ Calls!Begun(j))
      /\ v4' = "readme" /\ Calls!Begun(j) => a \in Calls!Unsure \cup {"none", "failed"}
<1>4. ASSUME NEW j, NEW a, Step(j, a) PROVE Calls!Safe'
  <2>1. Calls!Begun(j) <=> Calls!Begun(v2[n])
    BY <1>4 DEF Calls!Begun
  <2>2. Calls!Scaffold' /\ v4' \in {"none", "readme", "clean"}
    BY <1>4, <2>1, CallsScaffold
  <2> QED BY <1>2, <1>3, <1>4, <2>2, CallStep
<1>5. CASE Calls!Probe(n)
  <2>1. PICK spent \in {0, Calls!Slack + 1} : v2' = [v2 EXCEPT ![n].spent = spent, ![n].at = "running"]
    BY <1>5 DEF Calls!Probe
  <2>2. Step([v2[n] EXCEPT !.spent = spent, !.at = "running"], v3[n])
    BY <1>2, <1>3, <1>5, <2>1 DEF Calls!Probe, Calls!Job, Calls!Fits
  <2> QED BY <1>4, <2>2
<1>6. CASE Calls!EndProgram(n)
  <2>1. PICK end \in {"zero", "told", "error", "absent"} :
          v2' = [v2 EXCEPT ![n].at = "ended", ![n].end = end] /\ (end = "zero" => v2[n].progress = 2)
          /\ (end = "told" => v2[n].q.tool = "host_verify")
    BY <1>6 DEF Calls!EndProgram
  <2>2. Step([v2[n] EXCEPT !.at = "ended", !.end = end], v3[n])
    BY <1>2, <1>3, <1>6, <2>1 DEF Calls!EndProgram, Calls!Job, Calls!Fits
  <2> QED BY <1>4, <2>2
<1>7. CASE Calls!InnerTimeout(n)
  <2>1. PICK goes \in BOOLEAN, spent \in {0, Calls!Slack + 1} :
          v2' = [v2 EXCEPT ![n].at = "stopped", ![n].spent = spent, ![n].loose = goes /\ v2[n].progress < 2]
    BY <1>7 DEF Calls!InnerTimeout
  <2>2. Step([v2[n] EXCEPT !.at = "stopped", !.spent = spent, !.loose = goes /\ v2[n].progress < 2], v3[n])
    BY <1>2, <1>3, <1>7, <2>1 DEF Calls!InnerTimeout, Calls!Job, Calls!Fits
  <2> QED BY <1>4, <2>2
<1>8. CASE Calls!Reply(n)
  <2>1. PICK a \in {"ok", "profile_errors", "failed", "timed_out"} :
          /\ v3' = [v3 EXCEPT ![n] = a] /\ v2' = [v2 EXCEPT ![n].at = "over"]
          /\ IF v2[n].at = "stopped" THEN a = "timed_out" ELSE v2[n].at = "ended" /\ a = Calls!ReplyTo(v2[n])
    <3>1. Calls!ReplyTo(v2[n]) \in {"ok", "profile_errors", "failed"}
      BY DEF Calls!ReplyTo
    <3> QED BY <1>8, <3>1 DEF Calls!Reply, Calls!Answer, Calls!Put
  <2>2. v4' = IF Calls!Made(v2[n]) THEN "clean" ELSE v4
    BY <1>8 DEF Calls!Reply
  <2>a. /\ a = "ok" => v2[n].end \in IF v2[n].q.tool = "host_preflight" THEN {"zero", "error"} ELSE {"zero"}
        /\ v2[n].q.tool = "openspec_new" /\ v2[n].end # "zero" => a \in {"failed", "timed_out"}
    <3>1. CASE v2[n].at = "stopped"
      BY <2>1, <3>1
    <3>2. CASE v2[n].at # "stopped"
      <4>1. a = Calls!ReplyTo(v2[n]) /\ v2[n].end \in {"none", "zero", "told", "error", "absent"} /\ v2[n].end # "none"
            /\ (v2[n].end = "told" => v2[n].q.tool = "host_verify")
        BY <1>2, <2>1, <3>2 DEF Calls!Job, Calls!Fits
      <4> QED BY <4>1 DEF Calls!ReplyTo
    <3> QED BY <3>1, <3>2
  <2> DEFINE j == [v2[n] EXCEPT !.at = "over"]
  <2>3. /\ j \in Calls!Job /\ v2' = [v2 EXCEPT ![n] = j] /\ a \in Calls!Answers /\ j.at = "over"
        /\ j.server = v2[n].server /\ j.q = v2[n].q /\ j.progress = v2[n].progress /\ j.end = v2[n].end /\ j.loose = v2[n].loose
    BY <1>2, <2>1 DEF Calls!Job, Calls!Unsure, Calls!Answers
  <2> HIDE DEF j
  <2>f. Calls!Fits(j, a)
    BY <1>2, <1>8, <2>1, <2>3, <2>a DEF Calls!Reply, Calls!Fits, Calls!Unsure
  <2>4. Calls!Made(v2[n]) => Calls!Begun(j)
    <3>1. v2[n].end = "zero" => v2[n].progress = 2
      BY <1>2 DEF Calls!Fits
    <3>2. 2 > 0
      OBVIOUS
    <3> QED BY <2>3, <3>1, <3>2, Zenon DEF Calls!Begun, Calls!Made
  <2>5. Calls!Begun(j) /\ v4' = "readme" => a \in {"failed", "timed_out"}
    BY <2>2, <2>3, <2>a DEF Calls!Begun, Calls!Made
  <2>6. Step(j, a)
    BY <2>1, <2>2, <2>3, <2>4, <2>5, <2>f DEF Calls!Unsure
  <2> QED BY <1>4, <2>6
<1>9. CASE Calls!OuterTimeout(n)
  <2>1. PICK more \in BOOLEAN : v2' = [v2 EXCEPT ![n].at = "over", ![n].loose = @ \/ more] /\ v3' = [v3 EXCEPT ![n] = "timeout"]
                                /\ v4' = v4
    BY <1>9 DEF Calls!OuterTimeout, Calls!Answer
  <2>2. Step([v2[n] EXCEPT !.at = "over", !.loose = @ \/ more], "timeout")
    BY <1>2, <1>9, <2>1 DEF Calls!OuterTimeout, Calls!Job, Calls!Fits, Calls!Unsure, Calls!Answers
  <2> QED BY <1>4, <2>2
<1>10. CASE Calls!KillServer(n)
  <2>1. v2' = [v2 EXCEPT ![n].at = "over", ![n].loose = v2[n].progress < 2] /\ v3' = [v3 EXCEPT ![n] = "lost"] /\ v4' = v4
    BY <1>10 DEF Calls!KillServer, Calls!Answer
  <2>2. (v2[n].progress < 2) \in BOOLEAN
    OBVIOUS
  <2>3. Step([v2[n] EXCEPT !.at = "over", !.loose = v2[n].progress < 2], "lost")
    BY <2>2, <1>2, <1>10, <2>1 DEF Calls!KillServer, Calls!Job, Calls!Fits, Calls!Unsure, Calls!Answers
  <2> QED BY <1>4, <2>3
<1> QED BY <1>5, <1>6, <1>7, <1>8, <1>9, <1>10

\* What is at work of two calls of a client, and what the answers say.
LEMMA CallsTell ==
  ASSUME Calls!Assumed, Calls!Safe PROVE Calls!CallsHonest /\ Calls!ScaffoldRemoved
<1>1. ASSUME NEW n \in Calls!Call, v2[n] \in Calls!Job, Calls!Fits(v2[n], v3[n])
      PROVE  /\ v3[n] = "ok" => v2[n].end \in IF v2[n].q.tool = "host_preflight" THEN {"zero", "error"} ELSE {"zero"}
             /\ v2[n].q.changes /\ v2[n].progress > 0 => v2[n].q.confirmed
             /\ Calls!Alive(n) /\ v3[n] # "none" => v3[n] \in Calls!Unsure
  <2>1. v2[n].q \in CallsRequests
    BY <1>1 DEF Calls!Job
  <2>2. v2[n].q.changes /\ Calls!Accepted(v2[n].q) => v2[n].q.confirmed
    BY <2>1 DEF Calls!Assumed, Calls!MayChange, Calls!Accepted, Calls!NeedsConfirmation, Calls!SafeDba, Calls!VaultTools,
       Calls!MutateTools
  <2>3. v2[n].progress > 0 => v3[n] # "refused"
    BY <1>1 DEF Calls!Fits, Calls!Job
  <2> QED BY <1>1, <2>2, <2>3 DEF Calls!Fits, Calls!Alive
<1>2. \A n \in Calls!Call : n <= v1 => v2[n] \in Calls!Job /\ Calls!Fits(v2[n], v3[n])
  BY DEF Calls!Safe, Calls!Types
<1>3. \A n \in Calls!Call : ~(n <= v1) =>
        /\ v3[n] = "none" /\ ~v2[n].q.changes /\ ~Calls!Alive(n)
        /\ v2[n].progress = 0
  BY DEF Calls!Safe, Calls!Types, Calls!NoJob, Calls!NoRequest, Calls!Alive
<1>4. Calls!CallsHonest
  <2> SUFFICES ASSUME NEW n \in Calls!Call
               PROVE  /\ v3[n] = "ok" => v2[n].end \in IF v2[n].q.tool = "host_preflight" THEN {"zero", "error"} ELSE {"zero"}
                      /\ Calls!Alive(n) => v3[n] \in Calls!Unsure \cup {"none"}
                      /\ v2[n].q.changes /\ v2[n].progress > 0 => v2[n].q.confirmed
                      /\ \A m \in Calls!Call : n < m /\ v2[n].server = v2[m].server /\ Calls!Alive(n) /\ Calls!Alive(m)
                                                 => v3[n] \in Calls!Unsure
    BY DEF Calls!CallsHonest
  <2>1. CASE ~(n <= v1)
    BY <1>3, <2>1
  <2>2. CASE n <= v1
    <3>1. ASSUME NEW m \in Calls!Call, n < m, v2[n].server = v2[m].server, Calls!Alive(n), Calls!Alive(m)
          PROVE  v3[n] \in Calls!Unsure
      <4>1. m <= v1
        BY <1>3, <3>1
      <4>2. v3[n] # "none"
        BY <3>1, <4>1 DEF Calls!Safe, Calls!InTurn
      <4> QED BY <1>1, <1>2, <2>2, <3>1, <4>2
    <3> QED BY <1>1, <1>2, <2>2, <3>1
  <2> QED BY <2>1, <2>2
<1>5. Calls!ScaffoldRemoved
  <2> SUFFICES ASSUME v4 = "readme"
               PROVE  /\ \E n \in Calls!Call : Calls!Begun(v2[n]) /\ v3[n] \in Calls!Unsure \cup {"none", "failed"}
                      /\ \A n \in Calls!Call : v2[n].q.tool = "openspec_new" => v3[n] # "ok"
    BY DEF Calls!ScaffoldRemoved, Calls!Begun
  <2>1. PICK n \in Calls!Call : Calls!Begun(v2[n])
    BY DEF Calls!Safe, Calls!Scaffold
  <2>2. \A m \in Calls!Call : Calls!Begun(v2[m]) => v3[m] \in Calls!Unsure \cup {"none", "failed"}
    BY DEF Calls!Safe, Calls!Scaffold
  <2>3. ASSUME NEW m \in Calls!Call, v2[m].q.tool = "openspec_new", v3[m] = "ok" PROVE FALSE
    <3>1. v2[m].progress = 2
      <4>1. Calls!Fits(v2[m], v3[m]) /\ v2[m].end = "zero"
        BY <1>1, <1>2, <1>3, <2>3
      <4> QED BY <4>1 DEF Calls!Fits
    <3>2. Calls!Begun(v2[m])
      BY <2>3, <3>1 DEF Calls!Begun
    <3> QED BY <2>2, <2>3, <3>2 DEF Calls!Unsure
  <2> QED BY <2>1, <2>2, <2>3
<1> QED BY <1>4, <1>5

\* Tool calls, for any servers, calls and requests: of a call whose answer is no timeout
\* nothing goes on, an ok is that of a program that ended with 0 (or of a host_preflight
\* that ran), nothing is changed without a confirmation, and a README that the delta
\* profile refuses is not left behind an answer ok.
THEOREM CallsAreHonest == Spec => []CallsHonest
<1> DEFINE Safe == program = "calls" => Calls!Safe
<1>1. Init => Safe
  BY CallsInit DEF Init
<1>2. ASSUME Safe, [Next]_vars PROVE Safe'
  <2> SUFFICES ASSUME program' = "calls" PROVE Calls!Safe'
    OBVIOUS
  <2>1. CASE Next
    <3>1. program = "calls" /\ Calls!Next
      BY <2>1 DEF Next
    <3> QED BY <1>2, <3>1, CallsAssumption, CallsReceive, CallsWork, CallsOther DEF Calls!Next
  <2>2. CASE UNCHANGED vars
    <3>1. UNCHANGED <<v1, v2, v3, v4>> /\ Calls!Safe
      BY <1>2, <2>2 DEF vars
    <3> QED
      BY <3>1 DEF Calls!Safe, Calls!Types, Calls!InTurn, Calls!Scaffold
  <2> QED BY <1>2, <2>1, <2>2
<1>3. Safe => CallsHonest
  BY CallsTell, CallsAssumption DEF CallsHonest
<1> QED BY <1>1, <1>2, <1>3, PTL DEF Spec

-----------------------------------------------------------------------------
(* The Google credentials helper: v1 to v11 are revokes, valid, issued, store, *)
(* home, gog, state, cmd, runs, slip and mixed.                                *)

\* No command has begun.
LEMMA GoogleInit == ASSUME Google!Init PROVE Google!Safe
<1>1. Google!Idle \in Google!Commands /\ Google!Placed(Google!Idle) /\ Google!Idle.pc = "idle"
  BY DEF Google!Idle, Google!Commands, Google!Placed, Google!Machine, Google!Before, Google!After
<1>2. \A p \in GoogleProc : v8[p] = Google!Idle
  BY DEF Google!Init
<1>3. GoogleLocal \in Google!Machine
  BY DEF Google!Machine
<1>4. Google!Types
  <2>1. v2 \subseteq 1 .. v3 /\ v3 \in Nat
    BY DEF Google!Init
  <2>4. v10 \in BOOLEAN /\ v8 \in [GoogleProc -> Google!Commands]
    BY <1>1 DEF Google!Init
  <2>2. v4 \in [Google!Machine -> Nat] /\ v6 \in [Google!Machine -> Nat] /\ v7 \in [Google!Machine -> Nat]
    BY DEF Google!Init
  <2>3. v5 \in [Google!Machine -> [GoogleHome -> Nat]] /\ v11 \in [Google!Machine -> BOOLEAN]
    BY Zenon DEF Google!Init
  <2> QED BY <2>1, <2>2, <2>3, <2>4 DEF Google!Types
<1>5. v4[GoogleLocal] \in v2
  BY <1>3 DEF Google!Init
<1>6. Google!TokensSafe
  BY <1>1, <1>2, <1>3, <1>5 DEF Google!TokensSafe, Google!Sole, Google!HasValid, Google!FromStore, Google!Kept,
     Google!Busy, Google!After, Google!Idle
<1>7. Google!MachinesSafe
  BY <1>1, <1>2 DEF Google!MachinesSafe, Google!SoleOn, Google!Changes, Google!Came, Google!Knows,
     Google!ConsumersAgree, Google!Applying, Google!Init
<1> QED BY <1>4, <1>6, <1>7 DEF Google!Safe

\* A step of a command that changes no consumer before it or after it leaves the
\* machines as they are.
LEMMA GoogleMachines ==
  ASSUME Google!Safe, NEW p \in GoogleProc, NEW c, v8' = [v8 EXCEPT ![p] = c],
         v8[p].pc \in {"idle", "read", "verify", "snapshot", "store"}, c.pc \in {"idle", "read", "verify", "snapshot", "store"},
         UNCHANGED <<v5, v6, v7, v11>>, v10 => v10'
  PROVE  Google!MachinesSafe'
<1>1. \A q \in GoogleProc : v8'[q] = IF q = p THEN c ELSE v8[q]
  BY DEF Google!Safe, Google!Types
<1>2. \A q \in GoogleProc, m \in Google!Machine : Google!Applying(q, m)' <=> Google!Applying(q, m)
  BY <1>1 DEF Google!Applying
<1>3. Google!SoleOn' /\ Google!ConsumersAgree'
  BY <1>2 DEF Google!Safe, Google!MachinesSafe, Google!SoleOn, Google!ConsumersAgree
<1>4. Google!Changes'
  BY <1>1 DEF Google!Safe, Google!MachinesSafe, Google!Changes, Google!Came, Google!Knows
<1> QED BY <1>3, <1>4 DEF Google!MachinesSafe

\* A step of a command within apply_consumers leaves the tokens as they are.
LEMMA GoogleTokensSame ==
  ASSUME Google!Safe, NEW p \in GoogleProc, NEW c, v8' = [v8 EXCEPT ![p] = c],
         v8[p].pc \in Google!After, c.pc \in Google!After, v8[p].stage # "none",
         c.stage = v8[p].stage, c.op = v8[p].op, c.m = v8[p].m, c.sent = v8[p].sent, c.token = v8[p].token,
         UNCHANGED <<v1, v2, v3, v4, v10>>
  PROVE  Google!TokensSafe'
<1>1. \A q \in GoogleProc : v8'[q] = IF q = p THEN c ELSE v8[q]
  BY DEF Google!Safe, Google!Types
<1>2. \A q \in GoogleProc : Google!Placed(v8'[q])
  BY <1>1 DEF Google!Safe, Google!TokensSafe, Google!Placed, Google!After
<1>3. Google!Sole'
  BY <1>1 DEF Google!Safe, Google!TokensSafe, Google!Sole, Google!Busy, Google!After
<1>4. Google!HasValid' /\ Google!FromStore' /\ Google!Kept'
  BY <1>1 DEF Google!Safe, Google!TokensSafe, Google!HasValid, Google!FromStore, Google!Kept, Google!After
<1> QED BY <1>2, <1>3, <1>4 DEF Google!TokensSafe

\* A command that ends without slipping drops no token.
LEMMA GoogleDrops ==
  ASSUME Google!Safe, NEW p \in GoogleProc, v8' = [v8 EXCEPT ![p] = Google!Idle],
         UNCHANGED <<v1, v2, v3, v4>>, v10 => v10',
         ~v10' => ~Google!Holds(p) \/ v8[p].stage = "check"
  PROVE  Google!TokensSafe'
<1>1. \A q \in GoogleProc : v8'[q] = IF q = p THEN Google!Idle ELSE v8[q]
  BY DEF Google!Safe, Google!Types
<1>2. \A q \in GoogleProc : Google!Placed(v8'[q])
  BY <1>1 DEF Google!Safe, Google!TokensSafe, Google!Placed, Google!Idle
<1>3. Google!Sole'
  BY <1>1 DEF Google!Safe, Google!TokensSafe, Google!Sole, Google!Busy, Google!Idle
<1>4. Google!HasValid' /\ Google!FromStore'
  BY <1>1 DEF Google!Safe, Google!TokensSafe, Google!HasValid, Google!FromStore, Google!After, Google!Idle
<1>5. Google!Kept'
  <2> SUFFICES ASSUME ~v10', ~\E m \in Google!Machine : v4[m] \in v2
               PROVE  \E q \in GoogleProc : v8'[q].stage # "check" /\ v8'[q].token \in v2
    BY DEF Google!Kept
  <2>1. PICK q \in GoogleProc : v8[q].stage # "check" /\ v8[q].token \in v2
    BY DEF Google!Safe, Google!TokensSafe, Google!Kept
  <2>2. q # p
    BY <2>1 DEF Google!Holds
  <2> QED BY <1>1, <2>1, <2>2
<1> QED BY <1>2, <1>3, <1>4, <1>5 DEF Google!TokensSafe

\* main: a command begins, alone or not.
LEMMA GoogleStart ==
  ASSUME Google!Safe, NEW p \in GoogleProc, NEW op \in {"create", "check", "apply", "gws", "replicate"},
         Google!Start(p, op)
  PROVE  Google!Safe'
<1>1. /\ v8[p].pc = "idle" /\ v10' = (v10 \/ ~Google!Alone(p))
      /\ UNCHANGED <<v1, v4, v5, v6, v7, v11>>
      /\ v3' \in Nat /\ v2 \subseteq v2' /\ v2' \subseteq 1 .. v3'
      /\ \E c : v8' = [v8 EXCEPT ![p] = c] /\ c \in Google!Commands /\ Google!Placed(c)
               /\ c.pc \in {"read", "verify"} /\ (c.pc = "verify" => c.stage \in {"create", "check"})
  <2>1. CASE op \in {"apply", "gws", "replicate"}
    <3>1. PICK m \in Google!Machine :
            v8' = [v8 EXCEPT ![p] = [Google!Idle EXCEPT !.op = op, !.m = m, !.pc = "read",
                                                       !.stage = IF op = "gws" THEN "gws" ELSE "apply"]]
      BY <2>1 DEF Google!Start, Google!Set, Google!Machine
    <3> DEFINE c == [Google!Idle EXCEPT !.op = op, !.m = m, !.pc = "read",
                                        !.stage = IF op = "gws" THEN "gws" ELSE "apply"]
    <3>2. c \in Google!Commands /\ Google!Placed(c) /\ c.pc = "read"
      BY <2>1 DEF Google!Idle, Google!Commands, Google!Placed, Google!Before
    <3>3. UNCHANGED <<v1, v2, v3, v4, v5, v6, v7, v11>> /\ v8[p].pc = "idle" /\ v10' = (v10 \/ ~Google!Alone(p))
      BY <2>1 DEF Google!Start, Google!google, Google!machine, Google!Busy
    <3> HIDE DEF c
    <3> QED BY <3>1, <3>2, <3>3 DEF c, Google!Safe, Google!Types
  <2>2. CASE op \in {"create", "check"}
    <3>1. PICK m \in Google!Machine :
            v8' = [v8 EXCEPT ![p] = [Google!Idle EXCEPT !.op = op, !.m = m, !.stage = op, !.pc = "verify",
                                                       !.sent = v3 + 1, !.token = v3 + 1]]
      BY <2>2 DEF Google!Start, Google!Set
    <3> DEFINE n == v3 + 1
               c == [Google!Idle EXCEPT !.op = op, !.m = m, !.stage = op, !.pc = "verify", !.sent = n, !.token = n]
    <3>2. v3 \in Nat /\ v2 \subseteq 1 .. v3 /\ n \in Nat /\ v2 \cup {n} \subseteq 1 .. n
      BY DEF Google!Safe, Google!Types
    <3>6. v8' = [v8 EXCEPT ![p] = c]
      BY <3>1
    <3>4. /\ UNCHANGED <<v1, v4, v5, v6, v7, v11>> /\ v8[p].pc = "idle" /\ v10' = (v10 \/ ~Google!Alone(p))
          /\ v3' = n /\ v2' = v2 \cup {n}
      BY <2>2 DEF Google!Start, Google!machine, Google!Busy
    <3> HIDE DEF n
    <3>3. c \in Google!Commands /\ Google!Placed(c) /\ c.pc = "verify" /\ c.stage \in {"create", "check"}
      BY <2>2, <3>2 DEF Google!Idle, Google!Commands, Google!Placed, Google!Before
    <3>5. v3' \in Nat /\ v2 \subseteq v2' /\ v2' \subseteq 1 .. v3'
      BY <3>2, <3>4
    <3> HIDE DEF c
    <3> QED BY <3>6, <3>3, <3>4, <3>5
  <2> QED BY <2>1, <2>2
<1>2. PICK c : /\ v8' = [v8 EXCEPT ![p] = c] /\ c \in Google!Commands /\ Google!Placed(c)
               /\ c.pc \in {"read", "verify"} /\ (c.pc = "verify" => c.stage \in {"create", "check"})
  BY <1>1
<1>3. \A q \in GoogleProc : v8'[q] = IF q = p THEN c ELSE v8[q]
  BY <1>2 DEF Google!Safe, Google!Types
<1>4. Google!Types'
  BY <1>1, <1>2 DEF Google!Safe, Google!Types
<1>5. Google!MachinesSafe'
  BY <1>1, <1>2, GoogleMachines
<1>6. \A q \in GoogleProc : Google!Placed(v8'[q])
  BY <1>2, <1>3 DEF Google!Safe, Google!TokensSafe
<1>7. ASSUME ~v10' PROVE /\ ~v10 /\ \A q \in GoogleProc : q # p => v8[q].pc = "idle"
                         /\ \E m \in Google!Machine : v4[m] \in v2
  <2>1. ~v10 /\ \A q \in GoogleProc : v8[q].pc = "idle"
    BY <1>1, <1>7 DEF Google!Alone, Google!Busy
  <2>2. \A q \in GoogleProc : v8[q].token = 0
    BY <2>1 DEF Google!Safe, Google!TokensSafe, Google!Placed
  <2>3. 0 \notin v2
    BY DEF Google!Safe, Google!Types
  <2> QED BY <2>1, <2>2, <2>3 DEF Google!Safe, Google!TokensSafe, Google!Kept
<1>8. Google!Sole' /\ Google!HasValid' /\ Google!Kept'
  <2>1. Google!Sole'
    BY <1>3, <1>7 DEF Google!Sole, Google!Busy
  <2>2. Google!HasValid'
    BY <1>2, <1>3, <1>7 DEF Google!HasValid, Google!After
  <2>3. Google!Kept'
    BY <1>1, <1>7 DEF Google!Kept
  <2> QED BY <2>1, <2>2, <2>3
<1>9. Google!FromStore'
  <2>1. \A q \in GoogleProc : v8[q].pc = "idle" => v8[q].stage = "none"
    BY DEF Google!Safe, Google!TokensSafe, Google!Placed
  <2>2. c.pc # "read" => c.stage \notin {"apply", "gws"}
    BY <1>2
  <2> QED BY <1>3, <1>7, <2>1, <2>2 DEF Google!FromStore
<1> QED BY <1>4, <1>5, <1>6, <1>8, <1>9 DEF Google!Safe, Google!TokensSafe

\* store_read: a command has the token of its store, or ends.
LEMMA GoogleReadStore ==
  ASSUME Google!Safe, NEW p \in GoogleProc, Google!ReadStore(p) PROVE Google!Safe'
<1>1. /\ v8[p].pc = "read" /\ UNCHANGED <<v1, v2, v3, v4, v5, v6, v7, v10, v11>>
      /\ v8[p] \in Google!Commands /\ v8[p].m \in Google!Machine /\ v4[v8[p].m] \in Nat
  BY DEF Google!ReadStore, Google!google, Google!machine, Google!Safe, Google!Types, Google!Commands
<1>2. CASE v4[v8[p].m] = 0
  <2>1. v8' = [v8 EXCEPT ![p] = Google!Idle]
    BY <1>2 DEF Google!ReadStore, Google!Set
  <2>2. Google!Idle \in Google!Commands /\ Google!Idle.pc = "idle"
    BY DEF Google!Idle, Google!Commands, Google!Machine, Google!Before
  <2>3. v8[p].token = 0 /\ 0 \notin v2
    BY <1>1 DEF Google!Safe, Google!TokensSafe, Google!Placed, Google!Types
  <2>4. Google!TokensSafe'
    BY <1>1, <2>1, <2>3, GoogleDrops DEF Google!Holds
  <2>5. Google!MachinesSafe'
    BY <1>1, <2>1, <2>2, GoogleMachines
  <2>6. Google!Types'
    BY <1>1, <2>1, <2>2 DEF Google!Safe, Google!Types
  <2> QED BY <2>4, <2>5, <2>6 DEF Google!Safe
<1>3. CASE v4[v8[p].m] # 0
  <2> DEFINE t == v4[v8[p].m]
             c == [v8[p] EXCEPT !.sent = t, !.token = t, !.pc = "verify"]
  <2>1. v8' = [v8 EXCEPT ![p] = c]
    BY <1>3 DEF Google!ReadStore, Google!Set
  <2>2. /\ c \in Google!Commands /\ c.stage = v8[p].stage /\ c.m = v8[p].m /\ c.op = v8[p].op
        /\ c.sent = v4[v8[p].m] /\ c.token = v4[v8[p].m] /\ c.pc = "verify"
    BY <1>1 DEF Google!Commands, Google!Before
  <2> HIDE DEF c, t
  <2>3. \A q \in GoogleProc : v8'[q] = IF q = p THEN c ELSE v8[q]
    BY <2>1 DEF Google!Safe, Google!Types
  <2>4. Google!Types'
    BY <1>1, <2>1, <2>2 DEF Google!Safe, Google!Types
  <2>5. Google!MachinesSafe'
    BY <1>1, <2>1, <2>2, GoogleMachines
  <2>6. v8[p].token = 0 /\ 0 \notin v2 /\ v8[p].stage # "none" /\ v8[p].stage # "probe"
        /\ (v8[p].stage = "check" <=> v8[p].op = "check")
    BY <1>1 DEF Google!Safe, Google!TokensSafe, Google!Placed, Google!Types
  <2>7. Google!Placed(c)
    BY <2>2, <2>6 DEF Google!Placed
  <2>8. \A q \in GoogleProc : Google!Placed(v8'[q])
    BY <2>3, <2>7 DEF Google!Safe, Google!TokensSafe
  <2>9. Google!Sole' /\ Google!HasValid' /\ Google!FromStore' /\ Google!Kept'
    BY <1>1, <2>2, <2>3, <2>6 DEF Google!Safe, Google!TokensSafe, Google!Sole, Google!HasValid, Google!FromStore,
       Google!Kept, Google!Busy, Google!After
  <2> QED BY <2>4, <2>5, <2>8, <2>9 DEF Google!Safe, Google!TokensSafe
<1> QED BY <1>2, <1>3

\* What refresh_and_verify leaves: a check ends, the others go on with the token,
\* and only the probe with the one that was sent.
LEMMA GoogleVerified ==
  ASSUME Google!Safe, NEW p \in GoogleProc, v8[p].pc = "verify", NEW t \in Nat,
         NEW c, c = Google!Verified(p, t)
  PROVE  /\ c \in Google!Commands /\ Google!Placed(c) /\ c.pc \in {"idle", "store", "snapshot", "verify"}
         /\ v8[p].stage = "check" => c = Google!Idle
         /\ v8[p].stage # "check" =>
              /\ c.stage # "check" /\ c.stage # "none" /\ c.m = v8[p].m /\ c.sent = v8[p].sent
              /\ c.token = IF v8[p].stage = "probe" THEN v8[p].sent ELSE t
              /\ c.stage \in {"apply", "gws"} => c.stage = v8[p].stage
              /\ c.pc \in Google!After => v8[p].stage # "probe"
<1>1. v8[p] \in Google!Commands /\ Google!Placed(v8[p])
  BY DEF Google!Safe, Google!TokensSafe, Google!Types
<1> DEFINE d == [v8[p] EXCEPT !.token = t]
<1>2. /\ d \in Google!Commands /\ d.stage = v8[p].stage /\ d.m = v8[p].m /\ d.sent = v8[p].sent
      /\ d.op = v8[p].op /\ d.token = t /\ d.pc = "verify"
  BY <1>1 DEF Google!Commands
<1>3. v8[p].stage # "none" /\ (v8[p].stage = "check" <=> v8[p].op = "check")
  BY <1>1 DEF Google!Placed
<1>4. c = CASE d.stage = "check"   -> Google!Idle
            [] d.stage = "create"  -> [d EXCEPT !.pc = "store"]
            [] d.stage = "gws"     -> [d EXCEPT !.pc = "store"]
            [] d.stage \in {"apply", "remote"} -> [d EXCEPT !.pc = "snapshot"]
            [] d.stage = "probe"   -> [d EXCEPT !.stage = "receive", !.token = d.sent]
            [] d.stage = "receive" -> [d EXCEPT !.stage = "remote"]
  BY DEF Google!Verified
<1> HIDE DEF d
<1>5. CASE d.stage = "check"
  <2>1. c = Google!Idle
    BY <1>4, <1>5
  <2>2. /\ Google!Idle \in Google!Commands /\ Google!Placed(Google!Idle) /\ Google!Idle.pc = "idle"
    BY DEF Google!Idle, Google!Commands, Google!Placed, Google!Machine, Google!Before
  <2> QED BY <1>2, <1>5, <2>1, <2>2
<1>6. CASE d.stage \in {"create", "gws"}
  <2>1. c = [d EXCEPT !.pc = "store"]
    BY <1>4, <1>6
  <2> QED BY <1>2, <1>3, <1>6, <2>1 DEF Google!Commands, Google!Placed, Google!After
<1>7. CASE d.stage \in {"apply", "remote"}
  <2>1. c = [d EXCEPT !.pc = "snapshot"]
    BY <1>4, <1>7
  <2> QED BY <1>2, <1>3, <1>7, <2>1 DEF Google!Commands, Google!Placed, Google!After
<1>8. CASE d.stage = "probe"
  <2>1. c = [d EXCEPT !.stage = "receive", !.token = d.sent]
    BY <1>4, <1>8
  <2> QED BY <1>2, <1>3, <1>8, <2>1 DEF Google!Commands, Google!Placed, Google!After
<1>9. CASE d.stage = "receive"
  <2>1. c = [d EXCEPT !.stage = "remote"]
    BY <1>4, <1>9
  <2> QED BY <1>2, <1>3, <1>9, <2>1 DEF Google!Commands, Google!Placed, Google!After
<1> QED BY <1>1, <1>2, <1>3, <1>5, <1>6, <1>7, <1>8, <1>9 DEF Google!Commands

\* refresh_and_verify: the token is good, or another is issued for it.
LEMMA GoogleVerify ==
  ASSUME Google!Safe, NEW p \in GoogleProc, Google!Verify(p) PROVE Google!Safe'
<1>1. /\ v8[p].pc = "verify" /\ v8[p].token \in v2 /\ v8[p] \in Google!Commands /\ Google!Placed(v8[p])
      /\ v3 \in Nat /\ v2 \subseteq 1 .. v3 /\ UNCHANGED <<v1, v4, v5, v6, v7, v11>> /\ v10 \in BOOLEAN
  BY DEF Google!Verify, Google!machine, Google!google, Google!Safe, Google!Types, Google!TokensSafe
<1>2. PICK t \in Nat :
        /\ v8' = [v8 EXCEPT ![p] = Google!Verified(p, t)]
        /\ v3' \in Nat /\ v2' \subseteq 1 .. v3' /\ t \in v2'
        /\ \/ t = v8[p].token /\ v2' = v2 /\ v10' = v10
           \/ v10' = (v10 \/ v8[p].stage \in {"check", "probe"})
        /\ v10' \in BOOLEAN /\ (v10 => v10')
  <2>1. CASE Google!Set(p, Google!Verified(p, v8[p].token)) /\ UNCHANGED <<Google!google, v10>>
    <3>1. v8[p].token \in Nat
      BY <1>1 DEF Google!Commands
    <3> QED BY <1>1, <2>1, <3>1 DEF Google!Set, Google!google
  <2>2. CASE /\ v3' = v3 + 1
             /\ v2' = (IF v1 THEN v2 \ {v8[p].token} ELSE v2) \cup {v3 + 1}
             /\ Google!Set(p, Google!Verified(p, v3 + 1))
             /\ v10' = (v10 \/ v8[p].stage \in {"check", "probe"})
    <3>1. v3 + 1 \in Nat /\ v2 \subseteq 1 .. v3 + 1 /\ v3 + 1 \in 1 .. v3 + 1
      BY <1>1
    <3>2. v2' \subseteq 1 .. v3' /\ v3 + 1 \in v2' /\ v3' \in Nat
      BY <2>2, <3>1
    <3>3. v10' \in BOOLEAN /\ (v10 => v10')
      BY <2>2
    <3> QED BY <2>2, <3>1, <3>2, <3>3 DEF Google!Set
  <2> QED BY <2>1, <2>2 DEF Google!Verify
<1> DEFINE c == Google!Verified(p, t)
<1>3. /\ c \in Google!Commands /\ Google!Placed(c) /\ c.pc \in {"idle", "store", "snapshot", "verify"}
      /\ v8[p].stage = "check" => c = Google!Idle
      /\ v8[p].stage # "check" =>
           /\ c.stage # "check" /\ c.stage # "none" /\ c.m = v8[p].m /\ c.sent = v8[p].sent
           /\ c.token = IF v8[p].stage = "probe" THEN v8[p].sent ELSE t
           /\ c.stage \in {"apply", "gws"} => c.stage = v8[p].stage
           /\ c.pc \in Google!After => v8[p].stage # "probe"
  BY <1>1, GoogleVerified
<1>4. v8' = [v8 EXCEPT ![p] = c]
  BY <1>2
<1> HIDE DEF c
<1>5. \A q \in GoogleProc : v8'[q] = IF q = p THEN c ELSE v8[q]
  BY <1>4 DEF Google!Safe, Google!Types
<1>6. v10' \in BOOLEAN /\ (v10 => v10')
  BY <1>1, <1>2
<1>7. Google!Types'
  BY <1>1, <1>2, <1>3, <1>4, <1>6 DEF Google!Safe, Google!Types
<1>8. Google!MachinesSafe'
  BY <1>1, <1>3, <1>4, <1>6, GoogleMachines
<1>9. \A q \in GoogleProc : Google!Placed(v8'[q])
  BY <1>3, <1>5 DEF Google!Safe, Google!TokensSafe
<1>10. ASSUME ~v10' PROVE /\ \A q \in GoogleProc : q # p => v8[q].pc = "idle" /\ v8[q].stage = "none"
                          /\ v8[p].stage # "check" => c.token = t
                          /\ v8[p].stage = "check" => v2' = v2
  <2>1. ~v10
    BY <1>6, <1>10
  <2>2. \A q \in GoogleProc : q # p => v8[q].pc = "idle"
    BY <1>1, <2>1 DEF Google!Safe, Google!TokensSafe, Google!Sole, Google!Busy
  <2>3. \A q \in GoogleProc : v8[q].pc = "idle" => v8[q].stage = "none"
    BY DEF Google!Safe, Google!TokensSafe, Google!Placed
  <2>4. v8[p].stage = "probe" => v8[p].sent = t
    BY <1>1, <1>2, <1>10 DEF Google!Placed
  <2>5. v8[p].stage = "check" => v2' = v2
    BY <1>2, <1>10
  <2> QED BY <1>3, <2>2, <2>3, <2>4, <2>5
<1>11. Google!Sole'
  BY <1>5, <1>10 DEF Google!Sole, Google!Busy
<1>12. Google!HasValid'
  <2> SUFFICES ASSUME ~v10', NEW q \in GoogleProc, v8'[q].pc \in Google!After PROVE v8'[q].token \in v2'
    BY DEF Google!HasValid
  <2>1. q = p
    BY <1>5, <1>10 DEF Google!After
  <2>2. v8[p].stage # "check"
    BY <1>3, <1>5, <2>1 DEF Google!Idle, Google!After
  <2> QED BY <1>2, <1>5, <1>10, <2>1, <2>2
<1>13. Google!FromStore'
  <2> SUFFICES ASSUME ~v10', NEW q \in GoogleProc, v8'[q].stage \in {"apply", "gws"}, v8'[q].pc # "read"
               PROVE  v4[v8'[q].m] = v8'[q].sent
    BY <1>1 DEF Google!FromStore
  <2>1. q = p
    BY <1>5, <1>10
  <2>2. v8[p].stage # "check"
    BY <1>3, <1>5, <2>1 DEF Google!Idle
  <2>3. v8[p].stage \in {"apply", "gws"} /\ v8'[q].m = v8[p].m /\ v8'[q].sent = v8[p].sent
    BY <1>3, <1>5, <2>1, <2>2
  <2> QED BY <1>1, <1>6, <2>3 DEF Google!Safe, Google!TokensSafe, Google!FromStore
<1>14. Google!Kept'
  <2> SUFFICES ASSUME ~v10' PROVE \/ \E m \in Google!Machine : v4[m] \in v2'
                                  \/ \E q \in GoogleProc : v8'[q].stage # "check" /\ v8'[q].token \in v2'
    BY <1>1 DEF Google!Kept
  <2>1. CASE v8[p].stage # "check"
    BY <1>2, <1>3, <1>5, <1>10, <2>1
  <2>2. CASE v8[p].stage = "check"
    <3>1. v2' = v2
      BY <1>10, <2>2
    <3>2. \/ \E m \in Google!Machine : v4[m] \in v2
          \/ \E q \in GoogleProc : v8[q].stage # "check" /\ v8[q].token \in v2
      BY <1>6 DEF Google!Safe, Google!TokensSafe, Google!Kept
    <3> QED BY <1>5, <2>2, <3>1, <3>2
  <2> QED BY <2>1, <2>2
<1> QED BY <1>7, <1>8, <1>9, <1>11, <1>12, <1>13, <1>14 DEF Google!Safe, Google!TokensSafe

\* The check fails, and the command ends.
LEMMA GoogleVerifyFails ==
  ASSUME Google!Safe, NEW p \in GoogleProc, Google!VerifyFails(p) PROVE Google!Safe'
<1>1. /\ v8[p].pc = "verify" /\ v8' = [v8 EXCEPT ![p] = Google!Idle] /\ UNCHANGED <<v1, v4, v5, v6, v7, v11>>
      /\ v3 \in Nat /\ v2 \subseteq 1 .. v3 /\ v10 \in BOOLEAN
  BY DEF Google!VerifyFails, Google!machine, Google!Safe, Google!Types, Google!Set, Google!google
<1>2. /\ Google!Idle \in Google!Commands /\ Google!Placed(Google!Idle) /\ Google!Idle.pc = "idle"
  BY DEF Google!Idle, Google!Commands, Google!Placed, Google!Machine, Google!Before
<1>3. CASE UNCHANGED Google!google /\ v10' = (v10 \/ Google!Holds(p))
  <2>1. (v10 => v10') /\ (~v10' => ~Google!Holds(p)) /\ v2' = v2 /\ v3' = v3 /\ v10' \in BOOLEAN
    BY <1>1, <1>3 DEF Google!google, Google!Holds
  <2>2. Google!TokensSafe'
    BY <1>1, <2>1, GoogleDrops
  <2>3. Google!MachinesSafe'
    BY <1>1, <1>2, <2>1, GoogleMachines
  <2>4. Google!Types'
    BY <1>1, <1>2, <2>1 DEF Google!Safe, Google!Types
  <2> QED BY <2>2, <2>3, <2>4 DEF Google!Safe
<1>4. CASE v3' = v3 + 1 /\ v2' = (IF v1 THEN v2 \ {v8[p].token} ELSE v2) \cup {v3 + 1} /\ v10' = TRUE
  <2>1. v3' \in Nat /\ v2' \subseteq 1 .. v3'
    <3>1. v3 + 1 \in Nat /\ v2 \subseteq 1 .. v3 + 1 /\ v3 + 1 \in 1 .. v3 + 1
      BY <1>1
    <3> QED BY <1>4, <3>1
  <2>2. Google!MachinesSafe'
    BY <1>1, <1>2, <1>4, GoogleMachines
  <2>3. Google!Types'
    BY <1>1, <1>2, <1>4, <2>1 DEF Google!Safe, Google!Types
  <2>4. \A q \in GoogleProc : v8'[q] = IF q = p THEN Google!Idle ELSE v8[q]
    BY <1>1 DEF Google!Safe, Google!Types
  <2>5. \A q \in GoogleProc : Google!Placed(v8'[q])
    BY <1>2, <2>4 DEF Google!Safe, Google!TokensSafe
  <2>6. Google!Sole' /\ Google!HasValid' /\ Google!FromStore' /\ Google!Kept'
    BY <1>4 DEF Google!Sole, Google!HasValid, Google!FromStore, Google!Kept
  <2> QED BY <2>2, <2>3, <2>5, <2>6 DEF Google!Safe, Google!TokensSafe
<1> QED BY <1>3, <1>4 DEF Google!VerifyFails

\* store_write, of a command that ends, or goes on to the other machine.
LEMMA GoogleWriteStore ==
  ASSUME Google!Safe, NEW p \in GoogleProc, Google!WriteStore(p) PROVE Google!Safe'
<1> DEFINE c == v8[p]
           d == [c EXCEPT !.stage = "probe", !.m = GoogleRemote, !.sent = c.token, !.pc = "verify"]
           e == IF c.op = "replicate" /\ c.stage = "apply" THEN d ELSE Google!Idle
<1>1. /\ c.pc = "store" /\ c \in Google!Commands /\ Google!Placed(c) /\ c.m \in Google!Machine /\ c.token \in Nat
      /\ UNCHANGED <<v1, v2, v3, v5, v6, v7, v10, v11>> /\ v8' = [v8 EXCEPT ![p] = e]
      /\ v4' = [v4 EXCEPT ![c.m] = IF c.stage \in {"create", "remote"} \/ c.token # c.sent THEN c.token ELSE @]
  BY DEF Google!WriteStore, Google!google, Google!Safe, Google!Types, Google!TokensSafe, Google!Set, Google!Commands
<1>2. /\ e \in Google!Commands /\ Google!Placed(e) /\ e.pc \in {"idle", "verify"}
      /\ e.stage \notin {"apply", "gws", "check"}
  <2>1. d \in Google!Commands /\ Google!Placed(d) /\ d.pc = "verify" /\ d.stage = "probe"
    BY <1>1 DEF Google!Commands, Google!Placed, Google!Machine, Google!Before
  <2>2. /\ Google!Idle \in Google!Commands /\ Google!Placed(Google!Idle) /\ Google!Idle.pc = "idle"
        /\ Google!Idle.stage = "none"
    BY DEF Google!Idle, Google!Commands, Google!Placed, Google!Machine, Google!Before
  <2> HIDE DEF d
  <2> QED BY <2>1, <2>2
<1>3. c.stage \in {"create", "remote", "apply", "gws"}
  BY <1>1 DEF Google!Commands, Google!Placed
<1> HIDE DEF e
<1>4. \A q \in GoogleProc : v8'[q] = IF q = p THEN e ELSE v8[q]
  BY <1>1 DEF Google!Safe, Google!Types
<1>5. Google!Types'
  BY <1>1, <1>2 DEF Google!Safe, Google!Types
<1>6. Google!MachinesSafe'
  BY <1>1, <1>2, GoogleMachines
<1>7. \A q \in GoogleProc : Google!Placed(v8'[q])
  BY <1>2, <1>4 DEF Google!Safe, Google!TokensSafe
<1>8. ASSUME ~v10 PROVE /\ \A q \in GoogleProc : q # p => v8[q].pc = "idle" /\ v8[q].stage = "none"
                        /\ c.token \in v2 /\ v4'[c.m] = c.token
  <2>1. \A q \in GoogleProc : q # p => v8[q].pc = "idle"
    BY <1>1, <1>8 DEF Google!Safe, Google!TokensSafe, Google!Sole, Google!Busy
  <2>2. \A q \in GoogleProc : v8[q].pc = "idle" => v8[q].stage = "none"
    BY DEF Google!Safe, Google!TokensSafe, Google!Placed
  <2>3. c.token \in v2
    BY <1>1, <1>8 DEF Google!Safe, Google!TokensSafe, Google!HasValid, Google!After
  <2>4. c.stage \in {"apply", "gws"} => v4[c.m] = c.sent
    BY <1>1, <1>8 DEF Google!Safe, Google!TokensSafe, Google!FromStore
  <2>5. v4'[c.m] = IF c.stage \in {"create", "remote"} \/ c.token # c.sent THEN c.token ELSE v4[c.m]
    BY <1>1 DEF Google!Safe, Google!Types
  <2>6. v4'[c.m] = c.token
    BY <1>3, <2>4, <2>5
  <2> QED BY <2>1, <2>2, <2>3, <2>6
<1>9. Google!Sole' /\ Google!HasValid' /\ Google!FromStore' /\ Google!Kept'
  <2>1. Google!Sole'
    BY <1>1, <1>4, <1>8 DEF Google!Sole, Google!Busy
  <2>2. Google!HasValid'
    BY <1>1, <1>2, <1>4, <1>8 DEF Google!HasValid, Google!After
  <2>3. Google!FromStore'
    BY <1>1, <1>2, <1>4, <1>8 DEF Google!FromStore
  <2>4. Google!Kept'
    BY <1>1, <1>8 DEF Google!Kept
  <2> QED BY <2>1, <2>2, <2>3, <2>4
<1> QED BY <1>5, <1>6, <1>7, <1>9 DEF Google!Safe, Google!TokensSafe

\* A step within apply_consumers: another machine is left alone, and so is this
\* one by the other commands, if it is not mixed or nothing has slipped.
LEMMA GoogleApplies ==
  ASSUME Google!Safe, NEW p \in GoogleProc, NEW c, v8' = [v8 EXCEPT ![p] = c],
         v8[p].pc \in {"homes", "restore", "gog", "state"}, c.m = v8[p].m \/ c.pc = "idle",
         NEW n, n = v8[p].m,
         \A k \in Google!Machine \ {n} : v5'[k] = v5[k] /\ v6'[k] = v6[k] /\ v7'[k] = v7[k] /\ v11'[k] = v11[k],
         v10 => v10',
         ~v11'[n] => ~v11[n] \/ ~(v10 \/ ~Google!Alone(p)),
         ~v10' => Google!Came(c, v5', v6'),
         ~v11'[n] => IF c.pc \in {"homes", "restore", "gog", "state"} THEN Google!Came(c, v5', v6') /\ Google!Knows(c, v6', v7')
                     ELSE v6'[n] = v7'[n] /\ \A h \in GoogleHome : v5'[n][h] = v7'[n]
  PROVE  Google!MachinesSafe'
<1>1. \A q \in GoogleProc : v8'[q] = (IF q = p THEN c ELSE v8[q]) /\ v8[q].m \in Google!Machine
  BY DEF Google!Safe, Google!Types, Google!Commands
<1>2. \A q \in GoogleProc, m \in Google!Machine : q # p => (Google!Applying(q, m)' <=> Google!Applying(q, m))
  BY <1>1 DEF Google!Applying
<1>3. \A m \in Google!Machine : Google!Applying(p, m)' => m = n /\ c.pc \in {"homes", "restore", "gog", "state"}
  BY <1>1 DEF Google!Applying
<1>4. n \in Google!Machine /\ Google!Applying(p, n)
  BY <1>1 DEF Google!Applying
<1>5. ~v11'[n] => \A q \in GoogleProc : Google!Applying(q, n) => q = p
  <2>1. ~v11[n] => \A q \in GoogleProc : Google!Applying(q, n) => q = p
    BY <1>4 DEF Google!Safe, Google!MachinesSafe, Google!SoleOn
  <2>2. Google!Alone(p) => \A q \in GoogleProc : Google!Applying(q, n) => q = p
    BY DEF Google!Alone, Google!Applying, Google!Busy
  <2> QED BY <2>1, <2>2
<1>6. Google!SoleOn'
  <2> SUFFICES ASSUME NEW m \in Google!Machine, ~v11'[m], NEW q \in GoogleProc, NEW r \in GoogleProc,
                      Google!Applying(q, m)', Google!Applying(r, m)'
               PROVE  q = r
    BY DEF Google!SoleOn
  <2>1. CASE m = n
    BY <1>2, <1>5, <2>1
  <2>2. CASE m # n
    <3>1. ~v11[m] /\ Google!Applying(q, m) /\ Google!Applying(r, m)
      BY <1>2, <1>3, <2>2
    <3> QED BY <3>1 DEF Google!Safe, Google!MachinesSafe, Google!SoleOn
  <2> QED BY <2>1, <2>2
<1>7. Google!Changes'
  <2> SUFFICES ASSUME NEW q \in GoogleProc
               PROVE  /\ ~v11'[v8'[q].m] => Google!Came(v8'[q], v5', v6') /\ Google!Knows(v8'[q], v6', v7')
                      /\ ~v10' => Google!Came(v8'[q], v5', v6')
    BY DEF Google!Changes
  <2>1. CASE q = p
    <3>1. v8'[q] = c
      BY <1>1, <2>1
    <3>2. c.pc \notin {"homes", "restore", "gog", "state"} => Google!Came(c, v5', v6') /\ Google!Knows(c, v6', v7')
      BY DEF Google!Came, Google!Knows
    <3>3. c.m = n \/ c.pc \notin {"homes", "restore", "gog", "state"}
      OBVIOUS
    <3> QED BY <3>1, <3>2, <3>3
  <2>2. CASE q # p
    <3> DEFINE d == v8[q]
    <3>1. v8'[q] = d
      BY <1>1, <2>2
    <3>2. CASE d.pc \notin {"homes", "restore", "gog", "state"}
      <4> HIDE DEF d
      <4>1. Google!Came(d, v5', v6') /\ Google!Knows(d, v6', v7')
        BY <3>2 DEF Google!Came, Google!Knows
      <4> QED BY <3>1, <4>1
    <3>3. CASE d.pc \in {"homes", "restore", "gog", "state"} /\ d.m = n
      <4>1. v11'[n]
        BY <1>4, <1>5, <2>2, <3>3 DEF Google!Applying
      <4>2. v10
        BY <2>2, <3>3 DEF Google!Safe, Google!TokensSafe, Google!Sole, Google!Busy
      <4> QED BY <3>1, <3>3, <4>1, <4>2
    <3>4. CASE d.m # n
      <4>1. d.m \in Google!Machine \ {n}
        BY <1>1, <3>4
      <4>2. /\ ~v11[d.m] => Google!Came(d, v5, v6) /\ Google!Knows(d, v6, v7)
            /\ ~v10 => Google!Came(d, v5, v6)
        BY DEF Google!Safe, Google!MachinesSafe, Google!Changes
      <4> HIDE DEF d
      <4>3. (Google!Came(d, v5, v6) => Google!Came(d, v5', v6')) /\ (Google!Knows(d, v6, v7) => Google!Knows(d, v6', v7'))
        BY <4>1 DEF Google!Came, Google!Knows
      <4> QED BY <3>1, <4>1, <4>2, <4>3
    <3> QED BY <3>2, <3>3, <3>4
  <2> QED BY <2>1, <2>2
<1>8. Google!ConsumersAgree'
  <2> SUFFICES ASSUME NEW m \in Google!Machine, ~v11'[m], \A q \in GoogleProc : ~Google!Applying(q, m)'
               PROVE  v6'[m] = v7'[m] /\ \A h \in GoogleHome : v5'[m][h] = v7'[m]
    BY DEF Google!ConsumersAgree
  <2>1. CASE m = n
    <3>1. c.pc \notin {"homes", "restore", "gog", "state"}
      BY <1>1, <2>1 DEF Google!Applying
    <3> QED BY <2>1, <3>1
  <2>2. CASE m # n
    <3>1. ~Google!Applying(p, m)
      BY <2>2 DEF Google!Applying
    <3>2. ~v11[m] /\ \A q \in GoogleProc : ~Google!Applying(q, m)
      BY <1>2, <2>2, <3>1
    <3>3. v6[m] = v7[m] /\ \A h \in GoogleHome : v5[m][h] = v7[m]
      BY <3>2 DEF Google!Safe, Google!MachinesSafe, Google!ConsumersAgree
    <3> QED BY <2>2, <3>3
  <2> QED BY <2>1, <2>2
<1> QED BY <1>6, <1>7, <1>8 DEF Google!MachinesSafe

\* apply_consumers begins: it knows what its machine had.
LEMMA GoogleSnapshot ==
  ASSUME Google!Safe, NEW p \in GoogleProc, Google!Snapshot(p) PROVE Google!Safe'
<1> DEFINE n == v8[p].m
           c == [v8[p] EXCEPT !.snap = v5[n], !.todo = GoogleHome, !.pc = "homes"]
<1>1. /\ v8[p].pc = "snapshot" /\ v8[p] \in Google!Commands /\ n \in Google!Machine
      /\ v5[n] \in [GoogleHome -> Nat] /\ v8[p].stage # "none"
      /\ UNCHANGED <<v1, v2, v3, v4, v5, v6, v7, v10>> /\ v8' = [v8 EXCEPT ![p] = c]
  BY DEF Google!Snapshot, Google!google, Google!machine, Google!Safe, Google!Types, Google!TokensSafe, Google!Placed,
     Google!Set, Google!Commands
<1>2. v11' = [v11 EXCEPT ![n] = @ \/ \E q \in GoogleProc \ {p} : Google!Applying(q, n)]
  BY DEF Google!Snapshot
<1>3. /\ c \in Google!Commands /\ c.pc = "homes" /\ c.m = n /\ c.snap = v5[n] /\ c.todo = GoogleHome
      /\ c.stage = v8[p].stage /\ c.op = v8[p].op /\ c.sent = v8[p].sent /\ c.token = v8[p].token
  BY <1>1 DEF Google!Commands, Google!After
<1>4. /\ \A k \in Google!Machine : v11'[k] \in BOOLEAN /\ (v11[k] => v11'[k])
      /\ ~v11'[n] => \A q \in GoogleProc \ {p} : ~Google!Applying(q, n)
  BY <1>1, <1>2 DEF Google!Safe, Google!Types
<1>5. v11' \in [Google!Machine -> BOOLEAN]
  <2>1. DOMAIN v11' = Google!Machine /\ v11' = [k \in DOMAIN v11' |-> v11'[k]]
    BY <1>2 DEF Google!Safe, Google!Types
  <2> QED BY <1>4, <2>1
<1> HIDE DEF c
<1>6. \A q \in GoogleProc : v8'[q] = IF q = p THEN c ELSE v8[q]
  BY <1>1 DEF Google!Safe, Google!Types
<1>7. Google!Types'
  BY <1>1, <1>3, <1>5 DEF Google!Safe, Google!Types
<1>8. Google!TokensSafe'
  BY <1>1, <1>3, GoogleTokensSame DEF Google!After
<1>9. \A q \in GoogleProc, m \in Google!Machine :
        Google!Applying(q, m)' <=> Google!Applying(q, m) \/ (q = p /\ m = n)
  BY <1>1, <1>3, <1>6 DEF Google!Applying
<1>10. Google!SoleOn'
  BY <1>1, <1>4, <1>9 DEF Google!Safe, Google!MachinesSafe, Google!SoleOn
<1>11. Google!ConsumersAgree'
  BY <1>1, <1>4, <1>9 DEF Google!Safe, Google!MachinesSafe, Google!ConsumersAgree
<1>12. Google!Changes'
  <2> SUFFICES ASSUME NEW q \in GoogleProc
               PROVE  /\ ~v11'[v8'[q].m] => Google!Came(v8'[q], v5', v6') /\ Google!Knows(v8'[q], v6', v7')
                      /\ ~v10' => Google!Came(v8'[q], v5', v6')
    BY DEF Google!Changes
  <2>1. CASE q # p
    <3> DEFINE d == v8[q]
    <3>1. v8'[q] = d /\ d.m \in Google!Machine
      BY <1>6, <2>1 DEF Google!Safe, Google!Types, Google!Commands
    <3>2. /\ ~v11[d.m] => Google!Came(d, v5, v6) /\ Google!Knows(d, v6, v7)
          /\ ~v10 => Google!Came(d, v5, v6)
      BY DEF Google!Safe, Google!MachinesSafe, Google!Changes
    <3> HIDE DEF d
    <3>3. (Google!Came(d, v5', v6') <=> Google!Came(d, v5, v6)) /\ (Google!Knows(d, v6', v7') <=> Google!Knows(d, v6, v7))
      BY <1>1 DEF Google!Came, Google!Knows
    <3> QED BY <1>1, <1>4, <3>1, <3>2, <3>3
  <2>2. CASE q = p
    <3>1. v8'[q] = c
      BY <1>6, <2>2
    <3>2. Google!Came(c, v5', v6')
      BY <1>3 DEF Google!Came
    <3>3. ASSUME ~v11'[n] PROVE Google!Knows(c, v6', v7')
      <4>1. ~Google!Applying(p, n)
        BY <1>1 DEF Google!Applying
      <4>2. ~v11[n] /\ \A r \in GoogleProc : ~Google!Applying(r, n)
        BY <1>1, <1>4, <3>3, <4>1
      <4>3. v6[n] = v7[n] /\ \A h \in GoogleHome : v5[n][h] = v7[n]
        BY <1>1, <4>2 DEF Google!Safe, Google!MachinesSafe, Google!ConsumersAgree
      <4> QED BY <1>1, <1>3, <4>3 DEF Google!Knows
    <3> QED BY <1>3, <3>1, <3>2, <3>3
  <2> QED BY <2>1, <2>2
<1> QED BY <1>7, <1>8, <1>10, <1>11, <1>12 DEF Google!Safe, Google!MachinesSafe

\* _materialize_hermes, and _restore_token_files: one home gets the token, or
\* what it had.
LEMMA GoogleWriteHome ==
  ASSUME Google!Safe, NEW p \in GoogleProc, NEW h \in GoogleHome, Google!WriteHome(p, h) PROVE Google!Safe'
<1> DEFINE b == v8[p]
           n == b.m
           x == IF b.pc = "homes" THEN b.token ELSE b.snap[h]
           c == [b EXCEPT !.todo = @ \ {h}]
<1>1. /\ b.pc \in {"homes", "restore"} /\ b \in Google!Commands /\ n \in Google!Machine /\ b.stage # "none"
      /\ UNCHANGED <<v1, v2, v3, v4, v6, v7, v10, v11>> /\ v8' = [v8 EXCEPT ![p] = c] /\ x \in Nat
      /\ v5' = [v5 EXCEPT ![n][h] = x] /\ v5[n] \in [GoogleHome -> Nat] /\ v5 \in [Google!Machine -> [GoogleHome -> Nat]]
  BY DEF Google!WriteHome, Google!google, Google!Safe, Google!Types, Google!TokensSafe, Google!Placed, Google!Set,
     Google!Commands
<1>2. /\ c \in Google!Commands /\ c.pc = b.pc /\ c.m = n /\ c.snap = b.snap /\ c.todo = b.todo \ {h}
      /\ c.stage = b.stage /\ c.op = b.op /\ c.sent = b.sent /\ c.token = b.token
  BY <1>1 DEF Google!Commands
<1>3. /\ v5' \in [Google!Machine -> [GoogleHome -> Nat]]
      /\ \A k \in Google!Machine : k # n => v5'[k] = v5[k]
      /\ \A k \in GoogleHome : v5'[n][k] = IF k = h THEN x ELSE v5[n][k]
  BY <1>1
<1>4. /\ ~v11[n] => Google!Came(b, v5, v6) /\ Google!Knows(b, v6, v7)
      /\ ~v10 => Google!Came(b, v5, v6)
  BY DEF Google!Safe, Google!MachinesSafe, Google!Changes
<1>5. x = IF b.pc = "homes" THEN b.token ELSE b.snap[h]
  OBVIOUS
<1> HIDE DEF c, x
<1>6. Google!Came(b, v5, v6) => Google!Came(c, v5', v6')
  BY <1>1, <1>2, <1>3, <1>5 DEF Google!Came
<1>7. Google!Knows(b, v6, v7) => Google!Knows(c, v6', v7')
  BY <1>1, <1>2 DEF Google!Knows
<1>8. Google!MachinesSafe'
  <2> DEFINE N == n
  <2>1. N = v8[p].m /\ N = n
    OBVIOUS
  <2>2. v8[p].pc \in {"homes", "restore", "gog", "state"} /\ c.m = v8[p].m /\ (v10 => v10')
    BY <1>1, <1>2
  <2>3. /\ ~v11'[N] => ~v11[N] \/ ~(v10 \/ ~Google!Alone(p))
        /\ \A k \in Google!Machine \ {N} : v5'[k] = v5[k] /\ v6'[k] = v6[k] /\ v7'[k] = v7[k] /\ v11'[k] = v11[k]
    BY <1>1, <1>3
  <2>4. /\ ~v10' => Google!Came(c, v5', v6')
        /\ ~v11'[N] => Google!Came(c, v5', v6') /\ Google!Knows(c, v6', v7')
    BY <1>1, <1>4, <1>6, <1>7
  <2>5. c.pc \in {"homes", "restore", "gog", "state"}
    BY <1>1, <1>2
  <2> HIDE DEF N
  <2> QED BY <1>1, <2>1, <2>2, <2>3, <2>4, <2>5, GoogleApplies
<1>9. Google!TokensSafe'
  BY <1>1, <1>2, GoogleTokensSame DEF Google!After
<1>10. Google!Types'
  BY <1>1, <1>2, <1>3 DEF Google!Safe, Google!Types
<1> QED BY <1>8, <1>9, <1>10 DEF Google!Safe

\* All homes are written, or one of them, or gog, fails and all are restored.
LEMMA GoogleTurns ==
  ASSUME Google!Safe, NEW p \in GoogleProc, Google!HomesWritten(p) \/ Google!ConsumerFails(p) PROVE Google!Safe'
<1> DEFINE b == v8[p]
           n == b.m
<1>1. /\ b.pc \in {"homes", "gog"} /\ b \in Google!Commands /\ n \in Google!Machine /\ b.stage # "none"
      /\ UNCHANGED <<v1, v2, v3, v4, v5, v6, v7, v10, v11>>
  BY DEF Google!HomesWritten, Google!ConsumerFails, Google!google, Google!machine, Google!Safe, Google!Types,
     Google!TokensSafe, Google!Placed, Google!Commands
<1>2. PICK c \in Google!Commands :
        /\ v8' = [v8 EXCEPT ![p] = c] /\ c.m = n /\ c.snap = b.snap
        /\ c.stage = b.stage /\ c.op = b.op /\ c.sent = b.sent /\ c.token = b.token
        /\ \/ c.pc = "gog" /\ c.todo = {} /\ b.pc = "homes" /\ b.todo = {}
           \/ c.pc = "restore" /\ c.todo = GoogleHome
  <2>1. CASE Google!HomesWritten(p)
    <3> DEFINE c == [b EXCEPT !.pc = "gog"]
    <3>1. v8' = [v8 EXCEPT ![p] = c] /\ b.pc = "homes" /\ b.todo = {}
      BY <2>1 DEF Google!HomesWritten, Google!Goto, Google!Set
    <3>2. /\ c \in Google!Commands /\ c.m = n /\ c.snap = b.snap /\ c.stage = b.stage /\ c.op = b.op
          /\ c.sent = b.sent /\ c.token = b.token /\ c.pc = "gog" /\ c.todo = b.todo
      BY <1>1 DEF Google!Commands, Google!After
    <3> HIDE DEF c
    <3> QED BY <3>1, <3>2
  <2>2. CASE Google!ConsumerFails(p)
    <3> DEFINE c == [b EXCEPT !.todo = GoogleHome, !.pc = "restore"]
    <3>1. v8' = [v8 EXCEPT ![p] = c]
      BY <2>2 DEF Google!ConsumerFails, Google!Set
    <3>2. /\ c \in Google!Commands /\ c.m = n /\ c.snap = b.snap /\ c.stage = b.stage /\ c.op = b.op
          /\ c.sent = b.sent /\ c.token = b.token /\ c.pc = "restore" /\ c.todo = GoogleHome
      BY <1>1 DEF Google!Commands, Google!After
    <3> HIDE DEF c
    <3> QED BY <3>1, <3>2
  <2> QED BY <2>1, <2>2
<1>3. /\ ~v11[n] => Google!Came(b, v5, v6) /\ Google!Knows(b, v6, v7)
      /\ ~v10 => Google!Came(b, v5, v6)
  BY DEF Google!Safe, Google!MachinesSafe, Google!Changes
<1>4. Google!Came(b, v5, v6) => Google!Came(c, v5', v6')
  BY <1>1, <1>2 DEF Google!Came
<1>5. Google!Knows(b, v6, v7) => Google!Knows(c, v6', v7')
  BY <1>1, <1>2 DEF Google!Knows
<1>6. Google!MachinesSafe'
  <2> DEFINE N == n
  <2>1. N = v8[p].m /\ N = n
    OBVIOUS
  <2> HIDE DEF N
  <2> QED BY <1>1, <1>2, <1>3, <1>4, <1>5, <2>1, GoogleApplies
<1>7. Google!TokensSafe'
  BY <1>1, <1>2, GoogleTokensSame DEF Google!After
<1>8. Google!Types'
  BY <1>1, <1>2 DEF Google!Safe, Google!Types
<1> QED BY <1>6, <1>7, <1>8 DEF Google!Safe

\* A command that failed and restored its homes ends; its machine is as it was.
LEMMA GoogleRestored ==
  ASSUME Google!Safe, NEW p \in GoogleProc, Google!Restored(p) PROVE Google!Safe'
<1> DEFINE b == v8[p]
           n == b.m
<1>1. /\ b.pc = "restore" /\ b.todo = {} /\ n \in Google!Machine /\ v10 \in BOOLEAN
      /\ UNCHANGED <<v1, v2, v3, v4, v5, v6, v7, v11>> /\ v8' = [v8 EXCEPT ![p] = Google!Idle]
  BY DEF Google!Restored, Google!google, Google!machine, Google!Safe, Google!Types, Google!Commands, Google!Set
<1>2. (v10 => v10') /\ (~v10' => ~Google!Holds(p)) /\ v10' \in BOOLEAN
  BY <1>1 DEF Google!Restored, Google!Holds
<1>3. Google!Idle \in Google!Commands /\ Google!Idle.pc = "idle"
  BY DEF Google!Idle, Google!Commands, Google!Machine, Google!Before
<1>4. Google!TokensSafe'
  BY <1>1, <1>2, GoogleDrops
<1>5. Google!Types'
  BY <1>1, <1>2, <1>3 DEF Google!Safe, Google!Types
<1>6. Google!MachinesSafe'
  <2> DEFINE N == n
             c == Google!Idle
  <2>1. N = v8[p].m /\ N = n /\ c = Google!Idle
    OBVIOUS
  <2>2. ~v11[n] => v6[n] = v7[n] /\ \A h \in GoogleHome : v5[n][h] = v7[n]
    BY <1>1 DEF Google!Safe, Google!MachinesSafe, Google!Changes, Google!Came, Google!Knows
  <2> HIDE DEF N, c
  <2>3. Google!Came(c, v5', v6')
    BY <1>3, <2>1 DEF Google!Came
  <2> QED BY <1>1, <1>2, <1>3, <2>1, <2>2, <2>3, GoogleApplies
<1> QED BY <1>4, <1>5, <1>6 DEF Google!Safe

\* _gog_import: the keyring has the token, and gog fails or not.
LEMMA GoogleImportGog ==
  ASSUME Google!Safe, NEW p \in GoogleProc, Google!ImportGog(p) \/ Google!GogFailsLate(p) PROVE Google!Safe'
<1> DEFINE b == v8[p]
           n == b.m
<1>1. /\ b.pc = "gog" /\ b \in Google!Commands /\ n \in Google!Machine /\ b.stage # "none" /\ b.token \in Nat
      /\ UNCHANGED <<v1, v2, v3, v4, v5, v7, v10>> /\ v6' = [v6 EXCEPT ![n] = b.token]
  BY DEF Google!ImportGog, Google!GogFailsLate, Google!google, Google!Safe, Google!Types,
     Google!TokensSafe, Google!Placed, Google!Commands
<1>2. PICK c \in Google!Commands :
        /\ v8' = [v8 EXCEPT ![p] = c] /\ c.m = n /\ c.snap = b.snap
        /\ c.stage = b.stage /\ c.op = b.op /\ c.sent = b.sent /\ c.token = b.token
        /\ \/ c.pc = "state" /\ c.todo = b.todo /\ v11' = v11
           \/ c.pc = "restore" /\ c.todo = GoogleHome /\ v11' = [v11 EXCEPT ![n] = TRUE]
  <2>1. CASE Google!ImportGog(p)
    <3> DEFINE c == [b EXCEPT !.pc = "state"]
    <3>1. v8' = [v8 EXCEPT ![p] = c] /\ v11' = v11
      BY <2>1 DEF Google!ImportGog, Google!Goto, Google!Set
    <3>2. /\ c \in Google!Commands /\ c.m = n /\ c.snap = b.snap /\ c.stage = b.stage /\ c.op = b.op
          /\ c.sent = b.sent /\ c.token = b.token /\ c.pc = "state" /\ c.todo = b.todo
      BY <1>1 DEF Google!Commands, Google!After
    <3> HIDE DEF c
    <3> QED BY <3>1, <3>2
  <2>2. CASE Google!GogFailsLate(p)
    <3> DEFINE c == [b EXCEPT !.todo = GoogleHome, !.pc = "restore"]
    <3>1. v8' = [v8 EXCEPT ![p] = c] /\ v11' = [v11 EXCEPT ![n] = TRUE]
      BY <2>2 DEF Google!GogFailsLate, Google!Set
    <3>2. /\ c \in Google!Commands /\ c.m = n /\ c.snap = b.snap /\ c.stage = b.stage /\ c.op = b.op
          /\ c.sent = b.sent /\ c.token = b.token /\ c.pc = "restore" /\ c.todo = GoogleHome
      BY <1>1 DEF Google!Commands, Google!After
    <3> HIDE DEF c
    <3> QED BY <3>1, <3>2
  <2> QED BY <2>1, <2>2
<1>3. /\ v11' \in [Google!Machine -> BOOLEAN]
      /\ \A k \in Google!Machine \ {n} : v11'[k] = v11[k]
      /\ ~v11'[n] => ~v11[n] /\ c.pc = "state" /\ c.todo = b.todo
  <2>1. v11 \in [Google!Machine -> BOOLEAN]
    BY DEF Google!Safe, Google!Types
  <2>2. CASE v11' = v11
    BY <1>1, <1>2, <2>1, <2>2
  <2>3. CASE v11' = [v11 EXCEPT ![n] = TRUE]
    BY <1>1, <2>1, <2>3
  <2> QED BY <1>2, <2>2, <2>3
<1>4. /\ v6' \in [Google!Machine -> Nat] /\ v6'[n] = b.token
      /\ \A k \in Google!Machine \ {n} : v6'[k] = v6[k]
  BY <1>1 DEF Google!Safe, Google!Types
<1>5. /\ ~v11[n] => Google!Came(b, v5, v6)
      /\ ~v10 => Google!Came(b, v5, v6)
  BY DEF Google!Safe, Google!MachinesSafe, Google!Changes
<1>6. Google!Came(b, v5, v6) => Google!Came(c, v5', v6')
  BY <1>1, <1>2, <1>4 DEF Google!Came
<1>7. c.pc = "state" => Google!Knows(c, v6', v7')
  BY DEF Google!Knows
<1>8. Google!MachinesSafe'
  <2> DEFINE N == n
  <2>1. N = v8[p].m /\ N = n
    OBVIOUS
  <2>2. v8[p].pc \in {"homes", "restore", "gog", "state"} /\ c.m = v8[p].m /\ (v10 => v10')
    BY <1>1, <1>2
  <2>3. /\ ~v11'[N] => ~v11[N] \/ ~(v10 \/ ~Google!Alone(p))
        /\ \A k \in Google!Machine \ {N} : v5'[k] = v5[k] /\ v6'[k] = v6[k] /\ v7'[k] = v7[k] /\ v11'[k] = v11[k]
    BY <1>1, <1>3, <1>4
  <2>4. /\ ~v10' => Google!Came(c, v5', v6')
        /\ ~v11'[N] => Google!Came(c, v5', v6') /\ Google!Knows(c, v6', v7')
    BY <1>1, <1>3, <1>5, <1>6, <1>7
  <2>5. c.pc \in {"homes", "restore", "gog", "state"}
    BY <1>2
  <2>6. v8' = [v8 EXCEPT ![p] = c]
    BY <1>2
  <2> HIDE DEF N
  <2> QED BY <1>1, <2>1, <2>2, <2>3, <2>4, <2>5, <2>6, GoogleApplies
<1>9. Google!TokensSafe'
  BY <1>1, <1>2, GoogleTokensSame DEF Google!After
<1>10. Google!Types'
  BY <1>1, <1>2, <1>3, <1>4 DEF Google!Safe, Google!Types
<1> QED BY <1>8, <1>9, <1>10 DEF Google!Safe

\* _write_state: all consumers have the token, and the state file tells of it.
LEMMA GoogleWriteState ==
  ASSUME Google!Safe, NEW p \in GoogleProc, Google!WriteState(p) PROVE Google!Safe'
<1> DEFINE b == v8[p]
           n == b.m
           c == [b EXCEPT !.pc = "store"]
<1>1. /\ b.pc = "state" /\ b \in Google!Commands /\ n \in Google!Machine /\ b.stage # "none" /\ b.token \in Nat
      /\ UNCHANGED <<v1, v2, v3, v4, v5, v6, v10>> /\ v7' = [v7 EXCEPT ![n] = b.token]
      /\ v8' = [v8 EXCEPT ![p] = c] /\ v11' = [v11 EXCEPT ![n] = @ /\ (v10 \/ ~Google!Alone(p))]
  BY DEF Google!WriteState, Google!google, Google!Safe, Google!Types, Google!Goto, Google!Set,
     Google!TokensSafe, Google!Placed, Google!Commands
<1>2. /\ c \in Google!Commands /\ c.m = n /\ c.stage = b.stage /\ c.op = b.op
      /\ c.sent = b.sent /\ c.token = b.token /\ c.pc = "store"
  BY <1>1 DEF Google!Commands, Google!After
<1> HIDE DEF c
<1>3. /\ v11' \in [Google!Machine -> BOOLEAN]
      /\ \A k \in Google!Machine \ {n} : v11'[k] = v11[k]
      /\ ~v11'[n] => ~v11[n] \/ ~(v10 \/ ~Google!Alone(p))
  <2>1. v11 \in [Google!Machine -> BOOLEAN] /\ v10 \in BOOLEAN
    BY DEF Google!Safe, Google!Types
  <2> DEFINE a == v11[n] /\ (v10 \/ ~Google!Alone(p))
  <2>2. a \in BOOLEAN /\ v11' = [v11 EXCEPT ![n] = a]
    BY <1>1
  <2>3. ~a => ~v11[n] \/ ~(v10 \/ ~Google!Alone(p))
    OBVIOUS
  <2> HIDE DEF a
  <2> QED BY <1>1, <2>1, <2>2, <2>3
<1>4. /\ v7' \in [Google!Machine -> Nat] /\ v7'[n] = b.token
      /\ \A k \in Google!Machine \ {n} : v7'[k] = v7[k]
  BY <1>1 DEF Google!Safe, Google!Types
<1>5. ~v11[n] \/ ~v10 => Google!Came(b, v5, v6)
  BY DEF Google!Safe, Google!MachinesSafe, Google!Changes
<1>6. ~v11'[n] => v6'[n] = v7'[n] /\ \A h \in GoogleHome : v5'[n][h] = v7'[n]
  <2>1. Google!Came(b, v5, v6) => v6[n] = b.token /\ \A h \in GoogleHome : v5[n][h] = b.token
    BY <1>1 DEF Google!Came
  <2> QED BY <1>1, <1>3, <1>4, <1>5, <2>1
<1>7. Google!Came(c, v5', v6')
  BY <1>2 DEF Google!Came
<1>8. Google!MachinesSafe'
  <2> DEFINE N == n
  <2>1. N = v8[p].m /\ N = n
    OBVIOUS
  <2> HIDE DEF N
  <2> QED BY <1>1, <1>2, <1>3, <1>4, <1>6, <1>7, <2>1, GoogleApplies
<1>9. Google!TokensSafe'
  BY <1>1, <1>2, GoogleTokensSame DEF Google!After
<1>10. Google!Types'
  BY <1>1, <1>2, <1>3, <1>4 DEF Google!Safe, Google!Types
<1> QED BY <1>8, <1>9, <1>10 DEF Google!Safe

\* A command breaks off; if it was changing consumers, its machine is mixed.
LEMMA GoogleBreakOff ==
  ASSUME Google!Safe, NEW p \in GoogleProc, Google!BreakOff(p) PROVE Google!Safe'
<1> DEFINE b == v8[p]
           n == b.m
<1>1. /\ n \in Google!Machine /\ v10 \in BOOLEAN /\ b.pc \in Google!Before \cup Google!After
      /\ UNCHANGED <<v1, v2, v3, v4, v5, v6, v7>> /\ v8' = [v8 EXCEPT ![p] = Google!Idle]
  BY DEF Google!BreakOff, Google!google, Google!machine, Google!Safe, Google!Types, Google!Commands, Google!Set
<1>2. (v10 => v10') /\ (~v10' => ~Google!Holds(p)) /\ v10' \in BOOLEAN
  BY <1>1 DEF Google!BreakOff, Google!Holds
<1>3. Google!Idle \in Google!Commands /\ Google!Idle.pc = "idle"
  BY DEF Google!Idle, Google!Commands, Google!Machine, Google!Before
<1>4. Google!TokensSafe'
  BY <1>1, <1>2, GoogleDrops
<1>5. v11 \in [Google!Machine -> BOOLEAN] /\ v11' = [v11 EXCEPT ![n] = @ \/ Google!Applying(p, n)]
  BY DEF Google!BreakOff, Google!Safe, Google!Types
<1>6. CASE Google!Applying(p, n)
  <2>1. v11' = [v11 EXCEPT ![n] = TRUE]
    BY <1>5, <1>6
  <2>2. v11' \in [Google!Machine -> BOOLEAN] /\ v11'[n] /\ \A k \in Google!Machine \ {n} : v11'[k] = v11[k]
    BY <1>1, <1>5, <2>1
  <2> DEFINE N == n
             c == Google!Idle
  <2>3. N = v8[p].m /\ N = n /\ c = Google!Idle /\ b.pc \in {"homes", "restore", "gog", "state"}
    BY <1>6 DEF Google!Applying
  <2> HIDE DEF N, c
  <2>4. Google!Came(c, v5', v6')
    BY <1>3, <2>3 DEF Google!Came
  <2>5. Google!MachinesSafe'
    BY <1>1, <1>2, <1>3, <2>2, <2>3, <2>4, GoogleApplies
  <2>6. Google!Types'
    BY <1>1, <1>2, <1>3, <2>2 DEF Google!Safe, Google!Types
  <2> QED BY <1>4, <2>5, <2>6 DEF Google!Safe
<1>7. CASE ~Google!Applying(p, n)
  <2>1. v11' = v11
    <3>1. (v11[n] \/ Google!Applying(p, n)) = v11[n]
      BY <1>1, <1>5, <1>7
    <3> QED BY <1>5, <3>1
  <2>2. b.pc \in {"idle", "read", "verify", "snapshot", "store"}
    BY <1>1, <1>7 DEF Google!Applying, Google!Before, Google!After
  <2>3. Google!MachinesSafe'
    BY <1>1, <1>2, <1>3, <2>1, <2>2, GoogleMachines
  <2>4. Google!Types'
    BY <1>1, <1>2, <1>3, <1>5, <2>1 DEF Google!Safe, Google!Types
  <2> QED BY <1>4, <2>3, <2>4 DEF Google!Safe
<1> QED BY <1>6, <1>7

\* The credentials helper, for any machines' homes, commands and tokens: however
\* tokens rotate and commands fail, one that Google honours is kept, and the
\* consumers of a machine agree, but in the listed ways.
THEOREM CredentialsAreKept == Spec => []CredentialsKept
<1> DEFINE Safe == program = "google" => Google!Safe
<1>1. Init => Safe
  BY GoogleInit DEF Init
<1>2. ASSUME Safe, [Next]_vars PROVE Safe'
  <2> SUFFICES ASSUME program' = "google" PROVE Google!Safe'
    OBVIOUS
  <2>1. CASE Next
    <3>1. program = "google" /\ Google!Next
      BY <2>1 DEF Next
    <3>2. PICK p \in GoogleProc : Google!Command(p)
      BY <3>1 DEF Google!Next
    <3> QED
      BY <1>2, <3>1, <3>2, GoogleStart, GoogleReadStore, GoogleVerify, GoogleVerifyFails, GoogleSnapshot,
         GoogleTurns, GoogleRestored, GoogleWriteHome, GoogleImportGog, GoogleWriteState, GoogleWriteStore,
         GoogleBreakOff DEF Google!Command
  <2>2. CASE UNCHANGED vars
    <3>1. program = "google" /\ UNCHANGED <<v1, v2, v3, v4, v5, v6, v7, v8, v9, v10, v11>>
      BY <2>2 DEF vars
    <3> QED BY <1>2, <3>1 DEF Google!Safe, Google!Types, Google!TokensSafe, Google!MachinesSafe, Google!Sole,
         Google!HasValid, Google!FromStore, Google!Kept, Google!SoleOn, Google!Changes, Google!ConsumersAgree,
         Google!Busy, Google!Applying
  <2> QED BY <1>2, <2>1, <2>2
<1>3. Safe => CredentialsKept
  BY DEF CredentialsKept, Google!Safe, Google!TokensSafe, Google!MachinesSafe, Google!Kept, Google!TokenKept
<1> QED BY <1>1, <1>2, <1>3, PTL DEF Spec

-----------------------------------------------------------------------------
(* The commands of dba.  local-test: v1, v2 and v3 are made, up and cmd. *)

\* No command is given, and nothing is up.
LEMMA LocalInit == ASSUME Local!Init PROVE Local!Safe
<1>1. v1 = {} /\ v2 = {} /\ v3 = [c \in LocalCommand |-> Local!NotGiven]
  BY DEF Local!Init
<1>2. Local!NotGiven \in Local!Commands /\ Local!NotGiven.pc = "none" /\ Local!NotGiven.op = "none"
  BY DEF Local!NotGiven, Local!Commands
<1> QED BY <1>1, <1>2 DEF Local!Safe, Local!Types, Local!RunStarts, Local!RuntimesOwned

\* What keeps a runtime owned: the command that changes still runs it, keeps it
\* or could not stop it, or another one is its owner.
LEMMA LocalKeeps ==
  ASSUME Local!Safe, NEW c \in LocalCommand, NEW k \in Local!Commands, v3' = [v3 EXCEPT ![c] = k],
         v1' \subseteq LocalWorkspace, k.pc = "none" => k.op = "none",
         k.op = "run" => k.at \in LocalWorkspace,
         k.pc \in {"init", "start", "apply", "seed", "smoke"} => k.op = "run",
         \A w \in v2' : \/ k.op = "run" /\ k.at = w /\ (k.pc # "over" \/ k.keep \/ ~k.stopped)
                        \/ w \in v2 /\ (v3[c].op = "run" => v3[c].at # w)
  PROVE  Local!Safe'
<1>1. v3' \in [LocalCommand -> Local!Commands] /\ v3'[c] = k /\ \A d \in LocalCommand \ {c} : v3'[d] = v3[d]
  BY DEF Local!Safe, Local!Types
<1>2. Local!RunStarts'
  BY <1>1 DEF Local!Safe, Local!RunStarts
<1>3. Local!RuntimesOwned'
  BY <1>1 DEF Local!Safe, Local!RuntimesOwned
<1> QED BY <1>1, <1>2, <1>3 DEF Local!Safe, Local!Types, Local!Commands

\* A step of command c.
LEMMA LocalStep == ASSUME Local!Safe, NEW c \in LocalCommand, Local!Step(c) PROVE Local!Safe'
<1> DEFINE k == v3[c]
<1>1. k \in Local!Commands /\ v1 \subseteq LocalWorkspace
  BY DEF Local!Safe, Local!Types
<1>2. /\ k.pc = "none" => k.op = "none"
      /\ k.pc \in {"init", "start", "apply", "seed", "smoke"} => k.op = "run"
  BY DEF Local!Safe, Local!RunStarts
<1>3. CASE Local!Run(c) \/ Local!Stop(c)
  <2>1. k.op = "none" /\ v2' = v2 /\ v1' = v1
    BY <1>2, <1>3 DEF Local!Run, Local!Stop, Local!At
  <2>2. \E l \in Local!Commands : /\ v3' = [v3 EXCEPT ![c] = l]
                                  /\ \/ l.pc = "init" /\ l.op = "run" /\ l.at \in LocalWorkspace
                                     \/ l.pc = "stop" /\ l.op = "stop"
    <3>1. \A n \in 0 .. LocalSmokes : n \in Nat
      OBVIOUS
    <3>2. CASE Local!Run(c)
      <4>1. PICK w \in LocalWorkspace, keep \in BOOLEAN, seed \in BOOLEAN, n \in 0 .. LocalSmokes :
              v3' = [v3 EXCEPT ![c] = [Local!NotGiven EXCEPT !.op = "run", !.at = w, !.keep = keep, !.seed = seed,
                                                             !.smokes = n, !.pc = "init"]]
        BY <3>2 DEF Local!Run
      <4> DEFINE l == [Local!NotGiven EXCEPT !.op = "run", !.at = w, !.keep = keep, !.seed = seed,
                                             !.smokes = n, !.pc = "init"]
      <4>2. l \in Local!Commands /\ l.pc = "init" /\ l.op = "run" /\ l.at \in LocalWorkspace
        BY <3>1 DEF Local!NotGiven, Local!Commands
      <4> HIDE DEF l
      <4> QED BY <4>1, <4>2 DEF l
    <3>3. CASE Local!Stop(c)
      <4>1. PICK w \in v1 : v3' = [v3 EXCEPT ![c] = [Local!NotGiven EXCEPT !.op = "stop", !.at = w, !.pc = "stop"]]
        BY <3>3 DEF Local!Stop
      <4> DEFINE l == [Local!NotGiven EXCEPT !.op = "stop", !.at = w, !.pc = "stop"]
      <4>2. l \in Local!Commands /\ l.pc = "stop" /\ l.op = "stop"
        BY <1>1 DEF Local!NotGiven, Local!Commands
      <4> HIDE DEF l
      <4> QED BY <4>1, <4>2 DEF l
    <3> QED BY <1>3, <3>2, <3>3
  <2> QED BY <1>1, <2>1, <2>2, LocalKeeps
<1>4. CASE \/ Local!InitWorkspace(c) \/ Local!StartRuntime(c) \/ Local!Work(c) \/ Local!Succeed(c) \/ Local!Break(c)
  <2> DEFINE Changed(p, r, n) == [k EXCEPT !.pc = p, !.result = r, !.smokes = n]
  <2>1. k.pc \in {"init", "start", "apply", "seed", "smoke"}
    BY <1>4 DEF Local!InitWorkspace, Local!StartRuntime, Local!Work, Local!Succeed, Local!Break, Local!At
  <2>2. v2' \in {v2, v2 \cup {k.at}} /\ v1' \in {v1, v1 \cup {k.at}} /\ k.at \in LocalWorkspace
    <3>1. k.at \in LocalWorkspace
      BY <1>2, <2>1 DEF Local!Safe, Local!RunStarts
    <3> QED BY <1>4, <3>1 DEF Local!InitWorkspace, Local!StartRuntime, Local!Work, Local!Succeed, Local!Break
  <2>3. Local!Go(c, "start") => v3' = [v3 EXCEPT ![c] = Changed("start", k.result, k.smokes)]
    BY <1>1 DEF Local!Go, Local!Commands
  <2>4. Local!Go(c, "apply") => v3' = [v3 EXCEPT ![c] = Changed("apply", k.result, k.smokes)]
    BY <1>1 DEF Local!Go, Local!Commands
  <2>5. \A p \in {"seed", "smoke"} : Local!Go(c, p) => v3' = [v3 EXCEPT ![c] = Changed(p, k.result, k.smokes)]
    BY <1>1 DEF Local!Go, Local!Commands
  <2>6. Local!Raise(c) => v3' = [v3 EXCEPT ![c] = Changed(Local!Unwound(c), "failed", k.smokes)]
    BY <1>1 DEF Local!Raise, Local!Commands
  <2>7. Local!Succeed(c) => v3' = [v3 EXCEPT ![c] = Changed(Local!Unwound(c), "done", k.smokes)]
    <3>1. Changed(Local!Unwound(c), "done", k.smokes) = [k EXCEPT !.pc = Local!Unwound(c), !.result = "done"]
      BY <1>1 DEF Local!Commands
    <3>2. Local!Unwound(c) = IF k.keep THEN "over" ELSE "stop"
      BY DEF Local!Unwound
    <3> QED BY <3>1, <3>2 DEF Local!Succeed
  <2>8. Local!Work(c) => \/ \E p \in {"seed", "smoke"} : Local!Go(c, p)
                         \/ v3' = [v3 EXCEPT ![c] = Changed(k.pc, k.result, k.smokes - 1)] /\ k.smokes > 0
    BY <1>1 DEF Local!Work, Local!AfterApply, Local!Commands
  <2>9. PICK p \in {"start", "apply", "seed", "smoke", "over", "stop"}, r \in {"none", "done", "failed"}, n \in Nat :
          v3' = [v3 EXCEPT ![c] = Changed(p, r, n)] /\ (p = "over" => k.keep)
    <3>1. k.result \in {"none", "done", "failed"} /\ k.smokes \in Nat /\ (k.smokes > 0 => k.smokes - 1 \in Nat)
      BY <1>1 DEF Local!Commands
    <3> HIDE DEF Changed
    <3>2. CASE Local!Raise(c)
      BY <2>6, <3>1, <3>2 DEF Local!Unwound
    <3>3. CASE Local!Succeed(c)
      BY <2>7, <3>1, <3>3 DEF Local!Unwound
    <3>4. CASE Local!Work(c)
      BY <1>4, <2>1, <2>5, <2>8, <3>1, <3>4 DEF Local!Work, Local!At
    <3> QED BY <1>4, <2>3, <2>4, <3>1, <3>2, <3>3, <3>4 DEF Local!InitWorkspace, Local!StartRuntime, Local!Break
  <2> DEFINE l == Changed(p, r, n)
  <2>10. l \in Local!Commands /\ l.op = k.op /\ l.at = k.at /\ l.keep = k.keep /\ l.pc = p
    BY <1>1 DEF Local!Commands
  <2>11. k.op = "run"
    BY <1>2, <2>1
  <2> HIDE DEF l
  <2>12. v3' = [v3 EXCEPT ![c] = l] /\ (p = "over" => k.keep)
    BY <2>9 DEF l
  <2>13. \A w \in v2' : w = k.at \/ w \in v2
    BY <2>2
  <2>14. v1' \subseteq LocalWorkspace
    BY <1>1, <2>2
  <2> QED BY <2>2, <2>9, <2>10, <2>11, <2>12, <2>13, <2>14, LocalKeeps
<1>5. CASE Local!StopRuntime(c)
  <2>1. k.pc = "stop" /\ v1' = v1
    BY <1>5 DEF Local!StopRuntime, Local!At
  <2>2. PICK l \in Local!Commands :
          /\ v3' = [v3 EXCEPT ![c] = l] /\ l.op = k.op /\ l.at = k.at /\ l.pc = "over"
          /\ v2' = v2 \ {k.at} \/ (v2' = v2 /\ ~l.stopped)
    <3>1. CASE /\ v2' = v2 \ {k.at}
               /\ v3' = [v3 EXCEPT ![c] = [k EXCEPT !.pc = "over", !.result = IF k.op = "stop" THEN "done" ELSE @]]
      <4> DEFINE l == [k EXCEPT !.pc = "over", !.result = IF k.op = "stop" THEN "done" ELSE @]
      <4>1. l \in Local!Commands /\ l.op = k.op /\ l.at = k.at /\ l.pc = "over"
        BY <1>1 DEF Local!Commands
      <4> HIDE DEF l
      <4> QED BY <3>1, <4>1 DEF l
    <3>2. CASE /\ v2' = v2
               /\ v3' = [v3 EXCEPT ![c] = [k EXCEPT !.pc = "over", !.stopped = FALSE,
                                                    !.result = IF k.op = "stop" THEN "failed" ELSE @]]
      <4> DEFINE l == [k EXCEPT !.pc = "over", !.stopped = FALSE, !.result = IF k.op = "stop" THEN "failed" ELSE @]
      <4>1. l \in Local!Commands /\ l.op = k.op /\ l.at = k.at /\ l.pc = "over" /\ ~l.stopped
        BY <1>1 DEF Local!Commands
      <4> HIDE DEF l
      <4> QED BY <3>2, <4>1 DEF l
    <3> QED BY <1>1, <1>5, <3>1, <3>2 DEF Local!StopRuntime, Local!Commands
  <2> QED BY <1>1, <1>2, <2>1, <2>2, LocalKeeps DEF Local!Safe, Local!RunStarts
<1> QED BY <1>3, <1>4, <1>5 DEF Local!Step

-----------------------------------------------------------------------------
(* Copies: v1 to v5 are now, rows, file, cmd and writes. *)

\* No command is given, and there are no files.
LEMMA DbaInit == ASSUME Dba!Init PROVE Dba!Safe
<1>1. /\ v1 = 0 /\ v2 \in [Dba!Db -> SUBSET DbaRow] /\ DOMAIN v3 = {} /\ v4 = [c \in DbaCommand |-> Dba!NotGiven]
  BY DEF Dba!Init
<1>2. Dba!NotGiven \in Dba!Commands /\ Dba!Over(Dba!NotGiven) /\ Dba!NotGiven.wrote = {} /\ Dba!Exact(Dba!NotGiven)
  <2>1. Dba!NotGiven.slot = <<>>
    BY DEF Dba!NotGiven
  <2> QED BY DEF Dba!NotGiven, Dba!Commands, Dba!Over, Dba!Exact, Dba!Db
<1> QED BY <1>1, <1>2 DEF Dba!Safe, Dba!Types, Dba!Apart, Dba!CopiesExact

\* A command at work takes a step, and may write to its file.
LEMMA DbaWorks ==
  ASSUME Dba!Safe, NEW c \in DbaCommand, NEW k \in Dba!Commands, ~Dba!Over(v4[c]), v4' = [v4 EXCEPT ![c] = k],
         v1' = v1, v2' \in [Dba!Db -> SUBSET DbaRow],
         DOMAIN v3 \subseteq DOMAIN v3', DOMAIN v3' \subseteq DOMAIN v3 \cup {k.slot},
         k.slot \in DOMAIN v3' => v3'[k.slot] \in Dba!Files,
         \A s \in DOMAIN v3 : s # k.slot => v3'[s] = v3[s],
         k.slot = v4[c].slot, k.mixed = v4[c].mixed,
         ~k.mixed => Dba!Exact(k),
         ~Dba!Over(k) => Dba!HasFile(k, v3') /\ (~k.mixed => Dba!FileIsOwn(k, v3')),
         k.pc \notin {"done", "failed"} => k.wrote = {}
  PROVE  Dba!Safe'
<1>1. v4' \in [DbaCommand -> Dba!Commands] /\ v4'[c] = k /\ \A d \in DbaCommand \ {c} : v4'[d] = v4[d]
  BY DEF Dba!Safe, Dba!Types
<1>2. v4[c].slot \in Dba!Slots
  BY DEF Dba!Safe, Dba!HasFile
<1>3. Dba!Types'
  BY <1>1, <1>2 DEF Dba!Safe, Dba!Types, Dba!Slots, Dba!Files, Dba!Commands
<1>4. Dba!Apart'
  <2> SUFFICES ASSUME NEW d \in DbaCommand, NEW e \in DbaCommand, d # e, ~Dba!Over(v4'[d]), ~Dba!Over(v4'[e]),
                      ~v4'[d].mixed
               PROVE  v4'[d].slot # v4'[e].slot
    BY DEF Dba!Apart, Dba!Over
  <2>1. /\ ~Dba!Over(v4[d]) /\ ~Dba!Over(v4[e]) /\ ~v4[d].mixed
        /\ v4'[d].slot = v4[d].slot /\ v4'[e].slot = v4[e].slot
    BY <1>1
  <2> QED BY <2>1 DEF Dba!Safe, Dba!Apart
<1>5. Dba!CopiesExact'
  BY <1>1 DEF Dba!Safe, Dba!CopiesExact, Dba!Exact
<1>6. ASSUME NEW d \in DbaCommand
      PROVE  /\ ~Dba!Over(v4'[d]) => Dba!HasFile(v4'[d], v3') /\ (~v4'[d].mixed => Dba!FileIsOwn(v4'[d], v3'))
             /\ v4'[d].pc \notin {"done", "failed"} => v4'[d].wrote = {}
  <2>1. CASE d = c
    BY <1>1, <2>1
  <2>2. CASE d # c
    <3>1. v4'[d] = v4[d]
      BY <1>1, <2>2
    <3>2. ASSUME ~Dba!Over(v4[d]) PROVE Dba!HasFile(v4[d], v3') /\ (~v4[d].mixed => Dba!FileIsOwn(v4[d], v3'))
      <4>1. Dba!HasFile(v4[d], v3)
        BY <3>2 DEF Dba!Safe
      <4>2. Dba!HasFile(v4[d], v3')
        BY <4>1 DEF Dba!HasFile
      <4>3. ASSUME ~v4[d].mixed PROVE Dba!FileIsOwn(v4[d], v3')
        <5>1. Dba!FileIsOwn(v4[d], v3)
          BY <3>2, <4>3 DEF Dba!Safe
        <5>2. v4[d].slot # k.slot
          BY <2>2, <3>2, <4>3 DEF Dba!Safe, Dba!Apart
        <5>3. v4[d].slot \in DOMAIN v3 => v4[d].slot \in DOMAIN v3' /\ v3'[v4[d].slot] = v3[v4[d].slot]
          BY <5>2
        <5> QED BY <4>1, <5>1, <5>3 DEF Dba!FileIsOwn, Dba!HasFile
      <4> QED BY <4>2, <4>3
    <3> QED BY <3>1, <3>2 DEF Dba!Safe
  <2> QED BY <2>1, <2>2
<1> QED BY <1>3, <1>4, <1>5, <1>6 DEF Dba!Safe, Dba!Over

\* A command that has the slot of one that begins meets it.
LEMMA DbaMeets ==
  ASSUME NEW k \in Dba!Commands, NEW l \in Dba!Commands, ~Dba!Over(l), Dba!HasFile(k, v3), Dba!HasFile(l, v3),
         k.slot = l.slot
  PROVE  Dba!Meets(k, l)
<1>1. CASE k.op # "copy"
  BY <1>1 DEF Dba!Meets
<1>2. CASE k.op = "copy"
  <2>1. k.slot = Dba!SlotOf(k) /\ k.slot.op = "copy" /\ k.slot.second = k.second
    BY <1>2 DEF Dba!HasFile, Dba!SlotOf
  <2>2. l.op \in {"copy", "clone", "dump"}
    BY <2>1 DEF Dba!HasFile, Dba!Commands
  <2>3. l.slot = Dba!SlotOf(l) /\ l.slot.op = l.op
    BY <2>2 DEF Dba!HasFile, Dba!SlotOf
  <2>4. l.slot.second = l.second
    BY <2>3 DEF Dba!SlotOf
  <2> QED BY <1>2, <2>1, <2>3, <2>4 DEF Dba!Meets
<1> QED BY <1>1, <1>2

\* A command begins.
LEMMA DbaBegins ==
  ASSUME Dba!Safe, NEW c \in DbaCommand, NEW k \in Dba!Commands, v4[c].pc = "none", Dba!Begin(c, k),
         ~Dba!Over(k), Dba!HasFile(k, v3), Dba!FileIsOwn(k, v3), k.wrote = {}, ~k.wiped,
         k.pc \in {"scripts", "open", "wipe"}
  PROVE  Dba!Safe'
<1>1. /\ UNCHANGED <<v1, v2, v3, v5>>
      /\ v4' = [d \in DbaCommand |-> IF d = c THEN [k EXCEPT !.mixed = \E x \in DbaCommand : Dba!Meets(k, v4[x])]
                                     ELSE [v4[d] EXCEPT !.mixed = @ \/ Dba!Meets(k, v4[d])]]
  BY DEF Dba!Begin
<1> DEFINE Marked(m, l, b) ==
             /\ m \in Dba!Commands /\ m.mixed = b /\ m.slot = l.slot /\ m.pc = l.pc /\ m.op = l.op /\ m.wrote = l.wrote
             /\ m.wiped = l.wiped /\ m.read = l.read /\ m.wipe = l.wipe /\ m.second = l.second /\ m.from = l.from
             /\ m.to = l.to
<1>2. \A b \in BOOLEAN, l \in Dba!Commands : Marked([l EXCEPT !.mixed = b], l, b)
  BY DEF Dba!Commands
<1>3. \A d \in DbaCommand : v4[d] \in Dba!Commands /\ v4[d].mixed \in BOOLEAN
  BY DEF Dba!Safe, Dba!Types, Dba!Commands
<1>4. \A l \in Dba!Commands : Dba!Meets(k, l) \in BOOLEAN
  BY DEF Dba!Meets
<1> DEFINE old(d) == IF d = c THEN k ELSE v4[d]
           b(d) == IF d = c THEN \E x \in DbaCommand : Dba!Meets(k, v4[x]) ELSE v4[d].mixed \/ Dba!Meets(k, v4[d])
<1>5. ASSUME NEW d \in DbaCommand
      PROVE  /\ v4'[d] = [old(d) EXCEPT !.mixed = b(d)] /\ b(d) \in BOOLEAN /\ old(d) \in Dba!Commands
  <2>1. CASE d = c
    BY <1>1, <2>1
  <2>2. CASE d # c
    <3>1. (v4[d].mixed \/ Dba!Meets(k, v4[d])) \in BOOLEAN
      BY <1>3, <1>4
    <3>2. v4'[d] = [v4[d] EXCEPT !.mixed = v4[d].mixed \/ Dba!Meets(k, v4[d])]
      BY <1>1, <2>2
    <3> QED BY <1>3, <2>2, <3>1, <3>2
  <2> QED BY <2>1, <2>2
<1>6. \A d \in DbaCommand : Marked(v4'[d], old(d), b(d))
  <2> SUFFICES ASSUME NEW d \in DbaCommand PROVE Marked(v4'[d], old(d), b(d))
    OBVIOUS
  <2> DEFINE l == old(d)
             y == b(d)
  <2>1. v4'[d] = [l EXCEPT !.mixed = y] /\ y \in BOOLEAN /\ l \in Dba!Commands
    BY <1>5
  <2> HIDE DEF Marked, l, y
  <2>2. Marked([l EXCEPT !.mixed = y], l, y)
    BY <1>2, <2>1
  <2> QED BY <2>1, <2>2 DEF l, y
<1>7. Dba!Types'
  <2>1. v4' \in [DbaCommand -> Dba!Commands]
    BY <1>1, <1>6
  <2> QED BY <1>1, <2>1 DEF Dba!Safe, Dba!Types, Dba!Slots, Dba!Files, Dba!Commands
<1>8. ASSUME NEW d \in DbaCommand, d # c, ~Dba!Over(v4[d]), v4[d].slot = k.slot PROVE Dba!Meets(k, v4[d])
  BY <1>3, <1>8, DbaMeets DEF Dba!Safe
<1>9. Dba!Apart'
  <2> SUFFICES ASSUME NEW d \in DbaCommand, NEW e \in DbaCommand, d # e, ~Dba!Over(v4'[d]), ~Dba!Over(v4'[e]),
                      v4'[d].slot = v4'[e].slot
               PROVE  v4'[d].mixed
    BY DEF Dba!Apart, Dba!Over
  <2>1. CASE d = c
    BY <1>6, <1>8, <2>1 DEF Dba!Over
  <2>2. CASE e = c
    BY <1>6, <1>8, <2>2 DEF Dba!Over
  <2>3. CASE d # c /\ e # c
    <3>1. ~Dba!Over(v4[d]) /\ ~Dba!Over(v4[e]) /\ v4[d].slot = v4[e].slot
      BY <1>6, <2>3 DEF Dba!Over
    <3>2. v4[d].mixed
      BY <3>1 DEF Dba!Safe, Dba!Apart
    <3> QED BY <1>6, <2>3, <3>2
  <2> QED BY <2>1, <2>2, <2>3
<1>10. ASSUME NEW d \in DbaCommand
       PROVE  /\ ~v4'[d].mixed => Dba!Exact(v4'[d])
              /\ ~Dba!Over(v4'[d]) => Dba!HasFile(v4'[d], v3) /\ (~v4'[d].mixed => Dba!FileIsOwn(v4'[d], v3))
              /\ v4'[d].pc \notin {"done", "failed"} => v4'[d].wrote = {}
  <2>1. CASE d = c
    BY <1>6, <2>1 DEF Dba!Exact, Dba!HasFile, Dba!FileIsOwn, Dba!SlotOf, Dba!Over
  <2>2. CASE d # c
    <3>1. Marked(v4'[d], v4[d], b(d)) /\ (~b(d) => ~v4[d].mixed)
      BY <1>6, <2>2
    <3> HIDE DEF b
    <3>2. ASSUME ~v4'[d].mixed PROVE Dba!Exact(v4'[d])
      <4>1. Dba!Exact(v4[d])
        BY <3>1, <3>2 DEF Dba!Safe, Dba!CopiesExact
      <4> QED BY <3>1, <4>1 DEF Dba!Exact
    <3>3. ASSUME ~Dba!Over(v4'[d]) PROVE Dba!HasFile(v4'[d], v3) /\ (~v4'[d].mixed => Dba!FileIsOwn(v4'[d], v3))
      <4>1. Dba!HasFile(v4[d], v3) /\ (~v4[d].mixed => Dba!FileIsOwn(v4[d], v3))
        BY <3>1, <3>3 DEF Dba!Safe, Dba!Over
      <4>2. Dba!SlotOf(v4'[d]) = Dba!SlotOf(v4[d])
        BY <3>1 DEF Dba!SlotOf
      <4>3. Dba!HasFile(v4'[d], v3)
        BY <3>1, <4>1, <4>2 DEF Dba!HasFile
      <4>4. ~v4'[d].mixed => Dba!FileIsOwn(v4'[d], v3)
        BY <3>1, <4>1 DEF Dba!FileIsOwn
      <4> QED BY <4>3, <4>4
    <3>4. v4'[d].pc \notin {"done", "failed"} => v4'[d].wrote = {}
      BY <3>1 DEF Dba!Safe
    <3> QED BY <3>2, <3>3, <3>4
  <2> QED BY <2>1, <2>2
<1> QED BY <1>1, <1>7, <1>9, <1>10 DEF Dba!Safe, Dba!CopiesExact, Dba!Over

\* copy, clone, dump, and restore from a file that is there.
LEMMA DbaStarts == ASSUME Dba!Safe, NEW c \in DbaCommand, Dba!Start(c) \/ Dba!StartRestore(c) PROVE Dba!Safe'
<1>1. v4[c].pc = "none" /\ v1 \in Nat
  BY DEF Dba!Start, Dba!StartRestore, Dba!Safe, Dba!Types
<1>2. CASE Dba!Start(c)
  <2>1. PICK op \in {"copy", "clone", "dump"}, from \in Dba!Db, to \in Dba!Db, approved \in Dba!Db, wipe \in BOOLEAN,
             force \in BOOLEAN :
          Dba!Begin(c, [Dba!Given(op, from, to, wipe) EXCEPT !.slot = Dba!SlotOf(Dba!Given(op, from, to, wipe))])
    BY <1>2 DEF Dba!Start
  <2> DEFINE h == Dba!Given(op, from, to, wipe)
             k == [h EXCEPT !.slot = Dba!SlotOf(h)]
             pc == IF op = "copy" THEN "scripts" ELSE "open"
  <2>2. /\ h \in Dba!Commands /\ h.op = op /\ h.from = from /\ h.to = to /\ h.second = v1 /\ h.pc = pc
        /\ h.wrote = {} /\ ~h.wiped
    BY <1>1 DEF Dba!Given, Dba!NotGiven, Dba!Commands, Dba!Db
  <2>3. Dba!SlotOf(h) \in Dba!Slots /\ Dba!SlotOf(h).op = op
    <3> HIDE DEF h
    <3> QED BY <1>1, <2>2 DEF Dba!SlotOf, Dba!Slots, Dba!Db
  <2>4. /\ k \in Dba!Commands /\ k.op = op /\ k.from = from /\ k.to = to /\ k.second = v1 /\ k.pc = pc
        /\ k.wrote = {} /\ ~k.wiped /\ k.slot = Dba!SlotOf(h)
    <3> HIDE DEF h
    <3> QED BY <2>2, <2>3 DEF Dba!Commands
  <2>5. Dba!Begin(c, k)
    BY <2>1
  <2> HIDE DEF h, k
  <2>6. Dba!SlotOf(k) = Dba!SlotOf(h)
    BY <2>2, <2>4 DEF Dba!SlotOf
  <2>7. ~Dba!Over(k) /\ Dba!HasFile(k, v3) /\ Dba!FileIsOwn(k, v3)
    BY <2>3, <2>4, <2>6 DEF Dba!Over, Dba!HasFile, Dba!FileIsOwn
  <2>8. k.pc \in {"scripts", "open", "wipe"}
    BY <2>4
  <2> QED BY <1>1, <2>4, <2>5, <2>7, <2>8, DbaBegins
<1>3. CASE Dba!StartRestore(c)
  <2> DEFINE K(s, to, wipe) ==
        [Dba!NotGiven EXCEPT !.op = "restore", !.from = s.from, !.to = to, !.wipe = wipe, !.slot = s,
                             !.pc = "wipe", !.read = v3[s].rows]
  <2>1. PICK s \in {s \in DOMAIN v3 : s.op # "copy"}, to \in Dba!Db, approved \in Dba!Db, wipe \in BOOLEAN,
             force \in BOOLEAN : Dba!Begin(c, K(s, to, wipe))
    BY <1>3 DEF Dba!StartRestore
  <2> DEFINE k == K(s, to, wipe)
  <2>2. s \in Dba!Slots /\ s.from \in Dba!Db \cup {"any"} /\ v3[s].rows \in SUBSET DbaRow
    BY DEF Dba!Safe, Dba!Types, Dba!Slots, Dba!Files
  <2>3. /\ k \in Dba!Commands /\ k.op = "restore" /\ k.slot = s /\ k.pc = "wipe" /\ k.read = v3[s].rows
        /\ k.wrote = {} /\ ~k.wiped
    BY <2>2 DEF Dba!NotGiven, Dba!Commands
  <2>4. Dba!Begin(c, k)
    BY <2>1
  <2> HIDE DEF K, k
  <2>5. ~Dba!Over(k) /\ Dba!HasFile(k, v3) /\ Dba!FileIsOwn(k, v3)
    BY <2>2, <2>3 DEF Dba!Over, Dba!HasFile, Dba!FileIsOwn
  <2>6. k.pc \in {"scripts", "open", "wipe"}
    BY <2>3
  <2> QED BY <1>1, <2>3, <2>4, <2>5, <2>6, DbaBegins
<1> QED BY <1>2, <1>3

\* The script of a copy and the file of rows are written.
LEMMA DbaFile ==
  ASSUME Dba!Safe, NEW c \in DbaCommand, Dba!WriteScripts(c) \/ Dba!OpenFile(c) \/ Dba!FillFile(c) PROVE Dba!Safe'
<1> DEFINE k == v4[c]
<1>1. /\ k \in Dba!Commands /\ v2 \in [Dba!Db -> SUBSET DbaRow] /\ (\A s \in DOMAIN v3 : v3[s] \in Dba!Files)
      /\ k.pc \in {"scripts", "open", "fill"}
  <2>1. k.pc \in {"scripts", "open", "fill"}
    BY DEF Dba!WriteScripts, Dba!OpenFile, Dba!FillFile
  <2> QED BY <2>1 DEF Dba!Safe, Dba!Types
<1>2. ~Dba!Over(k) /\ Dba!HasFile(k, v3) /\ (~k.mixed => Dba!FileIsOwn(k, v3) /\ Dba!Exact(k)) /\ k.wrote = {}
  BY <1>1 DEF Dba!Safe, Dba!Over, Dba!CopiesExact
<1>3. k.op \in {"copy", "clone", "dump"} /\ k.from \in Dba!Db /\ k.slot \in Dba!Slots
  BY <1>1, <1>2 DEF Dba!HasFile, Dba!Commands
<1>4. Dba!FileAt(k.slot) \in Dba!Files /\ v2[k.from] \in SUBSET DbaRow
  BY <1>1, <1>3 DEF Dba!FileAt, Dba!NoFile, Dba!Files
<1>5. ASSUME NEW f \in Dba!Files, v3' = Dba!PutFile(k.slot, f)
      PROVE  /\ DOMAIN v3' = DOMAIN v3 \cup {k.slot} /\ v3'[k.slot] = f
             /\ \A s \in DOMAIN v3 : s # k.slot => v3'[s] = v3[s]
  BY <1>5 DEF Dba!PutFile
<1>6. CASE Dba!WriteScripts(c)
  <2> DEFINE f == [Dba!FileAt(k.slot) EXCEPT !.truncates = k.wipe]
             l == [k EXCEPT !.pc = "open"]
  <2>1. f \in Dba!Files /\ f.truncates = k.wipe
    BY <1>1, <1>4 DEF Dba!Files, Dba!Commands
  <2>2. /\ l \in Dba!Commands /\ l.pc = "open" /\ l.op = k.op /\ l.slot = k.slot /\ l.from = k.from /\ l.to = k.to
        /\ l.second = k.second /\ l.wipe = k.wipe /\ l.mixed = k.mixed /\ l.wrote = k.wrote /\ l.wiped = k.wiped
        /\ l.read = k.read
    BY <1>1 DEF Dba!Commands
  <2>3. v3' = Dba!PutFile(k.slot, f) /\ v4' = [v4 EXCEPT ![c] = l] /\ v1' = v1 /\ v2' = v2
    BY <1>6 DEF Dba!WriteScripts
  <2> HIDE DEF f, l
  <2>4. ~k.mixed => Dba!Exact(l)
    BY <1>2, <2>2 DEF Dba!Exact
  <2>5. Dba!SlotOf(l) = Dba!SlotOf(k)
    BY <2>2 DEF Dba!SlotOf
  <2>6. Dba!HasFile(l, v3') /\ Dba!FileIsOwn(l, v3')
    BY <1>2, <1>3, <1>5, <2>1, <2>2, <2>3, <2>5 DEF Dba!HasFile, Dba!FileIsOwn
  <2>7. /\ DOMAIN v3 \subseteq DOMAIN v3' /\ DOMAIN v3' \subseteq DOMAIN v3 \cup {l.slot}
        /\ (l.slot \in DOMAIN v3' => v3'[l.slot] \in Dba!Files) /\ (\A s \in DOMAIN v3 : s # l.slot => v3'[s] = v3[s])
        /\ l.slot = v4[c].slot /\ l.mixed = v4[c].mixed /\ l.wrote = {} /\ v2' \in [Dba!Db -> SUBSET DbaRow]
    BY <1>1, <1>2, <1>5, <2>1, <2>2, <2>3
  <2> QED BY <1>2, <2>2, <2>3, <2>4, <2>6, <2>7, DbaWorks
<1>7. CASE Dba!OpenFile(c)
  <2> DEFINE f == [Dba!FileAt(k.slot) EXCEPT !.rows = {}]
             l == [k EXCEPT !.pc = "fill"]
  <2>1. f \in Dba!Files /\ f.truncates = Dba!FileAt(k.slot).truncates
    BY <1>1, <1>4 DEF Dba!Files
  <2>2. /\ l \in Dba!Commands /\ l.pc = "fill" /\ l.op = k.op /\ l.slot = k.slot /\ l.from = k.from /\ l.to = k.to
        /\ l.second = k.second /\ l.wipe = k.wipe /\ l.mixed = k.mixed /\ l.wrote = k.wrote /\ l.wiped = k.wiped
        /\ l.read = k.read
    BY <1>1 DEF Dba!Commands
  <2>3. v3' = Dba!PutFile(k.slot, f) /\ v4' = [v4 EXCEPT ![c] = l] /\ v1' = v1 /\ v2' = v2 /\ k.pc = "open"
    BY <1>7 DEF Dba!OpenFile
  <2> HIDE DEF f, l
  <2>4. ~k.mixed => Dba!Exact(l)
    BY <1>2, <2>2, <2>3 DEF Dba!Exact
  <2>5. Dba!SlotOf(l) = Dba!SlotOf(k)
    BY <2>2 DEF Dba!SlotOf
  <2>6. Dba!HasFile(l, v3')
    BY <1>2, <1>3, <1>5, <2>1, <2>2, <2>3, <2>5 DEF Dba!HasFile
  <2>7. ~k.mixed => Dba!FileIsOwn(l, v3')
    BY <1>2, <1>5, <2>1, <2>2, <2>3 DEF Dba!FileIsOwn, Dba!FileAt
  <2>8. /\ DOMAIN v3 \subseteq DOMAIN v3' /\ DOMAIN v3' \subseteq DOMAIN v3 \cup {l.slot}
        /\ (l.slot \in DOMAIN v3' => v3'[l.slot] \in Dba!Files) /\ (\A s \in DOMAIN v3 : s # l.slot => v3'[s] = v3[s])
        /\ l.slot = v4[c].slot /\ l.mixed = v4[c].mixed /\ l.wrote = {} /\ v2' \in [Dba!Db -> SUBSET DbaRow]
    BY <1>1, <1>2, <1>5, <2>1, <2>2, <2>3
  <2> QED BY <1>2, <2>2, <2>3, <2>4, <2>6, <2>7, <2>8, DbaWorks
<1>8. CASE Dba!FillFile(c)
  <2> DEFINE R == v2[k.from]
             p == IF k.op = "dump" THEN "done" ELSE "wipe"
             l == [k EXCEPT !.read = R, !.pc = p]
  <2>1. k.pc = "fill" /\ k.slot \in DOMAIN v3
    BY <1>2, <1>8 DEF Dba!FillFile, Dba!HasFile
  <2>2. /\ l \in Dba!Commands /\ l.pc = p /\ l.op = k.op /\ l.slot = k.slot /\ l.from = k.from /\ l.to = k.to
        /\ l.second = k.second /\ l.wipe = k.wipe /\ l.mixed = k.mixed /\ l.wrote = k.wrote /\ l.wiped = k.wiped
        /\ l.read = R
    BY <1>1, <1>4 DEF Dba!Commands
  <2>3. v3' = [v3 EXCEPT ![k.slot].rows = R] /\ v4' = [v4 EXCEPT ![c] = l] /\ v1' = v1 /\ v2' = v2
    BY <1>8 DEF Dba!FillFile
  <2> HIDE DEF l, R
  <2>4. /\ DOMAIN v3' = DOMAIN v3 /\ \A s \in DOMAIN v3 : s # k.slot => v3'[s] = v3[s]
        /\ v3'[k.slot] = [v3[k.slot] EXCEPT !.rows = R]
    BY <1>1, <2>1, <2>3
  <2>5. v3'[k.slot] \in Dba!Files /\ v3'[k.slot].rows = R /\ v3'[k.slot].truncates = v3[k.slot].truncates
    BY <1>1, <1>4, <2>1, <2>4 DEF Dba!Files, R
  <2>6. ~k.mixed => Dba!Exact(l)
    BY <1>2, <2>1, <2>2 DEF Dba!Exact
  <2>7. Dba!SlotOf(l) = Dba!SlotOf(k)
    BY <2>2 DEF Dba!SlotOf
  <2>8. Dba!HasFile(l, v3')
    BY <1>2, <1>3, <2>1, <2>2, <2>4, <2>7 DEF Dba!HasFile
  <2>9. ~k.mixed => Dba!FileIsOwn(l, v3')
    BY <1>2, <2>1, <2>2, <2>4, <2>5 DEF Dba!FileIsOwn
  <2>10. /\ DOMAIN v3 \subseteq DOMAIN v3' /\ DOMAIN v3' \subseteq DOMAIN v3 \cup {l.slot}
        /\ (l.slot \in DOMAIN v3' => v3'[l.slot] \in Dba!Files) /\ (\A s \in DOMAIN v3 : s # l.slot => v3'[s] = v3[s])
        /\ l.slot = v4[c].slot /\ l.mixed = v4[c].mixed /\ l.wrote = {} /\ v2' \in [Dba!Db -> SUBSET DbaRow]
    BY <1>1, <1>2, <2>1, <2>2, <2>3, <2>4, <2>5
  <2> QED BY <1>2, <2>2, <2>3, <2>6, <2>8, <2>9, <2>10, DbaWorks
<1> QED BY <1>6, <1>7, <1>8

\* The target is emptied and loaded, or a command fails.
LEMMA DbaTarget ==
  ASSUME Dba!Safe, NEW c \in DbaCommand, Dba!Wipe(c) \/ Dba!Load(c) \/ Dba!Fail(c) PROVE Dba!Safe'
<1> DEFINE k == v4[c]
<1>1. k \in Dba!Commands /\ v2 \in [Dba!Db -> SUBSET DbaRow] /\ (\A s \in DOMAIN v3 : v3[s] \in Dba!Files) /\ k.to \in Dba!Db
  BY DEF Dba!Safe, Dba!Types, Dba!Commands
<1>2. ~Dba!Over(k)
  BY DEF Dba!Wipe, Dba!Load, Dba!Fail, Dba!Over
<1>3. /\ Dba!HasFile(k, v3) /\ (~k.mixed => Dba!FileIsOwn(k, v3) /\ Dba!Exact(k))
      /\ k.wrote = {} /\ k.pc \notin {"done", "failed"}
  BY <1>2 DEF Dba!Safe, Dba!Over, Dba!CopiesExact
<1>4. v1' = v1 /\ v3' = v3
  BY DEF Dba!Wipe, Dba!Load, Dba!Fail
<1>5. k.slot \in DOMAIN v3 => v3[k.slot] \in Dba!Files
  BY <1>1
<1>6. CASE Dba!Wipe(c)
  <2> DEFINE l == [k EXCEPT !.wiped = Dba!Wipes(k), !.pc = "load"]
  <2>1. k.pc = "wipe" /\ k.slot \in DOMAIN v3 /\ Dba!Wipes(k) \in BOOLEAN
    BY <1>1, <1>3, <1>6 DEF Dba!Wipe, Dba!HasFile, Dba!Wipes, Dba!Files, Dba!Commands
  <2>2. v4' = [v4 EXCEPT ![c] = l] /\ v2' = IF Dba!Wipes(k) THEN [v2 EXCEPT ![k.to] = {}] ELSE v2
    BY <1>6 DEF Dba!Wipe
  <2>3. v2' \in [Dba!Db -> SUBSET DbaRow]
    BY <1>1, <2>2
  <2>4. /\ l \in Dba!Commands /\ l.pc = "load" /\ l.op = k.op /\ l.slot = k.slot /\ l.from = k.from /\ l.to = k.to
        /\ l.second = k.second /\ l.wipe = k.wipe /\ l.mixed = k.mixed /\ l.wrote = k.wrote /\ l.wiped = Dba!Wipes(k)
        /\ l.read = k.read
    BY <1>1, <2>1 DEF Dba!Commands
  <2> HIDE DEF l
  <2>5. ~k.mixed => Dba!Wipes(k) = k.wipe
    BY <1>3, <2>1 DEF Dba!FileIsOwn, Dba!Wipes
  <2>6. ~k.mixed => Dba!Exact(l)
    BY <1>3, <2>4, <2>5 DEF Dba!Exact
  <2>7. Dba!SlotOf(l) = Dba!SlotOf(k)
    BY <2>4 DEF Dba!SlotOf
  <2>8. Dba!HasFile(l, v3') /\ (~k.mixed => Dba!FileIsOwn(l, v3'))
    BY <1>3, <1>4, <2>1, <2>4, <2>7 DEF Dba!HasFile, Dba!FileIsOwn
  <2> QED BY <1>2, <1>3, <1>4, <1>5, <2>2, <2>3, <2>4, <2>6, <2>8, DbaWorks
<1>7. CASE Dba!Load(c)
  <2> DEFINE R == v3[k.slot].rows
  <2>1. k.pc = "load" /\ k.slot \in DOMAIN v3 /\ R \in SUBSET DbaRow
    BY <1>1, <1>3, <1>7 DEF Dba!Load, Dba!HasFile, Dba!Files
  <2>2. PICK p \in {"done", "failed"}, V \in {R, {}} :
          /\ v4' = [v4 EXCEPT ![c] = [k EXCEPT !.wrote = V, !.pc = p]]
          /\ p = "done" => V = R
          /\ k.op = "copy" /\ p # "done" => V = {}
    <3>1. [k EXCEPT !.pc = "failed"] = [k EXCEPT !.wrote = {}, !.pc = "failed"]
      BY <1>1, <1>3 DEF Dba!Commands
    <3> HIDE DEF R
    <3>2. CASE R \cap v2[k.to] = {}
      BY <1>7, <3>2 DEF Dba!Load, R
    <3>3. CASE R \cap v2[k.to] # {}
      BY <1>7, <3>1, <3>3 DEF Dba!Load, R
    <3> QED BY <3>2, <3>3
  <2> DEFINE l == [k EXCEPT !.wrote = V, !.pc = p]
  <2>3. v2' \in [Dba!Db -> SUBSET DbaRow]
    BY <1>1, <1>7, <2>1 DEF Dba!Load
  <2>4. /\ l \in Dba!Commands /\ l.pc = p /\ l.op = k.op /\ l.slot = k.slot /\ l.wipe = k.wipe
        /\ l.mixed = k.mixed /\ l.wrote = V /\ l.wiped = k.wiped /\ l.read = k.read
    BY <1>1, <2>1, <2>2 DEF Dba!Commands
  <2>5. v4' = [v4 EXCEPT ![c] = l] /\ (p = "done" => V = R) /\ (k.op = "copy" /\ p # "done" => V = {})
    BY <2>2
  <2>6. ~k.mixed => R = k.read
    BY <1>3, <2>1 DEF Dba!FileIsOwn
  <2> HIDE DEF l, R
  <2>7. Dba!Over(l) /\ (~k.mixed => Dba!Exact(l))
    BY <1>3, <2>4, <2>5, <2>6 DEF Dba!Exact, Dba!Over
  <2> QED BY <1>2, <1>4, <1>5, <2>3, <2>4, <2>5, <2>7, DbaWorks
<1>8. CASE Dba!Fail(c)
  <2> DEFINE l == [k EXCEPT !.pc = "failed"]
  <2>1. v4' = [v4 EXCEPT ![c] = l] /\ v2' = v2
    BY <1>8 DEF Dba!Fail
  <2>2. /\ l \in Dba!Commands /\ l.pc = "failed" /\ l.op = k.op /\ l.slot = k.slot /\ l.wipe = k.wipe
        /\ l.mixed = k.mixed /\ l.wrote = k.wrote /\ l.wiped = k.wiped /\ l.read = k.read
    BY <1>1 DEF Dba!Commands
  <2> HIDE DEF l
  <2>3. Dba!Over(l) /\ (~k.mixed => Dba!Exact(l))
    BY <1>3, <2>2 DEF Dba!Exact, Dba!Over
  <2> QED BY <1>1, <1>2, <1>4, <1>5, <2>1, <2>2, <2>3, DbaWorks
<1> QED BY <1>6, <1>7, <1>8

\* Time passes and users write.
LEMMA DbaOthers ==
  ASSUME Dba!Safe, Dba!Tick \/ \E d \in Dba!Db : Dba!UserWrites(d) PROVE Dba!Safe'
<1>1. /\ UNCHANGED <<v3, v4>> /\ v1' \in Nat /\ v2' \in [Dba!Db -> SUBSET DbaRow]
  BY DEF Dba!Tick, Dba!UserWrites, Dba!Safe, Dba!Types
<1> QED BY <1>1 DEF Dba!Safe, Dba!Types, Dba!Apart, Dba!CopiesExact, Dba!Files, Dba!Slots, Dba!Commands

-----------------------------------------------------------------------------
(* The import of the legacy database: v1 to v12 are src, changes, export,      *)
(* target, users, pc, apply, limit, runs, stage, new and loaded.               *)

\* A finite set is one.
LEMMA LegacyFinite == \A S : Legacy!IsFiniteSet(S) <=> IsFiniteSet(S)
BY DEF Legacy!IsFiniteSet, IsFiniteSet

\* There is no data in the target, and nothing is exported.
LEMMA LegacyInit == ASSUME Legacy!Init PROVE Legacy!Safe
<1>1. /\ v1 \in LegacySources /\ v3 = Legacy!Nothing /\ v4 = Legacy!Empty /\ v6 = "idle" /\ v10 = Legacy!NoStage
      /\ v11 = Legacy!Empty /\ v12 = Legacy!Nothing
  BY DEF Legacy!Init
<1>2. /\ DOMAIN v4 = {"auth", "spec", "client", "result"} /\ DOMAIN v11 = {"auth", "spec", "client", "result"}
      /\ DOMAIN v10 = {"spec", "client"} /\ DOMAIN v3 = {"managers", "clients"}
      /\ v4.auth = {} /\ v4.spec = {} /\ v4.client = {} /\ v4["spec"] = {} /\ v4["client"] = {}
      /\ v10.spec = {} /\ v10.client = {} /\ v11.auth = {} /\ v11.spec = {} /\ v11.client = {}
      /\ v3.managers = {} /\ v3.clients = {} /\ v12.managers = {} /\ v12.clients = {}
  BY <1>1 DEF Legacy!Nothing, Legacy!Empty, Legacy!NoStage
<1>3. Legacy!Tables
  <2>1. Legacy!IsFiniteSet({})
    BY FS_EmptySet, LegacyFinite
  <2> QED BY <1>1, <1>2, <2>1 DEF Legacy!Tables, Legacy!Rows, Legacy!OneId
<1>4. Legacy!Imported
  BY <1>2 DEF Legacy!Imported, Legacy!ManagersIn, Legacy!ClientsIn
<1> QED BY <1>1, <1>2, <1>3, <1>4 DEF Legacy!Safe, Legacy!Accounts, Legacy!UsersSound, Legacy!UsersAre, Legacy!Staged,
      Legacy!Checked, Legacy!Written, Legacy!OnePerMail, Legacy!OnePerKey, Legacy!SlugsUnique, Legacy!OneSlug,
      Legacy!Exporting, Legacy!Writing

\* What was imported stays, as specialists and results change by an import only.
LEMMA LegacyImportedSame ==
  ASSUME Legacy!Imported, v4'.spec = v4.spec, v4'.result = v4.result, v4.client \subseteq v4'.client, v12' = v12
  PROVE  Legacy!Imported'
<1>1. Legacy!ClientsIn(v12, v4.spec, v4'.client, v4.result)
  BY DEF Legacy!Imported, Legacy!ClientsIn
<1>2. Legacy!ManagersIn(v12'.managers, v4'.spec)
  BY DEF Legacy!Imported
<1>3. Legacy!ClientsIn(v12', v4'.spec, v4'.client, v4'.result)
  BY <1>1
<1> QED BY <1>2, <1>3 DEF Legacy!Imported

\* What is written is of what is staged and exported.
LEMMA LegacyRowsSame ==
  ASSUME UNCHANGED v10
  PROVE  /\ Legacy!StagedUsers' = Legacy!StagedUsers /\ Legacy!Clients' = Legacy!Clients
         /\ v3' = v3 => Legacy!StagedResults' = Legacy!StagedResults
<1>1. \A i : Legacy!SpecialistIds(i)' = Legacy!SpecialistIds(i)
  BY DEF Legacy!SpecialistIds
<1>2. Legacy!StagedUsers' = Legacy!StagedUsers
  BY DEF Legacy!StagedUsers
<1>3. Legacy!Clients' = Legacy!Clients
  BY DEF Legacy!Clients, Legacy!SpecialistIds
<1>4. v3' = v3 => Legacy!StagedResults' = Legacy!StagedResults
  BY DEF Legacy!StagedResults, Legacy!SpecialistIds
<1> QED BY <1>2, <1>3, <1>4

\* The database changes, a run starts and exports.
LEMMA LegacyExports ==
  ASSUME Legacy!Safe, Legacy!SourceChanges \/ Legacy!Start \/ Legacy!ExportClients \/ Legacy!ExportManagers
  PROVE  Legacy!Safe'
<1>1. UNCHANGED <<v4, v10, v11, v12>>
  BY DEF Legacy!SourceChanges, Legacy!Start, Legacy!ExportClients, Legacy!ExportManagers, Legacy!files
<1>2. (v6' = v6 /\ v3' = v3) \/ (v6 \in {"idle", "clients", "managers"} /\ v6' \in {"clients", "managers", "stage managers"})
  BY DEF Legacy!SourceChanges, Legacy!Start, Legacy!ExportClients, Legacy!ExportManagers, Legacy!files
<1>3. Legacy!Tables'
  <2>1. v1' \in LegacySources
    BY DEF Legacy!SourceChanges, Legacy!Start, Legacy!ExportClients, Legacy!ExportManagers, Legacy!Safe, Legacy!Tables
  <2>2. Legacy!Rows(v1) /\ Legacy!Rows(v3)
    BY LegacyAssumption DEF Legacy!Safe, Legacy!Tables, Legacy!Assumed
  <2>3. Legacy!Rows(v3') /\ DOMAIN v3' = {"managers", "clients"}
    <3>1. CASE v3' = v3
      BY <2>2, <3>1 DEF Legacy!Safe, Legacy!Tables
    <3>2. CASE Legacy!ExportClients
      <4>1. Legacy!Limited(v1.clients) \subseteq v1.clients
        BY DEF Legacy!Limited
      <4>2. Legacy!IsFiniteSet(Legacy!Limited(v1.clients))
        BY <2>2, <4>1, FS_Subset, LegacyFinite DEF Legacy!Rows
      <4>3. /\ DOMAIN v3' = {"managers", "clients"} /\ v3'.managers = v3.managers
            /\ v3'.clients = Legacy!Limited(v1.clients)
        BY <3>2 DEF Legacy!ExportClients, Legacy!Safe, Legacy!Tables
      <4> QED BY <2>2, <4>1, <4>2, <4>3 DEF Legacy!Rows, Legacy!OneId
    <3>3. CASE Legacy!ExportManagers
      <4>1. DOMAIN v3' = {"managers", "clients"} /\ v3'.managers = v1.managers /\ v3'.clients = v3.clients
        BY <3>3 DEF Legacy!ExportManagers, Legacy!Safe, Legacy!Tables
      <4> QED BY <2>2, <4>1 DEF Legacy!Rows
    <3> QED BY <3>1, <3>2, <3>3 DEF Legacy!SourceChanges, Legacy!Start, Legacy!files
  <2> QED BY <1>1, <2>1, <2>3 DEF Legacy!Safe, Legacy!Tables
<1>4. Legacy!Accounts' /\ Legacy!SlugsUnique'
  BY <1>1 DEF Legacy!Safe, Legacy!Accounts, Legacy!SlugsUnique
<1>5. Legacy!Imported'
  BY <1>1, LegacyImportedSame DEF Legacy!Safe
<1>6. Legacy!Staged'
  BY <1>1, <1>2 DEF Legacy!Safe, Legacy!Staged, Legacy!Exporting
<1>7. Legacy!Checked'
  BY <1>1, <1>2 DEF Legacy!Safe, Legacy!Checked, Legacy!Writing
<1>8. Legacy!Written'
  BY <1>1, <1>2, LegacyRowsSame DEF Legacy!Safe, Legacy!Written, Legacy!Writing
<1> QED BY <1>3, <1>4, <1>5, <1>6, <1>7, <1>8 DEF Legacy!Safe

\* A user has one mail, so a mail has one row.
LEMMA LegacyOneMail ==
  ASSUME NEW auth, Legacy!UsersSound(auth), NEW rows, Legacy!UsersAre(rows, auth) PROVE Legacy!OnePerMail(rows)
<1> SUFFICES ASSUME NEW x \in rows, NEW y \in rows, x.mail = y.mail PROVE x = y
  BY DEF Legacy!OnePerMail
<1>1. Legacy!UserOf(x) \in auth /\ Legacy!UserOf(y) \in auth
  BY DEF Legacy!UsersAre
<1>2. Legacy!UserOf(x).mail = x.mail /\ Legacy!UserOf(y).mail = y.mail
  BY DEF Legacy!UserOf
<1>3. Legacy!UserOf(x) = Legacy!UserOf(y)
  BY <1>1, <1>2 DEF Legacy!UsersSound, Legacy!OnePerMail
<1>4. x.uid = y.uid
  BY <1>3 DEF Legacy!UserOf
<1> QED BY <1>4 DEF Legacy!UsersAre, Legacy!OnePerKey

\* A mail gets one user: the one of its row, the one that it has, or a new one.
LEMMA LegacyUser ==
  ASSUME Legacy!Accounts, NEW rows, Legacy!UsersAre(rows, v4.auth), NEW m
  PROVE  \E u : /\ Legacy!UserIds(rows, m) = {u}
                /\ u = Legacy!Minted(m) \/ [uid |-> u, mail |-> m] \in v4.auth
<1>1. Legacy!OnePerMail(rows) /\ Legacy!OnePerMail(v4.auth)
  BY LegacyOneMail DEF Legacy!Accounts, Legacy!UsersSound
<1>2. CASE Legacy!Named(rows, m) # {}
  <2>1. PICK x \in rows : x.mail = m
    BY <1>2 DEF Legacy!Named
  <2>2. Legacy!Named(rows, m) = {x.uid}
    BY <1>1, <2>1 DEF Legacy!Named, Legacy!OnePerMail
  <2> QED BY <1>2, <2>1, <2>2 DEF Legacy!UserIds, Legacy!UsersAre, Legacy!UserOf
<1>3. CASE Legacy!Named(rows, m) = {} /\ Legacy!Named(v4.auth, m) # {}
  <2>1. PICK x \in v4.auth : x.mail = m
    BY <1>3 DEF Legacy!Named
  <2>2. Legacy!Named(v4.auth, m) = {x.uid}
    BY <1>1, <2>1 DEF Legacy!Named, Legacy!OnePerMail
  <2>3. x = [uid |-> x.uid, mail |-> m]
    BY <2>1 DEF Legacy!Accounts, Legacy!UsersSound, Legacy!UserOf
  <2> QED BY <1>3, <2>1, <2>2, <2>3 DEF Legacy!UserIds
<1>4. CASE Legacy!Named(rows, m) = {} /\ Legacy!Named(v4.auth, m) = {}
  BY <1>4 DEF Legacy!UserIds
<1> QED BY <1>2, <1>3, <1>4

\* A mail keeps one row.
LEMMA LegacyKept ==
  ASSUME NEW of, Legacy!Rows(of)
  PROVE  /\ \A x, y \in Legacy!KeptManagers(of.managers) : x.mail = y.mail => x = y
         /\ \A x, y \in Legacy!KeptClients(of.clients) : x.mail = y.mail => x = y
         /\ Legacy!KeptManagers(of.managers) \subseteq of.managers /\ Legacy!KeptClients(of.clients) \subseteq of.clients
<1>1. ASSUME NEW x \in Legacy!KeptManagers(of.managers), NEW y \in Legacy!KeptManagers(of.managers), x.mail = y.mail
      PROVE  x = y
  <2>1. x.id = y.id
    BY <1>1 DEF Legacy!KeptManagers, Legacy!Rows
  <2> QED BY <2>1 DEF Legacy!KeptManagers, Legacy!Rows, Legacy!OneId
<1>2. ASSUME NEW x \in Legacy!KeptClients(of.clients), NEW y \in Legacy!KeptClients(of.clients), x.mail = y.mail
      PROVE  x = y
  <2>1. x.id = y.id
    BY <1>2 DEF Legacy!KeptClients, Legacy!Rows
  <2> QED BY <2>1 DEF Legacy!KeptClients, Legacy!Rows, Legacy!OneId
<1> QED BY <1>1, <1>2 DEF Legacy!KeptManagers, Legacy!KeptClients

\* A user signs up.
LEMMA LegacySignUp == ASSUME Legacy!Safe, NEW m \in LegacyMail, Legacy!SignUp(m) PROVE Legacy!Safe'
<1> DEFINE u == [uid |-> Legacy!SignedUp(m), mail |-> m]
<1>1. /\ UNCHANGED <<v1, v3, v6, v10, v11, v12>>
      /\ v4' = [v4 EXCEPT !.auth = @ \cup {u}] /\ m \notin {x.mail : x \in v4.auth \cup v11.auth}
  BY DEF Legacy!SignUp, Legacy!files
<1>2. /\ DOMAIN v4' = DOMAIN v4 /\ v4'.auth = v4.auth \cup {u} /\ v4'.spec = v4.spec /\ v4'.client = v4.client
      /\ v4'.result = v4.result
  BY <1>1 DEF Legacy!Safe, Legacy!Tables
<1>3. u = Legacy!UserOf(u) /\ u.mail = m /\ u.uid = Legacy!SignedUp(m)
  BY DEF Legacy!UserOf
<1> HIDE DEF u
<1>4. Legacy!UsersSound(v4.auth \cup {u})
  BY <1>1, <1>3 DEF Legacy!Safe, Legacy!Accounts, Legacy!UsersSound, Legacy!OnePerMail
<1>5. Legacy!Accounts' /\ Legacy!SlugsUnique'
  BY <1>2, <1>4 DEF Legacy!Safe, Legacy!Accounts, Legacy!UsersAre, Legacy!SlugsUnique
<1>6. Legacy!Staged'
  BY <1>1, <1>2 DEF Legacy!Safe, Legacy!Staged, Legacy!StagedOf
<1>7. Legacy!Checked' /\ Legacy!Tables' /\ Legacy!Imported'
  BY <1>1, <1>2, LegacyImportedSame DEF Legacy!Safe, Legacy!Checked, Legacy!Tables
<1>8. ASSUME v11.auth # {} PROVE Legacy!OnePerMail(Legacy!Upserted(v4.auth \cup {u}, v11.auth))
  <2>1. Legacy!OnePerMail(Legacy!Upserted(v4.auth, v11.auth))
    BY <1>8 DEF Legacy!Safe, Legacy!Written
  <2>2. /\ Legacy!Upserted(v4.auth \cup {u}, v11.auth) \subseteq Legacy!Upserted(v4.auth, v11.auth) \cup {u}
        /\ Legacy!Upserted(v4.auth, v11.auth) \subseteq v4.auth \cup v11.auth
    BY DEF Legacy!Upserted
  <2> QED BY <1>1, <1>3, <2>1, <2>2 DEF Legacy!OnePerMail
<1>9. Legacy!Written'
  BY <1>1, <1>2, <1>8, LegacyRowsSame DEF Legacy!Safe, Legacy!Written
<1> QED BY <1>5, <1>6, <1>7, <1>9 DEF Legacy!Safe

\* A user becomes a client.
LEMMA LegacyEnrol == ASSUME Legacy!Safe, NEW x \in v4.auth, Legacy!Enrol(x) PROVE Legacy!Safe'
<1> DEFINE r == [uid |-> x.uid, mail |-> x.mail, slug |-> LegacyNoSlug, spec |-> LegacyNobody]
<1>1. /\ UNCHANGED <<v1, v3, v6, v10, v11, v12>>
      /\ v4' = [v4 EXCEPT !.client = @ \cup {r}] /\ x.uid \notin {y.uid : y \in v4.client}
  BY DEF Legacy!Enrol, Legacy!files
<1>2. /\ DOMAIN v4' = DOMAIN v4 /\ v4'.auth = v4.auth /\ v4'.spec = v4.spec /\ v4'.client = v4.client \cup {r}
      /\ v4'.result = v4.result
  BY <1>1 DEF Legacy!Safe, Legacy!Tables
<1>3. r.uid = x.uid /\ r.slug = LegacyNoSlug /\ Legacy!UserOf(r) \in v4.auth
  <2>1. r.uid = x.uid /\ r.slug = LegacyNoSlug /\ r.mail = x.mail
    OBVIOUS
  <2> HIDE DEF r
  <2> QED BY <2>1 DEF Legacy!Safe, Legacy!Accounts, Legacy!UsersSound, Legacy!UserOf
<1> HIDE DEF r
<1>4. Legacy!UsersAre(v4.client \cup {r}, v4.auth)
  BY <1>1, <1>3 DEF Legacy!Safe, Legacy!Accounts, Legacy!UsersAre, Legacy!OnePerKey
<1>5. Legacy!OneSlug(v4.client \cup {r})
  BY <1>3 DEF Legacy!Safe, Legacy!SlugsUnique, Legacy!OneSlug
<1>6. Legacy!Accounts' /\ Legacy!SlugsUnique'
  BY <1>2, <1>4, <1>5 DEF Legacy!Safe, Legacy!Accounts, Legacy!SlugsUnique
<1>7. Legacy!Staged' /\ Legacy!Tables' /\ Legacy!Imported'
  BY <1>1, <1>2, LegacyImportedSame DEF Legacy!Safe, Legacy!Staged, Legacy!Tables
<1>8. ASSUME v6 \in Legacy!Writing PROVE Legacy!FreeSlugs(v10.client, v4.client \cup {r})
  <2>1. Legacy!ClientsStaged(v10.client, v3.clients)
    BY <1>8 DEF Legacy!Safe, Legacy!Staged, Legacy!Writing, Legacy!Exporting
  <2>2. \A y \in v10.client : y.slug # LegacyNoSlug
    BY <2>1, LegacyKept DEF Legacy!ClientsStaged, Legacy!Safe, Legacy!Tables, Legacy!Rows
  <2> QED BY <1>3, <1>8, <2>2 DEF Legacy!Safe, Legacy!Checked, Legacy!FreeSlugs
<1>9. Legacy!Checked'
  BY <1>1, <1>2, <1>8 DEF Legacy!Safe, Legacy!Checked
<1>10. Legacy!Written'
  BY <1>1, <1>2, LegacyRowsSame DEF Legacy!Safe, Legacy!Written
<1> QED BY <1>6, <1>7, <1>9, <1>10 DEF Legacy!Safe

\* The kept managers are staged, each with a user;
LEMMA LegacyStageManagers == ASSUME Legacy!Safe, Legacy!StageManagers PROVE Legacy!Safe'
<1> DEFINE K == Legacy!KeptManagers(v3.managers)
           R == UNION {{[uid |-> u, mail |-> x.mail, slug |-> x.id] : u \in Legacy!UserIds(v4.spec, x.mail)} : x \in K}
<1>1. /\ UNCHANGED <<v1, v3, v4, v11, v12>> /\ v6 = "stage managers" /\ v6' = "stage clients"
      /\ v10' = [v10 EXCEPT !.spec = R]
  BY DEF Legacy!StageManagers
<1>2. DOMAIN v10' = DOMAIN v10 /\ v10'.spec = R /\ v10'.client = v10.client
  BY <1>1 DEF Legacy!Safe, Legacy!Tables
<1>3. /\ \A x, y \in K : x.mail = y.mail => x = y
      /\ \A x \in K : x.mail \in LegacyMail
  BY LegacyKept DEF Legacy!Safe, Legacy!Tables, Legacy!Rows
<1>4. \A x \in K : \E u : /\ Legacy!UserIds(v4.spec, x.mail) = {u}
                          /\ u = Legacy!Minted(x.mail) \/ [uid |-> u, mail |-> x.mail] \in v4.auth
  BY LegacyUser DEF Legacy!Safe, Legacy!Accounts
<1>5. ASSUME NEW r \in R
      PROVE  \E x \in K : /\ r.mail = x.mail /\ r.slug = x.id /\ Legacy!StagedOf(r, v4.auth)
                          /\ r = [uid |-> r.uid, mail |-> x.mail, slug |-> x.id]
                          /\ Legacy!UserIds(v4.spec, x.mail) = {r.uid}
  <2>1. PICK x \in K : \E u \in Legacy!UserIds(v4.spec, x.mail) : r = [uid |-> u, mail |-> x.mail, slug |-> x.id]
    OBVIOUS
  <2>2. PICK u \in Legacy!UserIds(v4.spec, x.mail) : r = [uid |-> u, mail |-> x.mail, slug |-> x.id]
    BY <2>1
  <2>3. r.uid = u /\ r.mail = x.mail /\ r.slug = x.id /\ Legacy!UserOf(r) = [uid |-> u, mail |-> x.mail]
    BY <2>2 DEF Legacy!UserOf
  <2> HIDE DEF K
  <2> QED BY <1>3, <1>4, <2>2, <2>3 DEF Legacy!StagedOf
<1>6. ASSUME NEW x \in K PROVE \E r \in R : r.mail = x.mail /\ r.slug = x.id
  <2>1. PICK u \in Legacy!UserIds(v4.spec, x.mail) : TRUE
    BY <1>4
  <2>2. [uid |-> u, mail |-> x.mail, slug |-> x.id] \in R
    <3>1. [uid |-> u, mail |-> x.mail, slug |-> x.id] \in {[uid |-> v, mail |-> x.mail, slug |-> x.id] :
                         v \in Legacy!UserIds(v4.spec, x.mail)}
      BY <2>1
    <3> HIDE DEF K
    <3> QED BY <3>1
  <2> HIDE DEF R, K
  <2> QED BY <2>2
<1> HIDE DEF R
<1>7. Legacy!OnePerMail(R)
  <2> SUFFICES ASSUME NEW r \in R, NEW t \in R, r.mail = t.mail PROVE r = t
    BY DEF Legacy!OnePerMail
  <2>1. PICK x \in K : /\ r.mail = x.mail /\ r = [uid |-> r.uid, mail |-> x.mail, slug |-> x.id]
                       /\ Legacy!UserIds(v4.spec, x.mail) = {r.uid}
    BY <1>5
  <2>2. PICK y \in K : /\ t.mail = y.mail /\ t = [uid |-> t.uid, mail |-> y.mail, slug |-> y.id]
                       /\ Legacy!UserIds(v4.spec, y.mail) = {t.uid}
    BY <1>5
  <2>3. x = y
    BY <1>3, <2>1, <2>2
  <2>4. r.uid = t.uid
    BY <2>1, <2>2, <2>3
  <2> QED BY <2>1, <2>2, <2>3, <2>4
<1>8. Legacy!ManagersStaged(R, v3.managers)
  BY <1>5, <1>6, <1>7 DEF Legacy!ManagersStaged
<1>9. Legacy!Staged'
  BY <1>1, <1>2, <1>5, <1>8 DEF Legacy!Safe, Legacy!Staged, Legacy!Exporting
<1>10. Legacy!Tables' /\ Legacy!Accounts' /\ Legacy!SlugsUnique' /\ Legacy!Imported'
  BY <1>1, <1>2, LegacyImportedSame DEF Legacy!Safe, Legacy!Tables, Legacy!Accounts, Legacy!SlugsUnique
<1>11. Legacy!Checked' /\ Legacy!Written'
  BY <1>1 DEF Legacy!Safe, Legacy!Checked, Legacy!Written, Legacy!Writing
<1> QED BY <1>9, <1>10, <1>11 DEF Legacy!Safe

\* and so are the kept clients.
LEMMA LegacyStageClients == ASSUME Legacy!Safe, Legacy!StageClients PROVE Legacy!Safe'
<1> DEFINE K == Legacy!KeptClients(v3.clients)
           R == UNION {{[uid |-> u, mail |-> x.mail, slug |-> x.id, manager |-> x.manager] :
                          u \in Legacy!UserIds(v4.client, x.mail)} : x \in K}
<1>1. /\ UNCHANGED <<v1, v3, v4, v11, v12>> /\ v6 = "stage clients" /\ v6' = "slugs"
      /\ v10' = [v10 EXCEPT !.client = R]
  BY DEF Legacy!StageClients
<1>2. DOMAIN v10' = DOMAIN v10 /\ v10'.client = R /\ v10'.spec = v10.spec
  BY <1>1 DEF Legacy!Safe, Legacy!Tables
<1>3. /\ \A x, y \in K : x.mail = y.mail => x = y
      /\ \A x \in K : x.mail \in LegacyMail
  BY LegacyKept DEF Legacy!Safe, Legacy!Tables, Legacy!Rows
<1>4. \A x \in K : \E u : /\ Legacy!UserIds(v4.client, x.mail) = {u}
                          /\ u = Legacy!Minted(x.mail) \/ [uid |-> u, mail |-> x.mail] \in v4.auth
  BY LegacyUser DEF Legacy!Safe, Legacy!Accounts
<1>5. ASSUME NEW r \in R
      PROVE  \E x \in K : /\ r.mail = x.mail /\ r.slug = x.id /\ r.manager = x.manager /\ Legacy!StagedOf(r, v4.auth)
                          /\ r = [uid |-> r.uid, mail |-> x.mail, slug |-> x.id, manager |-> x.manager]
                          /\ Legacy!UserIds(v4.client, x.mail) = {r.uid}
  <2>1. PICK x \in K : \E u \in Legacy!UserIds(v4.client, x.mail) : r = [uid |-> u, mail |-> x.mail, slug |-> x.id, manager |-> x.manager]
    OBVIOUS
  <2>2. PICK u \in Legacy!UserIds(v4.client, x.mail) : r = [uid |-> u, mail |-> x.mail, slug |-> x.id, manager |-> x.manager]
    BY <2>1
  <2>3. /\ r.uid = u /\ r.mail = x.mail /\ r.slug = x.id /\ r.manager = x.manager
        /\ Legacy!UserOf(r) = [uid |-> u, mail |-> x.mail]
    BY <2>2 DEF Legacy!UserOf
  <2> HIDE DEF K
  <2> QED BY <1>3, <1>4, <2>2, <2>3 DEF Legacy!StagedOf
<1>6. ASSUME NEW x \in K PROVE \E r \in R : r.mail = x.mail /\ r.slug = x.id /\ r.manager = x.manager
  <2>1. PICK u \in Legacy!UserIds(v4.client, x.mail) : TRUE
    BY <1>4
  <2>2. [uid |-> u, mail |-> x.mail, slug |-> x.id, manager |-> x.manager] \in R
    <3>1. [uid |-> u, mail |-> x.mail, slug |-> x.id, manager |-> x.manager] \in {[uid |-> v, mail |-> x.mail, slug |-> x.id, manager |-> x.manager] :
                         v \in Legacy!UserIds(v4.client, x.mail)}
      BY <2>1
    <3> HIDE DEF K
    <3> QED BY <3>1
  <2> HIDE DEF R, K
  <2> QED BY <2>2
<1> HIDE DEF R
<1>7. Legacy!OnePerMail(R)
  <2> SUFFICES ASSUME NEW r \in R, NEW t \in R, r.mail = t.mail PROVE r = t
    BY DEF Legacy!OnePerMail
  <2>1. PICK x \in K : /\ r.mail = x.mail /\ r = [uid |-> r.uid, mail |-> x.mail, slug |-> x.id, manager |-> x.manager]
                       /\ Legacy!UserIds(v4.client, x.mail) = {r.uid}
    BY <1>5
  <2>2. PICK y \in K : /\ t.mail = y.mail /\ t = [uid |-> t.uid, mail |-> y.mail, slug |-> y.id, manager |-> y.manager]
                       /\ Legacy!UserIds(v4.client, y.mail) = {t.uid}
    BY <1>5
  <2>3. x = y
    BY <1>3, <2>1, <2>2
  <2>4. r.uid = t.uid
    BY <2>1, <2>2, <2>3
  <2> QED BY <2>1, <2>2, <2>3, <2>4
<1>8. Legacy!ClientsStaged(R, v3.clients)
  BY <1>5, <1>6, <1>7 DEF Legacy!ClientsStaged
<1>9. Legacy!Staged'
  BY <1>1, <1>2, <1>5, <1>8 DEF Legacy!Safe, Legacy!Staged, Legacy!Exporting
<1>10. Legacy!Tables' /\ Legacy!Accounts' /\ Legacy!SlugsUnique' /\ Legacy!Imported'
  BY <1>1, <1>2, LegacyImportedSame DEF Legacy!Safe, Legacy!Tables, Legacy!Accounts, Legacy!SlugsUnique
<1>11. Legacy!Checked' /\ Legacy!Written'
  BY <1>1 DEF Legacy!Safe, Legacy!Checked, Legacy!Written, Legacy!Writing
<1> QED BY <1>9, <1>10, <1>11 DEF Legacy!Safe

\* The slugs are compared and the rows are written.
LEMMA LegacyWrites ==
  ASSUME Legacy!Safe,
         \/ Legacy!CheckSlugs \/ Legacy!WriteUsers \/ Legacy!WriteSpecialists \/ Legacy!WriteClients \/ Legacy!WriteResults
  PROVE  Legacy!Safe'
<1>1. /\ UNCHANGED <<v1, v3, v4, v10, v12>> /\ v6 \notin Legacy!Exporting \cup {"stage clients"}
      /\ v6' \in Legacy!Writing
  BY DEF Legacy!CheckSlugs, Legacy!WriteUsers, Legacy!WriteSpecialists, Legacy!WriteClients, Legacy!WriteResults,
     Legacy!files, Legacy!Exporting, Legacy!Writing
<1>2. DOMAIN v11' = DOMAIN v11
  BY DEF Legacy!CheckSlugs, Legacy!WriteUsers, Legacy!WriteSpecialists, Legacy!WriteClients, Legacy!WriteResults,
     Legacy!files
<1>3. Legacy!Tables' /\ Legacy!Accounts' /\ Legacy!SlugsUnique' /\ Legacy!Imported'
  BY <1>1, <1>2, LegacyImportedSame DEF Legacy!Safe, Legacy!Tables, Legacy!Accounts, Legacy!SlugsUnique
<1>4. Legacy!Staged'
  BY <1>1 DEF Legacy!Safe, Legacy!Staged, Legacy!Exporting, Legacy!Writing
<1>5. Legacy!Checked'
  <2>1. CASE Legacy!CheckSlugs
    BY <1>1, <2>1 DEF Legacy!CheckSlugs, Legacy!Checked, Legacy!FreeSlugs
  <2>2. CASE ~Legacy!CheckSlugs
    <3>1. v6 \in Legacy!Writing
      BY <2>2 DEF Legacy!WriteUsers, Legacy!WriteSpecialists, Legacy!WriteClients, Legacy!WriteResults, Legacy!Writing
    <3> QED BY <1>1, <3>1 DEF Legacy!Safe, Legacy!Checked
  <2> QED BY <2>1, <2>2
<1>6. Legacy!StagedUsers' = Legacy!StagedUsers /\ Legacy!Clients' = Legacy!Clients
      /\ Legacy!StagedResults' = Legacy!StagedResults
  BY <1>1, LegacyRowsSame
<1>7. DOMAIN v11 = {"auth", "spec", "client", "result"}
  BY DEF Legacy!Safe, Legacy!Tables
<1>8. Legacy!Written'
  <2>1. CASE Legacy!CheckSlugs
    BY <1>1, <1>6, <2>1 DEF Legacy!CheckSlugs, Legacy!files, Legacy!Safe, Legacy!Written, Legacy!Writing
  <2>2. CASE Legacy!WriteUsers
    <3>1. v11'.auth = Legacy!StagedUsers /\ v11'.spec = v11.spec /\ v11'.client = v11.client /\ v6' = "specialists"
          /\ v6 = "users" /\ Legacy!OnePerMail(Legacy!Upserted(v4.auth, Legacy!StagedUsers))
      BY <1>7, <2>2 DEF Legacy!WriteUsers, Legacy!UsersFit
    <3> QED BY <1>1, <1>6, <3>1 DEF Legacy!Safe, Legacy!Written, Legacy!Writing
  <2>3. CASE Legacy!WriteSpecialists
    <3>1. v11'.auth = v11.auth /\ v11'.spec = v10.spec /\ v11'.client = v11.client /\ v6' = "write clients"
          /\ v6 = "specialists"
      BY <1>7, <2>3 DEF Legacy!WriteSpecialists
    <3> QED BY <1>1, <1>6, <3>1 DEF Legacy!Safe, Legacy!Written, Legacy!Writing
  <2>4. CASE Legacy!WriteClients
    <3>1. v11'.auth = v11.auth /\ v11'.spec = v11.spec /\ v11'.client = Legacy!Clients /\ v6' = "results"
          /\ v6 = "write clients"
      BY <1>7, <2>4 DEF Legacy!WriteClients, Legacy!Clients
    <3> QED BY <1>1, <1>6, <3>1 DEF Legacy!Safe, Legacy!Written, Legacy!Writing
  <2>5. CASE Legacy!WriteResults
    <3>1. v11'.auth = v11.auth /\ v11'.spec = v11.spec /\ v11'.client = v11.client /\ v6' = "finish"
          /\ v6 = "results" /\ v11'.result = Legacy!StagedResults
      BY <1>7, <2>5 DEF Legacy!WriteResults
    <3> QED BY <1>1, <1>6, <3>1 DEF Legacy!Safe, Legacy!Written, Legacy!Writing
  <2> QED BY <2>1, <2>2, <2>3, <2>4, <2>5
<1> QED BY <1>3, <1>4, <1>5, <1>8 DEF Legacy!Safe

\* A strict order of a finite set has a last element.
LEMMA StrictOrderEnds ==
  ASSUME NEW S, IsFiniteSet(S), S # {}, NEW Less,
         \A x \in S : <<x, x>> \notin Less,
         \A x, y, z \in S : <<x, y>> \in Less /\ <<y, z>> \in Less => <<x, z>> \in Less
  PROVE  \E x \in S : \A y \in S : <<x, y>> \notin Less
<1> DEFINE Above(x) == {y \in S : <<x, y>> \in Less}
           N == {Cardinality(Above(x)) : x \in S}
<1>1. \A x \in S : IsFiniteSet(Above(x)) /\ Cardinality(Above(x)) \in Nat
  BY FS_Subset, FS_CardinalityType
<1>2. N \in SUBSET Nat /\ N # {}
  <2> HIDE DEF Above
  <2> QED BY <1>1
<1>3. PICK n \in N : \A m \in N : n <= m
  <2> HIDE DEF N
  <2> QED BY <1>2, Smallest
<1>4. PICK x \in S : n = Cardinality(Above(x))
  OBVIOUS
<1>5. ASSUME NEW y \in S, <<x, y>> \in Less PROVE FALSE
  <2>1. Above(y) \subseteq Above(x) /\ y \in Above(x) /\ y \notin Above(y)
    BY <1>5
  <2> HIDE DEF Above
  <2>2. Cardinality(Above(y)) \in N
    OBVIOUS
  <2> HIDE DEF N
  <2>3. Cardinality(Above(y)) <= Cardinality(Above(x)) /\ Cardinality(Above(y)) # Cardinality(Above(x))
    BY <1>1, <2>1, FS_Subset
  <2> QED BY <1>1, <1>3, <1>4, <2>2, <2>3
<1> QED BY <1>5

\* The kept manager of a mail is there, and so is the kept client.
LEMMA LegacyKeeps ==
  ASSUME NEW of, Legacy!Rows(of)
  PROVE  /\ \A y \in of.managers : \E k \in Legacy!KeptManagers(of.managers) : k.mail = y.mail
         /\ \A y \in of.clients : \E k \in Legacy!KeptClients(of.clients) : k.mail = y.mail /\ k.date >= y.date
<1>1. ASSUME NEW y \in of.managers PROVE \E k \in Legacy!KeptManagers(of.managers) : k.mail = y.mail
  <2> DEFINE S == {x \in of.managers : x.mail = y.mail}
             Less == {p \in S \X S : p[1].id < p[2].id}
  <2>1. IsFiniteSet(S) /\ S # {} /\ \A x \in S : x.id \in Nat
    BY FS_Subset, LegacyFinite DEF Legacy!Rows
  <2>2. /\ \A x \in S : <<x, x>> \notin Less
        /\ \A x, w, z \in S : <<x, w>> \in Less /\ <<w, z>> \in Less => <<x, z>> \in Less
        /\ \A x, w \in S : <<x, w>> \notin Less => w.id <= x.id
    <3>1. \A x, w \in S : <<x, w>> \in Less <=> x.id < w.id
      OBVIOUS
    <3> HIDE DEF S, Less
    <3> QED BY <2>1, <3>1
  <2>3. PICK k \in S : \A x \in S : <<k, x>> \notin Less
    <3> HIDE DEF S, Less
    <3> QED BY <2>1, <2>2, StrictOrderEnds
  <2>4. \A x \in S : x.id <= k.id
    BY <2>2, <2>3
  <2> QED BY <2>4 DEF Legacy!KeptManagers
<1>2. ASSUME NEW y \in of.clients PROVE \E k \in Legacy!KeptClients(of.clients) : k.mail = y.mail /\ k.date >= y.date
  <2> DEFINE S == {x \in of.clients : x.mail = y.mail}
             Less == {p \in S \X S : p[1].date < p[2].date \/ (p[1].date = p[2].date /\ p[1].id < p[2].id)}
  <2>1. IsFiniteSet(S) /\ S # {} /\ \A x \in S : x.id \in Nat /\ x.date \in Nat
    BY FS_Subset, LegacyFinite DEF Legacy!Rows
  <2>2. /\ \A x \in S : <<x, x>> \notin Less
        /\ \A x, w, z \in S : <<x, w>> \in Less /\ <<w, z>> \in Less => <<x, z>> \in Less
        /\ \A x, w \in S : <<x, w>> \notin Less => w.date < x.date \/ (w.date = x.date /\ w.id <= x.id)
    <3>1. \A x, w \in S : <<x, w>> \in Less <=> x.date < w.date \/ (x.date = w.date /\ x.id < w.id)
      OBVIOUS
    <3> HIDE DEF S, Less
    <3> QED BY <2>1, <3>1
  <2>3. PICK k \in S : \A x \in S : <<k, x>> \notin Less
    <3> HIDE DEF S, Less
    <3> QED BY <2>1, <2>2, StrictOrderEnds
  <2>4. \A x \in S : x.date < k.date \/ (x.date = k.date /\ x.id <= k.id)
    BY <2>2, <2>3
  <2>5. k \in Legacy!KeptClients(of.clients)
    BY <2>4 DEF Legacy!KeptClients
  <2>6. k.date >= y.date
    BY <2>1, <2>4
  <2> QED BY <2>5, <2>6
<1> QED BY <1>1, <1>2

\* Rows that are written over those of the same users.
LEMMA LegacyUpsert ==
  ASSUME NEW A, NEW N, Legacy!UsersSound(A), Legacy!UsersSound(Legacy!Upserted(A, N)),
         NEW O, Legacy!UsersAre(O, A), Legacy!OneSlug(O),
         NEW R, Legacy!OnePerMail(R), Legacy!OneSlug(R), \A r \in R : Legacy!UserOf(r) \in N, Legacy!FreeSlugs(R, O)
  PROVE  /\ Legacy!UsersAre(Legacy!Upserted(O, R), Legacy!Upserted(A, N))
         /\ Legacy!OneSlug(Legacy!Upserted(O, R))
<1> DEFINE B == Legacy!Upserted(A, N)
           P == Legacy!Upserted(O, R)
<1>1. N \subseteq B /\ R \subseteq P /\ P \subseteq O \cup R /\ \A x \in P \ R : x \in O /\ \A r \in R : r.uid # x.uid
  BY DEF Legacy!Upserted
<1>2. \A x, y \in A \cup B : x.uid = y.uid => x = y
  <2>1. \A x \in A \cup B : x = Legacy!UserOf(x) /\ x.uid \in {Legacy!Minted(x.mail), Legacy!SignedUp(x.mail)}
    BY DEF Legacy!UsersSound
  <2>2. \A x, y \in A \cup B : x.uid = y.uid => x.mail = y.mail
    BY <2>1 DEF Legacy!Minted, Legacy!SignedUp
  <2> HIDE DEF B
  <2> QED BY <2>1, <2>2 DEF Legacy!UserOf
<1>3. ASSUME NEW x \in P PROVE Legacy!UserOf(x) \in B
  <2>1. CASE x \in R
    BY <1>1, <2>1
  <2>2. CASE x \notin R
    <3>1. Legacy!UserOf(x) \in A
      BY <1>1, <2>2 DEF Legacy!UsersAre
    <3>2. CASE \E n \in N : n.uid = Legacy!UserOf(x).uid
      BY <1>1, <1>2, <3>1, <3>2
    <3>3. CASE ~ \E n \in N : n.uid = Legacy!UserOf(x).uid
      BY <3>1, <3>3 DEF Legacy!Upserted
    <3> QED BY <3>2, <3>3
  <2> QED BY <2>1, <2>2
<1>4. \A x \in P : Legacy!UserOf(x).uid = x.uid /\ Legacy!UserOf(x).mail = x.mail
  BY DEF Legacy!UserOf
<1> HIDE DEF B, P
<1>5. Legacy!OnePerKey(P)
  <2> SUFFICES ASSUME NEW x \in P, NEW y \in P, x.uid = y.uid PROVE x = y
    BY DEF Legacy!OnePerKey
  <2>1. CASE x \in R /\ y \in R
    <3>1. x.mail = y.mail
      <4>1. Legacy!UserOf(x) = Legacy!UserOf(y)
        BY <1>2, <1>3, <1>4
      <4> QED BY <1>4, <4>1
    <3> QED BY <2>1, <3>1 DEF Legacy!OnePerMail
  <2>2. CASE x \notin R \/ y \notin R
    BY <1>1, <2>2 DEF Legacy!UsersAre, Legacy!OnePerKey
  <2> QED BY <2>1, <2>2
<1>6. Legacy!UsersAre(P, B)
  BY <1>3, <1>5 DEF Legacy!UsersAre
<1>7. Legacy!OneSlug(P)
  <2>1. Legacy!OnePerMail(P)
    BY <1>6, LegacyOneMail DEF B
  <2> SUFFICES ASSUME NEW x \in P, NEW y \in P, x.slug = y.slug, x.slug # LegacyNoSlug PROVE x = y
    BY DEF Legacy!OneSlug
  <2>2. CASE x \in R /\ y \in R
    BY <2>2 DEF Legacy!OneSlug
  <2>3. CASE x \notin R /\ y \notin R
    BY <1>1, <2>3 DEF Legacy!OneSlug
  <2>4. CASE ~(x \in R <=> y \in R)
    <3>1. x.mail = y.mail
      BY <1>1, <2>4 DEF Legacy!FreeSlugs
    <3> QED BY <2>1, <3>1 DEF Legacy!OnePerMail
  <2> QED BY <2>2, <2>3, <2>4
<1> QED BY <1>6, <1>7 DEF B, P

\* What is staged is of sound users;
LEMMA LegacySoundUsers ==
  ASSUME Legacy!Safe, v6 \in Legacy!Writing \ {"users"}
  PROVE  /\ Legacy!UsersSound(Legacy!Upserted(v4.auth, Legacy!StagedUsers))
         /\ \A x \in v10.spec \cup v10.client : Legacy!UserOf(x) \in Legacy!StagedUsers
<1>1. \A x \in v10.spec \cup v10.client :
        Legacy!UserOf(x) \in Legacy!StagedUsers /\ x.mail \in LegacyMail
          /\ x.uid \in {Legacy!Minted(x.mail), Legacy!SignedUp(x.mail)}
  <2> SUFFICES ASSUME NEW x \in v10.spec \cup v10.client
               PROVE  Legacy!UserOf(x) \in Legacy!StagedUsers /\ x.mail \in LegacyMail
                        /\ x.uid \in {Legacy!Minted(x.mail), Legacy!SignedUp(x.mail)}
    OBVIOUS
  <2>1. Legacy!StagedOf(x, v4.auth)
    BY DEF Legacy!Safe, Legacy!Staged
  <2>2. Legacy!UserOf(x).uid = x.uid /\ Legacy!UserOf(x).mail = x.mail
    BY DEF Legacy!UserOf
  <2>3. Legacy!UserOf(x) \in Legacy!StagedUsers
    BY DEF Legacy!StagedUsers, Legacy!UserOf
  <2> QED BY <2>1, <2>2, <2>3 DEF Legacy!StagedOf, Legacy!Safe, Legacy!Accounts, Legacy!UsersSound
<1>2. \A n \in Legacy!StagedUsers : n = Legacy!UserOf(n) /\ n.mail \in LegacyMail
                                    /\ n.uid \in {Legacy!Minted(n.mail), Legacy!SignedUp(n.mail)}
  <2> SUFFICES ASSUME NEW n \in Legacy!StagedUsers
               PROVE  n = Legacy!UserOf(n) /\ n.mail \in LegacyMail
                        /\ n.uid \in {Legacy!Minted(n.mail), Legacy!SignedUp(n.mail)}
    OBVIOUS
  <2>1. PICK x \in v10.spec \cup v10.client : n = [uid |-> x.uid, mail |-> x.mail]
    BY DEF Legacy!StagedUsers
  <2>2. n.uid = x.uid /\ n.mail = x.mail
    BY <2>1
  <2> QED BY <1>1, <2>1, <2>2 DEF Legacy!UserOf
<1>3. Legacy!OnePerMail(Legacy!Upserted(v4.auth, Legacy!StagedUsers))
  <2>1. v11.auth = Legacy!StagedUsers
    BY DEF Legacy!Safe, Legacy!Written
  <2>2. CASE Legacy!StagedUsers = {}
    BY <2>2 DEF Legacy!Safe, Legacy!Accounts, Legacy!UsersSound, Legacy!Upserted
  <2>3. CASE Legacy!StagedUsers # {}
    BY <2>1, <2>3 DEF Legacy!Safe, Legacy!Written
  <2> QED BY <2>2, <2>3
<1>4. Legacy!Upserted(v4.auth, Legacy!StagedUsers) \subseteq v4.auth \cup Legacy!StagedUsers
  BY DEF Legacy!Upserted
<1>5. \A n \in v4.auth : n = Legacy!UserOf(n) /\ n.mail \in LegacyMail
                      /\ n.uid \in {Legacy!Minted(n.mail), Legacy!SignedUp(n.mail)}
  BY DEF Legacy!Safe, Legacy!Accounts, Legacy!UsersSound
<1>6. Legacy!UsersSound(Legacy!Upserted(v4.auth, Legacy!StagedUsers))
  BY <1>2, <1>3, <1>4, <1>5 DEF Legacy!UsersSound
<1> QED BY <1>1, <1>6

\* a manager became one specialist, or nobody,
LEMMA LegacySpecialists ==
  ASSUME Legacy!Safe, v6 \notin Legacy!Exporting, NEW i
  PROVE  \E u : Legacy!SpecialistIds(i) = {u}
<1> DEFINE found == {x.uid : x \in {x \in v10.spec : x.slug = i}}
<1>1. Legacy!ManagersStaged(v10.spec, v3.managers)
  BY DEF Legacy!Safe, Legacy!Staged
<1>2. \A x, y \in v10.spec : x.slug = i /\ y.slug = i => x = y
  <2> SUFFICES ASSUME NEW x \in v10.spec, NEW y \in v10.spec, x.slug = i, y.slug = i PROVE x = y
    OBVIOUS
  <2>1. PICK k \in Legacy!KeptManagers(v3.managers) : x.mail = k.mail /\ x.slug = k.id
    BY <1>1 DEF Legacy!ManagersStaged
  <2>2. PICK l \in Legacy!KeptManagers(v3.managers) : y.mail = l.mail /\ y.slug = l.id
    BY <1>1 DEF Legacy!ManagersStaged
  <2>3. k = l
    BY <2>1, <2>2 DEF Legacy!Safe, Legacy!Tables, Legacy!Rows, Legacy!OneId, Legacy!KeptManagers
  <2> QED BY <1>1, <2>1, <2>2, <2>3 DEF Legacy!ManagersStaged, Legacy!OnePerMail
<1>3. CASE found = {}
  BY <1>3 DEF Legacy!SpecialistIds
<1>4. CASE found # {}
  <2>1. PICK x \in v10.spec : x.slug = i
    BY <1>4
  <2>2. found = {x.uid}
    BY <1>2, <2>1
  <2> QED BY <1>4, <2>2 DEF Legacy!SpecialistIds
<1> QED BY <1>3, <1>4

\* which is what the target says once they are written;
LEMMA LegacyBecame ==
  ASSUME Legacy!Safe, v6 \notin Legacy!Exporting, NEW P, v10.spec \subseteq P, Legacy!OnePerMail(P),
         NEW i, NEW u \in Legacy!SpecialistIds(i)
  PROVE  Legacy!HasSpecialist(u, i, v3.managers, P)
<1> DEFINE found == {x.uid : x \in {x \in v10.spec : x.slug = i}}
           K == Legacy!KeptManagers(v3.managers)
<1>1. /\ \A x \in v10.spec : \E k \in K : x.mail = k.mail /\ x.slug = k.id
      /\ \A k \in K : \E x \in v10.spec : x.mail = k.mail /\ x.slug = k.id
  BY DEF Legacy!Safe, Legacy!Staged, Legacy!ManagersStaged
<1>2. CASE found = {}
  <2>1. u = LegacyNobody /\ \A x \in v10.spec : x.slug # i
    BY <1>2 DEF Legacy!SpecialistIds
  <2>2. \A k \in K : k.id # i
    BY <1>1, <2>1
  <2>3. Legacy!Became(i, v3.managers, P) = {}
    BY <2>2 DEF Legacy!Became
  <2> QED BY <2>1, <2>3 DEF Legacy!HasSpecialist
<1>3. CASE found # {}
  <2>1. PICK x \in v10.spec : x.slug = i /\ u = x.uid
    BY <1>3 DEF Legacy!SpecialistIds
  <2>2. PICK k \in K : x.mail = k.mail /\ k.id = i
    BY <1>1, <2>1
  <2>3. u \in Legacy!Became(i, v3.managers, P)
    BY <2>1, <2>2 DEF Legacy!Became
  <2> QED BY <2>3 DEF Legacy!HasSpecialist
<1> QED BY <1>2, <1>3

\* and a client is written as it is staged.
LEMMA LegacyClients ==
  ASSUME Legacy!Safe, v6 \in Legacy!Writing \ {"users"}
  PROVE  /\ \A r \in Legacy!Clients : \E x \in v10.client :
              /\ r = [uid |-> x.uid, mail |-> x.mail, slug |-> x.slug, spec |-> r.spec]
              /\ r.uid = x.uid /\ r.mail = x.mail /\ r.slug = x.slug /\ r.spec \in Legacy!SpecialistIds(x.manager)
         /\ \A x \in v10.client : \E r \in Legacy!Clients :
              r.uid = x.uid /\ r.mail = x.mail /\ r.slug = x.slug /\ r.spec \in Legacy!SpecialistIds(x.manager)
         /\ Legacy!OnePerMail(Legacy!Clients)
<1>1. ASSUME NEW r \in Legacy!Clients
      PROVE  \E x \in v10.client :
              /\ r = [uid |-> x.uid, mail |-> x.mail, slug |-> x.slug, spec |-> r.spec]
              /\ r.uid = x.uid /\ r.mail = x.mail /\ r.slug = x.slug /\ r.spec \in Legacy!SpecialistIds(x.manager)
  <2>1. PICK x \in v10.client : \E s \in Legacy!SpecialistIds(x.manager) :
                                  r = [uid |-> x.uid, mail |-> x.mail, slug |-> x.slug, spec |-> s]
    BY DEF Legacy!Clients
  <2>2. PICK s \in Legacy!SpecialistIds(x.manager) : r = [uid |-> x.uid, mail |-> x.mail, slug |-> x.slug, spec |-> s]
    BY <2>1
  <2>3. r.uid = x.uid /\ r.mail = x.mail /\ r.slug = x.slug /\ r.spec = s
    BY <2>2
  <2> QED BY <2>2, <2>3
<1>2. ASSUME NEW x \in v10.client
      PROVE  \E r \in Legacy!Clients :
               r.uid = x.uid /\ r.mail = x.mail /\ r.slug = x.slug /\ r.spec \in Legacy!SpecialistIds(x.manager)
  <2>1. v6 \notin Legacy!Exporting
    BY DEF Legacy!Exporting, Legacy!Writing
  <2>2. PICK s : Legacy!SpecialistIds(x.manager) = {s}
    BY <2>1, LegacySpecialists
  <2> DEFINE r == [uid |-> x.uid, mail |-> x.mail, slug |-> x.slug, spec |-> s]
  <2>3. r \in Legacy!Clients
    <3>1. r \in {[uid |-> x.uid, mail |-> x.mail, slug |-> x.slug, spec |-> t] : t \in Legacy!SpecialistIds(x.manager)}
      BY <2>2
    <3> HIDE DEF r
    <3> QED BY <3>1 DEF Legacy!Clients
  <2>4. r.uid = x.uid /\ r.mail = x.mail /\ r.slug = x.slug /\ r.spec = s
    OBVIOUS
  <2> HIDE DEF r
  <2> QED BY <2>2, <2>3, <2>4
<1>3. Legacy!OnePerMail(Legacy!Clients)
  <2> SUFFICES ASSUME NEW r \in Legacy!Clients, NEW t \in Legacy!Clients, r.mail = t.mail PROVE r = t
    BY DEF Legacy!OnePerMail
  <2>1. PICK x \in v10.client :
          /\ r = [uid |-> x.uid, mail |-> x.mail, slug |-> x.slug, spec |-> r.spec]
          /\ r.mail = x.mail /\ r.spec \in Legacy!SpecialistIds(x.manager)
    BY <1>1
  <2>2. PICK y \in v10.client :
          /\ t = [uid |-> y.uid, mail |-> y.mail, slug |-> y.slug, spec |-> t.spec]
          /\ t.mail = y.mail /\ t.spec \in Legacy!SpecialistIds(y.manager)
    BY <1>1
  <2>3. v6 \notin Legacy!Exporting \cup {"stage clients"}
    BY DEF Legacy!Exporting, Legacy!Writing
  <2>4. x = y
    BY <2>1, <2>2, <2>3 DEF Legacy!Safe, Legacy!Staged, Legacy!ClientsStaged, Legacy!OnePerMail
  <2>5. PICK s : Legacy!SpecialistIds(x.manager) = {s}
    BY <2>3, LegacySpecialists
  <2>6. r.spec = t.spec
    BY <2>1, <2>2, <2>4, <2>5
  <2> QED BY <2>1, <2>2, <2>4, <2>6
<1> QED BY <1>1, <1>2, <1>3

\* The slugs are those of rows, and free.
LEMMA LegacySlugs ==
  ASSUME Legacy!Safe, v6 \in Legacy!Writing \ {"users"}
  PROVE  /\ Legacy!OneSlug(v10.spec) /\ Legacy!OneSlug(Legacy!Clients)
         /\ Legacy!FreeSlugs(v10.spec, v4.spec) /\ Legacy!FreeSlugs(Legacy!Clients, v4.client)
         /\ Legacy!OnePerKey(v10.spec) /\ Legacy!OnePerKey(v10.client)
         /\ \A r \in Legacy!Clients : Legacy!UserOf(r) \in Legacy!StagedUsers
<1>1. Legacy!ManagersStaged(v10.spec, v3.managers) /\ Legacy!ClientsStaged(v10.client, v3.clients)
  BY DEF Legacy!Safe, Legacy!Staged, Legacy!Writing, Legacy!Exporting
<1>2. \A x, y \in v10.spec : x.slug = y.slug => x = y
  <2> SUFFICES ASSUME NEW x \in v10.spec, NEW y \in v10.spec, x.slug = y.slug PROVE x = y
    OBVIOUS
  <2>1. PICK k \in Legacy!KeptManagers(v3.managers) : x.mail = k.mail /\ x.slug = k.id
    BY <1>1 DEF Legacy!ManagersStaged
  <2>2. PICK l \in Legacy!KeptManagers(v3.managers) : y.mail = l.mail /\ y.slug = l.id
    BY <1>1 DEF Legacy!ManagersStaged
  <2>3. k = l
    BY <2>1, <2>2 DEF Legacy!Safe, Legacy!Tables, Legacy!Rows, Legacy!OneId, Legacy!KeptManagers
  <2> QED BY <1>1, <2>1, <2>2, <2>3 DEF Legacy!ManagersStaged, Legacy!OnePerMail
<1>3. \A x, y \in v10.client : x.slug = y.slug => x = y
  <2> SUFFICES ASSUME NEW x \in v10.client, NEW y \in v10.client, x.slug = y.slug PROVE x = y
    OBVIOUS
  <2>1. PICK k \in Legacy!KeptClients(v3.clients) : x.mail = k.mail /\ x.slug = k.id /\ x.manager = k.manager
    BY <1>1 DEF Legacy!ClientsStaged
  <2>2. PICK l \in Legacy!KeptClients(v3.clients) : y.mail = l.mail /\ y.slug = l.id /\ y.manager = l.manager
    BY <1>1 DEF Legacy!ClientsStaged
  <2>3. k = l
    BY <2>1, <2>2 DEF Legacy!Safe, Legacy!Tables, Legacy!Rows, Legacy!OneId, Legacy!KeptClients
  <2> QED BY <1>1, <2>1, <2>2, <2>3 DEF Legacy!ClientsStaged, Legacy!OnePerMail
<1>4. /\ \A r \in Legacy!Clients : \E x \in v10.client : r.uid = x.uid /\ r.mail = x.mail /\ r.slug = x.slug
      /\ Legacy!OnePerMail(Legacy!Clients)
  BY LegacyClients
<1>5. Legacy!OneSlug(v10.spec) /\ Legacy!OneSlug(Legacy!Clients)
  BY <1>2, <1>3, <1>4 DEF Legacy!OneSlug, Legacy!OnePerMail
<1>6. Legacy!FreeSlugs(v10.spec, v4.spec) /\ Legacy!FreeSlugs(Legacy!Clients, v4.client)
  BY <1>4 DEF Legacy!Safe, Legacy!Checked, Legacy!FreeSlugs
<1>7. \A x, y \in v10.spec \cup v10.client : x.uid = y.uid => x.mail = y.mail
  <2>1. Legacy!UsersSound(Legacy!Upserted(v4.auth, Legacy!StagedUsers))
    BY LegacySoundUsers
  <2> SUFFICES ASSUME NEW x \in v10.spec \cup v10.client, NEW y \in v10.spec \cup v10.client, x.uid = y.uid
               PROVE  x.mail = y.mail
    OBVIOUS
  <2>2. /\ Legacy!UserOf(x) \in Legacy!Upserted(v4.auth, Legacy!StagedUsers)
        /\ Legacy!UserOf(y) \in Legacy!Upserted(v4.auth, Legacy!StagedUsers)
    BY LegacySoundUsers DEF Legacy!Upserted
  <2>3. /\ Legacy!UserOf(x).uid = x.uid /\ Legacy!UserOf(x).mail = x.mail
        /\ Legacy!UserOf(y).uid = y.uid /\ Legacy!UserOf(y).mail = y.mail
    BY DEF Legacy!UserOf
  <2> QED BY <2>1, <2>2, <2>3 DEF Legacy!UsersSound, Legacy!Minted, Legacy!SignedUp
<1>8. Legacy!OnePerKey(v10.spec) /\ Legacy!OnePerKey(v10.client)
  BY <1>1, <1>7 DEF Legacy!OnePerKey, Legacy!OnePerMail, Legacy!ManagersStaged, Legacy!ClientsStaged
<1>9. \A r \in Legacy!Clients : Legacy!UserOf(r) \in Legacy!StagedUsers
  BY <1>4, LegacySoundUsers DEF Legacy!UserOf
<1> QED BY <1>5, <1>6, <1>8, <1>9

\* After a commit the target holds what was exported.
LEMMA LegacyCommit ==
  ASSUME Legacy!Safe, v6 = "finish", Legacy!Commit
  PROVE  Legacy!Accounts' /\ Legacy!SlugsUnique' /\ Legacy!Imported' /\ DOMAIN v4' = DOMAIN v4
<1> DEFINE A == Legacy!Upserted(v4.auth, Legacy!StagedUsers)
           P == Legacy!Upserted(v4.spec, v10.spec)
           C == Legacy!Upserted(v4.client, Legacy!Clients)
           R == Legacy!Upserted(v4.result, Legacy!StagedResults)
<1>1. v6 \in Legacy!Writing \ {"users"} /\ v6 \notin Legacy!Exporting \cup {"stage clients"}
  BY DEF Legacy!Writing, Legacy!Exporting
<1>2. /\ v11.auth = Legacy!StagedUsers /\ v11.spec = v10.spec /\ v11.client = Legacy!Clients
      /\ v11.result = Legacy!StagedResults
  BY DEF Legacy!Safe, Legacy!Written, Legacy!Writing
<1>3. DOMAIN v4' = DOMAIN v4 /\ v4'.auth = A /\ v4'.spec = P /\ v4'.client = C /\ v4'.result = R /\ v12' = v3
  BY <1>2 DEF Legacy!Commit, Legacy!Safe, Legacy!Tables
<1>4. Legacy!UsersSound(v4.auth) /\ Legacy!UsersSound(A)
  BY <1>1, LegacySoundUsers DEF Legacy!Safe, Legacy!Accounts
<1>5. Legacy!UsersAre(P, A) /\ Legacy!OneSlug(P)
  <2>1. /\ Legacy!OneSlug(v10.spec) /\ Legacy!FreeSlugs(v10.spec, v4.spec)
        /\ \A r \in v10.spec : Legacy!UserOf(r) \in Legacy!StagedUsers
    BY <1>1, LegacySlugs, LegacySoundUsers
  <2>2. Legacy!OnePerMail(v10.spec)
    BY <1>1 DEF Legacy!Safe, Legacy!Staged, Legacy!ManagersStaged
  <2>3. Legacy!UsersAre(v4.spec, v4.auth) /\ Legacy!OneSlug(v4.spec)
    BY DEF Legacy!Safe, Legacy!Accounts, Legacy!SlugsUnique
  <2> QED BY <1>4, <2>1, <2>2, <2>3, LegacyUpsert
<1>6. Legacy!UsersAre(C, A) /\ Legacy!OneSlug(C)
  <2>1. /\ Legacy!OneSlug(Legacy!Clients) /\ Legacy!FreeSlugs(Legacy!Clients, v4.client)
        /\ \A r \in Legacy!Clients : Legacy!UserOf(r) \in Legacy!StagedUsers
    BY <1>1, LegacySlugs
  <2>2. Legacy!OnePerMail(Legacy!Clients)
    BY <1>1, LegacyClients
  <2>3. Legacy!UsersAre(v4.client, v4.auth) /\ Legacy!OneSlug(v4.client)
    BY DEF Legacy!Safe, Legacy!Accounts, Legacy!SlugsUnique
  <2> QED BY <1>4, <2>1, <2>2, <2>3, LegacyUpsert
<1>7. Legacy!OnePerMail(P)
  BY <1>4, <1>5, LegacyOneMail
<1>8. v10.spec \subseteq P /\ Legacy!Clients \subseteq C /\ Legacy!StagedResults \subseteq R
  BY DEF Legacy!Upserted
<1> HIDE DEF A, P, C, R
<1>9. /\ Legacy!Rows(v3)
      /\ \A k \in Legacy!KeptManagers(v3.managers) : \E x \in v10.spec : x.mail = k.mail /\ x.slug = k.id
      /\ \A k \in Legacy!KeptClients(v3.clients) : \E x \in v10.client :
           x.mail = k.mail /\ x.slug = k.id /\ x.manager = k.manager
  BY <1>1 DEF Legacy!Safe, Legacy!Tables, Legacy!Staged, Legacy!ManagersStaged, Legacy!ClientsStaged
<1>10. Legacy!ManagersIn(v3.managers, P)
  <2> SUFFICES ASSUME NEW y \in v3.managers
               PROVE  \E x \in P : x.mail = y.mail /\ x.slug = Legacy!Max({w.id : w \in {w \in v3.managers : w.mail = y.mail}})
    BY DEF Legacy!ManagersIn
  <2>1. PICK k \in Legacy!KeptManagers(v3.managers) : k.mail = y.mail
    BY <1>9, LegacyKeeps
  <2>2. PICK x \in v10.spec : x.mail = k.mail /\ x.slug = k.id
    BY <1>9
  <2> DEFINE S == {w.id : w \in {w \in v3.managers : w.mail = y.mail}}
  <2>3. S \subseteq Nat /\ k.id \in S /\ \A n \in S : n <= k.id
    BY <1>9, <2>1 DEF Legacy!Rows, Legacy!KeptManagers
  <2> HIDE DEF S
  <2>4. Legacy!Max(S) = k.id
    <3> DEFINE i == k.id
    <3>0. S \subseteq Nat /\ i \in S /\ \A n \in S : n <= i
      BY <2>3
    <3> HIDE DEF i
    <3>1. /\ i \in S /\ \A n \in S : i >= n
          /\ \A m \in S : (\A n \in S : m >= n) => m = i
      BY <3>0
    <3>2. Legacy!Max(S) \in S /\ \A n \in S : Legacy!Max(S) >= n
      BY <3>1, Zenon DEF Legacy!Max
    <3> QED BY <3>1, <3>2 DEF i
  <2> QED BY <1>8, <2>1, <2>2, <2>4 DEF S
<1>11. Legacy!ClientsIn(v3, P, C, R)
  <2> SUFFICES ASSUME NEW y \in v3.clients
               PROVE  \E c \in C :
                        /\ c.mail = y.mail
                        /\ \E z \in v3.clients :
                             /\ z.mail = y.mail /\ z.date >= y.date /\ z.id = c.slug
                             /\ Legacy!HasSpecialist(c.spec, z.manager, v3.managers, P)
                        /\ \A n \in DOMAIN y.results : \E r \in R :
                             /\ r.uid = <<y.mail, y.id, n, y.results[n]>> /\ r.client = c.uid
                             /\ Legacy!HasSpecialist(r.spec, y.manager, v3.managers, P)
    BY DEF Legacy!ClientsIn
  <2>1. PICK k \in Legacy!KeptClients(v3.clients) : k.mail = y.mail /\ k.date >= y.date
    BY <1>9, LegacyKeeps
  <2>2. PICK x \in v10.client : x.mail = k.mail /\ x.slug = k.id /\ x.manager = k.manager
    BY <1>9
  <2>3. PICK c \in Legacy!Clients :
          c.uid = x.uid /\ c.mail = x.mail /\ c.slug = x.slug /\ c.spec \in Legacy!SpecialistIds(x.manager)
    BY <1>1, LegacyClients
  <2>4. k \in v3.clients
    BY DEF Legacy!KeptClients
  <2>5. Legacy!HasSpecialist(c.spec, k.manager, v3.managers, P)
    BY <1>1, <1>7, <1>8, <2>2, <2>3, LegacyBecame
  <2>6. ASSUME NEW n \in DOMAIN y.results
        PROVE  \E r \in R : /\ r.uid = <<y.mail, y.id, n, y.results[n]>> /\ r.client = c.uid
                            /\ Legacy!HasSpecialist(r.spec, y.manager, v3.managers, P)
    <3>1. PICK s : Legacy!SpecialistIds(y.manager) = {s}
      BY <1>1, LegacySpecialists
    <3>2. Legacy!HasSpecialist(s, y.manager, v3.managers, P)
      BY <1>1, <1>7, <1>8, <3>1, LegacyBecame
    <3> DEFINE Result(m, t, w) == [uid |-> <<y.mail, y.id, m, y.results[m]>>, client |-> w.uid, spec |-> t]
               r == Result(n, s, x)
               Of == {Result(m, t, w) : m \in DOMAIN y.results, t \in Legacy!SpecialistIds(y.manager),
                                        w \in {w \in v10.client : w.mail = y.mail}}
    <3>3. r \in Of
      <4>1. s \in Legacy!SpecialistIds(y.manager) /\ x \in {w \in v10.client : w.mail = y.mail}
        BY <2>1, <2>2, <3>1
      <4> HIDE DEF Result
      <4> QED BY <4>1
    <3>4. r.uid = <<y.mail, y.id, n, y.results[n]>> /\ r.client = x.uid /\ r.spec = s
      OBVIOUS
    <3>5. Of \subseteq Legacy!StagedResults
      BY DEF Legacy!StagedResults
    <3> HIDE DEF r, Of
    <3> QED BY <1>8, <2>3, <3>2, <3>3, <3>4, <3>5
  <2> QED BY <1>8, <2>1, <2>2, <2>3, <2>4, <2>5, <2>6
<1>12. Legacy!Imported'
  <2>1. Legacy!ManagersIn(v12'.managers, v4'.spec)
    BY <1>3, <1>10
  <2>2. Legacy!ClientsIn(v12', v4'.spec, v4'.client, v4'.result)
    BY <1>3, <1>11
  <2> QED BY <2>1, <2>2 DEF Legacy!Imported
<1>13. Legacy!Accounts' /\ Legacy!SlugsUnique'
  <2>1. Legacy!UsersSound(v4'.auth) /\ Legacy!UsersAre(v4'.spec, v4'.auth) /\ Legacy!UsersAre(v4'.client, v4'.auth)
    BY <1>3, <1>4, <1>5, <1>6
  <2>2. Legacy!OneSlug(v4'.spec) /\ Legacy!OneSlug(v4'.client)
    BY <1>3, <1>5, <1>6
  <2> QED BY <2>1, <2>2 DEF Legacy!Accounts, Legacy!SlugsUnique
<1> QED BY <1>3, <1>12, <1>13

\* A run ends, with or without a commit.
LEMMA LegacyEnds ==
  ASSUME Legacy!Safe, Legacy!Finish \/ Legacy!Fail
  PROVE  Legacy!Safe'
<1>1. /\ v6' = "idle" /\ v3' = Legacy!Nothing /\ v10' = Legacy!NoStage /\ v11' = Legacy!Empty /\ v1' = v1
      /\ (v6 = "finish" /\ Legacy!Commit) \/ UNCHANGED <<v4, v12>>
  BY DEF Legacy!Finish, Legacy!Fail, Legacy!End
<1>2. /\ DOMAIN v11' = {"auth", "spec", "client", "result"} /\ DOMAIN v10' = {"spec", "client"}
      /\ DOMAIN v3' = {"managers", "clients"}
      /\ v10'.spec = {} /\ v10'.client = {} /\ v11'.auth = {} /\ v11'.spec = {} /\ v11'.client = {}
      /\ v3'.managers = {} /\ v3'.clients = {}
  BY <1>1 DEF Legacy!Nothing, Legacy!Empty, Legacy!NoStage
<1>3. Legacy!Accounts' /\ Legacy!SlugsUnique' /\ Legacy!Imported' /\ DOMAIN v4' = DOMAIN v4
  <2>1. CASE v6 = "finish" /\ Legacy!Commit
    BY <2>1, LegacyCommit
  <2>2. CASE UNCHANGED <<v4, v12>>
    BY <2>2, LegacyImportedSame DEF Legacy!Safe, Legacy!Accounts, Legacy!SlugsUnique
  <2> QED BY <1>1, <2>1, <2>2
<1>4. Legacy!Tables'
  <2>1. Legacy!IsFiniteSet({})
    BY FS_EmptySet, LegacyFinite
  <2>2. Legacy!Rows(v3')
    BY <1>2, <2>1 DEF Legacy!Rows, Legacy!OneId
  <2> QED BY <1>1, <1>2, <1>3, <2>2 DEF Legacy!Safe, Legacy!Tables
<1>5. Legacy!Staged' /\ Legacy!Checked' /\ Legacy!Written'
  BY <1>1, <1>2 DEF Legacy!Staged, Legacy!Checked, Legacy!Written, Legacy!Exporting, Legacy!Writing
<1> QED BY <1>3, <1>4, <1>5 DEF Legacy!Safe

\* What the run meets is what the properties allow.
LEMMA LegacyStops == ASSUME Legacy!Safe PROVE Legacy!StopsExplained
<1> DEFINE B == Legacy!Upserted(v4.auth, Legacy!StagedUsers)
<1>1. Legacy!OnePerMail(v4.client) /\ Legacy!OnePerMail(v4.spec)
  BY LegacyOneMail DEF Legacy!Safe, Legacy!Accounts
<1>2. ASSUME v6 = "users", ~Legacy!UsersFit
      PROVE  \E x \in v4.auth, y \in v10.spec \cup v10.client :
               x.mail = y.mail /\ x.uid = Legacy!SignedUp(y.mail) /\ y.uid = Legacy!Minted(y.mail)
  <2>1. \A x \in v4.auth : x = Legacy!UserOf(x) /\ x.uid \in {Legacy!Minted(x.mail), Legacy!SignedUp(x.mail)}
    BY DEF Legacy!Safe, Legacy!Accounts, Legacy!UsersSound
  <2>2. ASSUME NEW n \in Legacy!StagedUsers
        PROVE  /\ n = Legacy!UserOf(n)
               /\ n.uid = Legacy!Minted(n.mail) \/ n \in v4.auth
               /\ \E y \in v10.spec \cup v10.client : n.uid = y.uid /\ n.mail = y.mail
    <3>1. PICK x \in v10.spec \cup v10.client : n = [uid |-> x.uid, mail |-> x.mail]
      BY DEF Legacy!StagedUsers
    <3>2. n.uid = x.uid /\ n.mail = x.mail /\ n = Legacy!UserOf(x) /\ n = Legacy!UserOf(n)
      BY <3>1 DEF Legacy!UserOf
    <3>3. Legacy!StagedOf(x, v4.auth)
      BY DEF Legacy!Safe, Legacy!Staged
    <3> QED BY <3>2, <3>3 DEF Legacy!StagedOf
  <2>3. \A n \in B : n \in v4.auth \/ n \in Legacy!StagedUsers
    BY DEF Legacy!Upserted
  <2>4. \A n \in B : n = Legacy!UserOf(n) /\ n.uid \in {Legacy!Minted(n.mail), Legacy!SignedUp(n.mail)}
    BY <2>1, <2>2, <2>3
  <2> HIDE DEF B
  <2>5. \A x, y \in B : x.uid = y.uid => x.mail = y.mail
    BY <2>4 DEF Legacy!Minted, Legacy!SignedUp
  <2>6. \A x, y \in B : x.uid = y.uid => x = y
    BY <2>4, <2>5 DEF Legacy!UserOf
  <2>7. PICK x \in B, y \in B : x.mail = y.mail /\ x # y
    BY <1>2, <2>6 DEF Legacy!UsersFit, Legacy!OnePerMail, Legacy!OnePerKey, B
  <2>8. PICK p \in B, q \in B : p.mail = q.mail /\ p # q /\ p.uid = Legacy!SignedUp(p.mail) /\ q.uid = Legacy!Minted(q.mail)
    BY <2>4, <2>6, <2>7
  <2>9. p \in v4.auth
    <3>1. p.uid # Legacy!Minted(p.mail)
      BY <2>8 DEF Legacy!SignedUp, Legacy!Minted
    <3> QED BY <2>2, <2>3, <3>1
  <2>10. q \in Legacy!StagedUsers
    BY <2>3, <2>8, <2>9 DEF Legacy!Safe, Legacy!Accounts, Legacy!UsersSound, Legacy!OnePerMail
  <2>11. PICK z \in v10.spec \cup v10.client : q.uid = z.uid /\ q.mail = z.mail
    BY <2>2, <2>10
  <2> QED BY <2>8, <2>9, <2>11
<1>3. ASSUME v6 \in {"specialists", "write clients", "results"}
      PROVE  Legacy!OnePerKey(v10.spec) /\ Legacy!OnePerKey(v10.client) /\ Legacy!OnePerKey(Legacy!StagedResults)
  <2>1. v6 \in Legacy!Writing \ {"users"} /\ v6 \notin Legacy!Exporting \cup {"stage clients"}
    BY <1>3 DEF Legacy!Writing, Legacy!Exporting
  <2>2. Legacy!OnePerMail(v10.client)
    BY <2>1 DEF Legacy!Safe, Legacy!Staged, Legacy!ClientsStaged
  <2>3. ASSUME NEW t \in Legacy!StagedResults
        PROVE  \E r \in v3.clients, x \in v10.client : \E n, s :
                 /\ t = [uid |-> <<r.mail, r.id, n, r.results[n]>>, client |-> x.uid, spec |-> s]
                 /\ x.mail = r.mail /\ s \in Legacy!SpecialistIds(r.manager)
                 /\ t.uid[2] = r.id /\ t.uid[3] = n
    <3>1. PICK r \in v3.clients :
            \E n \in DOMAIN r.results, s \in Legacy!SpecialistIds(r.manager), x \in {x \in v10.client : x.mail = r.mail} :
              t = [uid |-> <<r.mail, r.id, n, r.results[n]>>, client |-> x.uid, spec |-> s]
      BY DEF Legacy!StagedResults
    <3>2. PICK n \in DOMAIN r.results, s \in Legacy!SpecialistIds(r.manager), x \in {x \in v10.client : x.mail = r.mail} :
            t = [uid |-> <<r.mail, r.id, n, r.results[n]>>, client |-> x.uid, spec |-> s]
      BY <3>1
    <3>3. t.uid[2] = r.id /\ t.uid[3] = n
      BY <3>2
    <3> QED BY <3>2, <3>3
  <2> SUFFICES ASSUME NEW t \in Legacy!StagedResults, NEW w \in Legacy!StagedResults, t.uid = w.uid PROVE t = w
    BY <2>1, LegacySlugs DEF Legacy!OnePerKey
  <2>4. PICK r \in v3.clients, x \in v10.client : \E n, s :
          /\ t = [uid |-> <<r.mail, r.id, n, r.results[n]>>, client |-> x.uid, spec |-> s]
          /\ x.mail = r.mail /\ s \in Legacy!SpecialistIds(r.manager)
          /\ t.uid[2] = r.id /\ t.uid[3] = n
    BY <2>3
  <2>5. PICK q \in v3.clients, y \in v10.client : \E m, u :
          /\ w = [uid |-> <<q.mail, q.id, m, q.results[m]>>, client |-> y.uid, spec |-> u]
          /\ y.mail = q.mail /\ u \in Legacy!SpecialistIds(q.manager)
          /\ w.uid[2] = q.id /\ w.uid[3] = m
    BY <2>3
  <2>6. PICK n, s :
          /\ t = [uid |-> <<r.mail, r.id, n, r.results[n]>>, client |-> x.uid, spec |-> s]
          /\ x.mail = r.mail /\ s \in Legacy!SpecialistIds(r.manager)
          /\ t.uid[2] = r.id /\ t.uid[3] = n
    BY <2>4
  <2>7. PICK m, u :
          /\ w = [uid |-> <<q.mail, q.id, m, q.results[m]>>, client |-> y.uid, spec |-> u]
          /\ y.mail = q.mail /\ u \in Legacy!SpecialistIds(q.manager)
          /\ w.uid[2] = q.id /\ w.uid[3] = m
    BY <2>5
  <2>8. n = m /\ r = q
    BY <2>6, <2>7 DEF Legacy!Safe, Legacy!Tables, Legacy!Rows, Legacy!OneId
  <2>9. x = y
    BY <2>2, <2>6, <2>7, <2>8 DEF Legacy!OnePerMail
  <2>10. PICK i : Legacy!SpecialistIds(r.manager) = {i}
    BY <2>1, LegacySpecialists
  <2>11. s = u
    BY <2>6, <2>7, <2>8, <2>10
  <2> QED BY <2>6, <2>7, <2>8, <2>9, <2>11
<1> QED BY <1>1, <1>2, <1>3 DEF Legacy!StopsExplained

\* The import stops only where it may, its slugs stay unique and it holds what it
\* exported; copies are exact; and a runtime that is up is owned.  Local-test's
\* invariant says who has a runtime up, dba's which command has which files, and
\* that of the import, for each point of a run, whom the staged rows stand for
\* and what the transaction has written.
THEOREM DbaIsExact == Spec => []DbaExact
<1> DEFINE Safe == /\ program = "legacy" => Legacy!Safe
                   /\ program = "dba" => Dba!Safe
                   /\ program = "local" => Local!Safe
<1>1. Init => Safe
  BY LegacyInit, DbaInit, LocalInit DEF Init
<1>2. ASSUME Safe, [Next]_vars PROVE Safe'
  <2>1. CASE Next
    <3>1. program' = program
      BY <2>1 DEF Next
    <3>2. ASSUME program = "legacy" PROVE Legacy!Safe'
      <4>1. Legacy!Next /\ Legacy!Safe
        BY <1>2, <2>1, <3>2 DEF Next
      <4>2. CASE Legacy!SourceChanges \/ Legacy!Start \/ Legacy!ExportClients \/ Legacy!ExportManagers
        BY <4>1, <4>2, LegacyExports
      <4>3. CASE \E m \in LegacyMail : Legacy!SignUp(m)
        BY <4>1, <4>3, LegacySignUp
      <4>4. CASE \E x \in v4.auth : Legacy!Enrol(x)
        BY <4>1, <4>4, LegacyEnrol
      <4>5. CASE Legacy!StageManagers \/ Legacy!StageClients
        BY <4>1, <4>5, LegacyStageManagers, LegacyStageClients
      <4>6. CASE \/ Legacy!CheckSlugs \/ Legacy!WriteUsers \/ Legacy!WriteSpecialists \/ Legacy!WriteClients
                 \/ Legacy!WriteResults
        BY <4>1, <4>6, LegacyWrites
      <4>7. CASE Legacy!Finish \/ Legacy!Fail
        BY <4>1, <4>7, LegacyEnds
      <4> QED BY <4>1, <4>2, <4>3, <4>4, <4>5, <4>6, <4>7 DEF Legacy!Next
    <3>3. ASSUME program = "dba" PROVE Dba!Safe'
      <4>1. Dba!Next /\ Dba!Safe
        BY <1>2, <2>1, <3>3 DEF Next
      <4>2. CASE Dba!Tick \/ \E d \in Dba!Db : Dba!UserWrites(d)
        BY <4>1, <4>2, DbaOthers
      <4>3. CASE \E c \in DbaCommand : Dba!Step(c)
        BY <4>1, <4>3, DbaStarts, DbaFile, DbaTarget DEF Dba!Step
      <4> QED BY <4>1, <4>2, <4>3 DEF Dba!Next
    <3>4. ASSUME program = "local" PROVE Local!Safe'
      <4>1. Local!Next /\ Local!Safe
        BY <1>2, <2>1, <3>4 DEF Next
      <4> QED BY <4>1, LocalStep DEF Local!Next
    <3> QED BY <3>1, <3>2, <3>3, <3>4
  <2>2. CASE UNCHANGED vars
    <3>1. /\ program' = program
          /\ UNCHANGED <<v1, v2, v3, v4, v5, v6, v7, v8, v9, v10, v11, v12, v13, v14, v15>>
      BY <2>2 DEF vars
    <3>2. ASSUME Legacy!Safe PROVE Legacy!Safe'
      <4>1. Legacy!Tables' /\ Legacy!Accounts' /\ Legacy!SlugsUnique' /\ Legacy!Imported'
        BY <3>1, <3>2 DEF Legacy!Safe, Legacy!Tables, Legacy!Accounts, Legacy!SlugsUnique, Legacy!Imported
      <4>2. Legacy!Staged' /\ Legacy!Checked'
        BY <3>1, <3>2 DEF Legacy!Safe, Legacy!Staged, Legacy!Checked
      <4>3. Legacy!Written'
        BY <3>1, <3>2, LegacyRowsSame DEF Legacy!Safe, Legacy!Written
      <4> QED BY <4>1, <4>2, <4>3 DEF Legacy!Safe
    <3>3. Dba!Safe => Dba!Safe'
      BY <3>1 DEF Dba!Safe, Dba!Types, Dba!Apart, Dba!CopiesExact
    <3>4. Local!Safe => Local!Safe'
      BY <3>1 DEF Local!Safe, Local!Types, Local!RunStarts, Local!RuntimesOwned
    <3> QED BY <1>2, <3>1, <3>2, <3>3, <3>4
  <2> QED BY <1>2, <2>1, <2>2
<1>3. Safe => DbaExact
  <2>1. Legacy!Safe => Legacy!StopsExplained /\ Legacy!SlugsUnique /\ Legacy!Imported
    BY LegacyStops DEF Legacy!Safe
  <2>2. Dba!Safe => Dba!CopiesExact
    BY DEF Dba!Safe
  <2>3. Local!Safe => Local!RuntimesOwned
    BY DEF Local!Safe
  <2> QED BY <2>1, <2>2, <2>3 DEF DbaExact
<1> QED BY <1>1, <1>2, <1>3, PTL DEF Spec
=============================================================================
