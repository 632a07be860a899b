------------------------------ MODULE HostProofs ------------------------------
(***************************************************************************)
(* More proofs about the programs of MCPrograms, those that maintain a     *)
(* host, its notes or the mirrors of a repository: see ProgramsProofs for  *)
(* what Safe is and what is shown of it.                                   *)
(***************************************************************************)
EXTENDS MCPrograms, FiniteSetTheorems, WellFoundedInduction, TLAPS

-----------------------------------------------------------------------------
(* The identity stack: v1 to v8 are realm, clients, tenant, run, slip, other, edits *)
(* and faults of IdStack.                                                           *)

\* An entry is a client of the environment's, and a payload is not that of a client that is missing.
LEMMA StackEntries ==
  ASSUME Stack!Assumed, Stack!Types, NEW r \in StackRun, NEW i \in 1..Len(Stack!Entries(r))
  PROVE  /\ Stack!Entries(r)[i].id \in StackClient
         /\ Stack!Entries(r)[i] \in Stack!AllEntries
         /\ Len(Stack!Entries(r)) \in Nat \ {0}
         /\ \A j \in 1..Len(Stack!Entries(r)) : Stack!Entries(r)[i].id = Stack!Entries(r)[j].id => i = j
BY DEF Stack!Assumed, Stack!Types, Stack!Runs, Stack!Entries, Stack!AllEntries

LEMMA StackPayload == ASSUME NEW e PROVE Stack!Payload(e) # <<>>
<1>1. DOMAIN Stack!Payload(e) = {"public", "redirects", "logout", "flow"}
  BY DEF Stack!Payload
<1>2. DOMAIN <<>> = {}
  OBVIOUS
<1> QED BY <1>1, <1>2

\* Nothing is provisioned when the stack is made.
LEMMA StackInit == ASSUME Stack!Assumed, Stack!Init PROVE Stack!Safe
<1>1. Stack!Idle.env \in StackEnv
  BY DEF Stack!Assumed, Stack!Idle
<1>a. 0 \in Stack!Value
  BY DEF Stack!Value
<1>b. Stack!NoRealm \in Stack!Realms
  BY <1>a DEF Stack!NoRealm, Stack!Realms
<1>2. Stack!NoRealm \in Stack!Realms /\ v1 \in Stack!Realms
  BY <1>b DEF Stack!Realms, Stack!Init
<1>3. Stack!Missing \in Stack!Clients
  BY DEF Stack!Missing, Stack!Clients
<1>4. Stack!Idle \in Stack!Runs
  BY <1>1, <1>2 DEF Stack!Idle, Stack!Runs, Stack!Place
<1>5. Stack!Types
  BY <1>2, <1>3, <1>4 DEF Stack!Types, Stack!Init
<1>6. Stack!EditsKept
  BY DEF Stack!Init, Stack!NoRealm, Stack!EditsKept
<1>7. ASSUME NEW r \in StackRun PROVE Stack!RunSafe(r)
  <2>1. v4[r] = Stack!Idle
    BY DEF Stack!Init
  <2>2. v4[r].pc = "idle" /\ v4[r].i = 1 /\ ~Stack!PastLoop(r)
    BY <2>1 DEF Stack!Idle, Stack!PastLoop, Stack!Ended, Stack!Shaping, Stack!Writing
  <2>3. Len(Stack!Entries(r)) \in Nat \ {0}
    BY <1>1, <2>1 DEF Stack!Assumed, Stack!Entries, Stack!Idle
  <2>4. Stack!Finished(r) = {}
    BY <2>2, <2>3 DEF Stack!Finished
  <2> QED BY <2>2, <2>3, <2>4
          DEF Stack!RunSafe, Stack!Progress, Stack!Met, Stack!ReadTrue, Stack!Given, Stack!Shaped, Stack!Looping,
              Stack!Writing, Stack!Ended
<1> QED BY <1>5, <1>6, <1>7 DEF Stack!Safe

\* A step of run r that writes nothing but its own record leaves the others safe.
LEMMA StackMoves ==
  ASSUME Stack!Safe, NEW r \in StackRun, NEW k \in Stack!Runs, v4' = [v4 EXCEPT ![r] = k],
         UNCHANGED <<v1, v2, v5, v6>>, v3' \in BOOLEAN, v3 => v3', Stack!RunSafe(r)'
  PROVE  Stack!Safe'
<1>1. Stack!Types' /\ Stack!EditsKept'
  BY DEF Stack!Safe, Stack!Types, Stack!EditsKept
<1>2. ASSUME NEW s \in StackRun, s # r PROVE Stack!RunSafe(s)'
  <2>1. v4'[s] = v4[s] /\ Stack!RunSafe(s)
    BY <1>2 DEF Stack!Safe, Stack!Types
  <2>2. Stack!Entries(s)' = Stack!Entries(s) /\ Stack!PastLoop(s)' = Stack!PastLoop(s) /\ Stack!Ended(s)' = Stack!Ended(s)
    BY <2>1 DEF Stack!PastLoop, Stack!Ended, Stack!Entries
  <2>3. Stack!Finished(s)' = Stack!Finished(s) /\ Stack!Entry(s)' = Stack!Entry(s)
    BY <2>1, <2>2 DEF Stack!Finished, Stack!Entry
  <2>4. Stack!Progress(s)' /\ Stack!ReadTrue(s)' /\ Stack!Shaped(s)'
    BY <2>1, <2>2, <2>3 DEF Stack!RunSafe, Stack!Progress, Stack!Met, Stack!ReadTrue, Stack!Shaped
  <2>5. Stack!Given(s)'
    BY <2>1, <2>2, <2>3 DEF Stack!RunSafe, Stack!Given, Stack!Served
  <2> QED BY <2>4, <2>5 DEF Stack!RunSafe
<1> QED BY <1>1, <1>2 DEF Stack!Safe

\* The places before the loop, and a run that stops or has said that it did
\* not do all, promise nothing of the clients.
LEMMA StackNoPromise ==
  ASSUME Stack!Assumed, Stack!Types', Stack!Safe, NEW r \in StackRun,
         v4'[r].env = v4[r].env, v4'[r].i = v4[r].i, v4'[r].bad = v4[r].bad, v4'[r].foreign = v4[r].foreign,
         v1.exists => v1'.exists,
         \/ v4'[r].pc \in {"keycloak", "realm", "token", "failed"}
         \/ v4'[r].pc \in {"killbill", "done"} /\ v4'[r].silent,
         \A i \in Stack!Finished(r) : v2'[Stack!Entries(r)[i].id] = v2[Stack!Entries(r)[i].id]
  PROVE  Stack!RunSafe(r)'
<1>1. ~Stack!PastLoop(r)' /\ ~Stack!Ended(r)' /\ v4'[r].pc \notin Stack!Looping \cup Stack!Writing \cup {"theme", "idle"}
  BY DEF Stack!PastLoop, Stack!Ended, Stack!Shaping, Stack!Writing, Stack!Looping
<1>2. Stack!Entries(r)' = Stack!Entries(r) /\ Stack!RunSafe(r)
  BY DEF Stack!Entries, Stack!Safe
<1>3. Stack!Finished(r)' \subseteq Stack!Finished(r)
  BY <1>1, <1>2 DEF Stack!Finished
<1>4. Stack!Progress(r)'
  <2>1. Stack!Met(r)' => Stack!Met(r)
    BY <1>1, <1>3 DEF Stack!Met, Stack!Looping
  <2> QED BY <1>1, <1>2, <2>1 DEF Stack!RunSafe, Stack!Progress
<1>5. Stack!ReadTrue(r)' /\ Stack!Shaped(r)'
  BY <1>1 DEF Stack!ReadTrue, Stack!Shaped, Stack!Writing
<1>6. Stack!Given(r)'
  BY <1>1, <1>2, <1>3 DEF Stack!Given, Stack!RunSafe, Stack!Served, Stack!Looping
<1> QED BY <1>4, <1>5, <1>6 DEF Stack!RunSafe

LEMMA StackStart == ASSUME Stack!Assumed, Stack!Safe, NEW r \in StackRun, NEW env \in StackEnv, Stack!Start(r, env) PROVE Stack!Safe'
<1> DEFINE k == [Stack!Idle EXCEPT !.env = env, !.silent = env.disabled,
                                   !.pc = IF env.disabled THEN "done" ELSE "keycloak"]
<1>1. v4' = [v4 EXCEPT ![r] = k] /\ UNCHANGED <<v1, v2, v3, v5, v6>>
  BY DEF Stack!Start, Stack!Keep
<1>2. Stack!NoRealm \in Stack!Realms
  BY DEF Stack!NoRealm, Stack!Realms, Stack!Value
<1>3. env.disabled \in BOOLEAN /\ Len(env.entries) \in Nat \ {0}
  BY DEF Stack!Assumed
<1>4. /\ k \in Stack!Runs /\ k.env = env /\ k.i = 1 /\ k.bad = {} /\ k.silent = env.disabled
      /\ k.pc = IF env.disabled THEN "done" ELSE "keycloak"
  BY <1>2, <1>3 DEF Stack!Idle, Stack!Runs, Stack!Place
<1> HIDE DEF k
<1>5. v4'[r] = k
  BY <1>1 DEF Stack!Safe, Stack!Types
<1>6. ~Stack!PastLoop(r)' /\ ~Stack!Ended(r)' /\ v4'[r].pc \notin Stack!Looping \cup Stack!Writing \cup {"theme", "token"}
  BY <1>3, <1>4, <1>5 DEF Stack!PastLoop, Stack!Ended, Stack!Shaping, Stack!Writing, Stack!Looping
<1>7. Stack!Finished(r)' = {}
  BY <1>3, <1>4, <1>5, <1>6 DEF Stack!Finished, Stack!Entries
<1>8. Stack!Progress(r)'
  <2>1. Stack!Entries(r)' = env.entries
    BY <1>4, <1>5 DEF Stack!Entries
  <2>2. v4'[r].i \in 1..Len(Stack!Entries(r)')
    BY <1>3, <1>4, <1>5, <2>1
  <2>3. v4'[r].pc = "done" => v4'[r].silent
    BY <1>3, <1>4, <1>5
  <2>4. ~Stack!Met(r)'
    BY <1>6, <1>7 DEF Stack!Met, Stack!Looping
  <2> QED BY <1>4, <1>5, <1>6, <2>2, <2>3, <2>4 DEF Stack!Progress
<1>9. Stack!ReadTrue(r)' /\ Stack!Given(r)' /\ Stack!Shaped(r)'
  BY <1>6, <1>7 DEF Stack!ReadTrue, Stack!Given, Stack!Shaped, Stack!Looping, Stack!Writing
<1>10. Stack!RunSafe(r)'
  BY <1>8, <1>9 DEF Stack!RunSafe
<1> QED BY <1>1, <1>4, <1>10, StackMoves DEF Stack!Safe, Stack!Types
\* A write to the client of the entry at work leaves those of the finished entries alone.
LEMMA StackApart ==
  ASSUME Stack!Assumed, Stack!Safe, NEW r \in StackRun, v4[r].pc \in Stack!Looping,
         \A c \in StackClient : c # Stack!Entry(r).id => v2'[c] = v2[c]
  PROVE  \A i \in Stack!Finished(r) : v2'[Stack!Entries(r)[i].id] = v2[Stack!Entries(r)[i].id]
<1>1. ~Stack!PastLoop(r) /\ v4[r].i \in 1..Len(Stack!Entries(r))
  BY DEF Stack!PastLoop, Stack!Ended, Stack!Shaping, Stack!Writing, Stack!Looping, Stack!Safe, Stack!RunSafe, Stack!Progress
<1>2. \A i \in Stack!Finished(r) : i \in 1..Len(Stack!Entries(r)) /\ i < v4[r].i
  BY <1>1 DEF Stack!Finished
<1> QED BY <1>1, <1>2, StackEntries DEF Stack!Entry, Stack!Safe

\* A run that goes on with the entry it is at, or with the first one.
LEMMA StackGoesOn ==
  ASSUME Stack!Assumed, Stack!Safe, Stack!Types', NEW r \in StackRun, v4[r].pc \in {"token"} \cup Stack!Looping,
         v4'[r].env = v4[r].env, v4'[r].i = v4[r].i, v4'[r].bad = v4[r].bad, v4'[r].foreign = v4[r].foreign,
         v4'[r].pc \in Stack!Looping, v1' = v1, v4'[r].pc = "query" \/ v1.exists,
         \A i \in Stack!Finished(r) : v2'[Stack!Entries(r)[i].id] = v2[Stack!Entries(r)[i].id],
         v4'[r].pc = "secret" => v2'[Stack!Entry(r).id].payload = Stack!Payload(Stack!Entry(r))
  PROVE  Stack!RunSafe(r)'
<1>1. ~Stack!PastLoop(r)' /\ ~Stack!Ended(r)' /\ v4'[r].pc \notin Stack!Writing \cup {"theme", "done", "idle"}
  BY DEF Stack!PastLoop, Stack!Ended, Stack!Shaping, Stack!Writing, Stack!Looping
<1>2. Stack!Entries(r)' = Stack!Entries(r) /\ Stack!Entry(r)' = Stack!Entry(r) /\ Stack!RunSafe(r)
  BY DEF Stack!Entries, Stack!Entry, Stack!Safe
<1>3. Stack!Finished(r)' \subseteq Stack!Finished(r)
  BY <1>1, <1>2 DEF Stack!Finished
<1>4. Stack!Progress(r)'
  <2>1. Stack!Met(r)' => Stack!Met(r) \/ v1.exists
    BY <1>1, <1>3 DEF Stack!Met
  <2> QED BY <1>1, <1>2, <2>1 DEF Stack!RunSafe, Stack!Progress
<1>5. Stack!ReadTrue(r)' /\ Stack!Shaped(r)'
  BY <1>1 DEF Stack!ReadTrue, Stack!Shaped, Stack!Writing
<1>6. Stack!Given(r)'
  BY <1>2, <1>3 DEF Stack!Given, Stack!RunSafe, Stack!Served
<1> QED BY <1>4, <1>5, <1>6 DEF Stack!RunSafe

\* A run that is through with an entry: it is served, or is one in error.
LEMMA StackAfter ==
  ASSUME Stack!Assumed, Stack!Safe, Stack!Types', NEW r \in StackRun, v4[r].pc \in Stack!Looping,
         NEW bad \in {v4[r].bad, v4[r].bad \cup {v4[r].i}}, v4'[r] = Stack!After(r, bad), v1' = v1,
         v4[r].i \in bad \/ v4[r].pc \in {"put", "post", "secret"},
         \A i \in Stack!Finished(r) : v2'[Stack!Entries(r)[i].id] = v2[Stack!Entries(r)[i].id],
         \/ v4[r].foreign \/ v4[r].i \in bad
         \/ /\ v2'[Stack!Entry(r).id].payload = Stack!Payload(Stack!Entry(r))
            /\ Stack!Secret(Stack!Entry(r)) # 0 => v2'[Stack!Entry(r).id].secret = Stack!Secret(Stack!Entry(r))
  PROVE  Stack!RunSafe(r)'
<1> DEFINE n == Len(Stack!Entries(r))
           last == v4[r].i = n
<1>1. /\ v4'[r].env = v4[r].env /\ v4'[r].bad = bad /\ v4'[r].foreign = v4[r].foreign
      /\ v4'[r].i = IF last THEN v4[r].i ELSE v4[r].i + 1
      /\ v4'[r].pc = IF ~last THEN "query" ELSE IF bad = {} THEN "urls" ELSE "failed"
  BY DEF Stack!After, Stack!Safe, Stack!Types, Stack!Runs
<1>2. Stack!Entries(r)' = Stack!Entries(r) /\ Stack!RunSafe(r) /\ v4[r].i \in 1..n /\ n \in Nat
  <2>1. Stack!RunSafe(r) /\ v4[r].i \in 1..n
    BY DEF Stack!Safe, Stack!RunSafe, Stack!Progress
  <2> QED BY <1>1, <2>1, StackEntries DEF Stack!Entries, Stack!Safe
<1>3. ~Stack!PastLoop(r) /\ (Stack!Met(r) => v1.exists)
  BY <1>2 DEF Stack!RunSafe, Stack!Progress, Stack!PastLoop, Stack!Ended, Stack!Shaping, Stack!Writing, Stack!Looping
<1>4. Stack!PastLoop(r)' => last /\ bad = {}
  BY <1>1 DEF Stack!PastLoop, Stack!Ended, Stack!Shaping, Stack!Writing
<1>5. Stack!Progress(r)'
  <2>1. v4[r].i \notin bad => v1.exists
    BY <1>3 DEF Stack!Met
  <2>2. ASSUME NEW i \in Stack!Finished(r)' PROVE (i = v4[r].i /\ i \notin bad) \/ i \in Stack!Finished(r)
    <3>1. i \in 1..n /\ i \notin bad /\ i <= v4[r].i
      BY <1>1, <1>2, <1>4 DEF Stack!Finished
    <3> QED BY <1>2, <3>1 DEF Stack!Finished
  <2>3. Stack!Met(r)' => v1.exists
    BY <1>1, <1>3, <1>4, <2>1, <2>2 DEF Stack!Met
  <2> QED BY <1>1, <1>2, <1>3, <1>4, <2>3 DEF Stack!Progress
<1>6. Stack!ReadTrue(r)' /\ Stack!Shaped(r)'
  BY <1>1 DEF Stack!ReadTrue, Stack!Shaped, Stack!Ended, Stack!Writing
<1>7. Stack!Given(r)'
  <2>1. SUFFICES ASSUME ~v4[r].foreign, NEW i \in Stack!Finished(r)' PROVE Stack!Served(Stack!Entries(r)[i])'
    BY <1>1, <1>2 DEF Stack!Given
  <2>2. i \in 1..n /\ i \notin bad /\ (i <= v4[r].i)
    BY <1>1, <1>2, <1>4 DEF Stack!Finished
  <2>3. CASE i = v4[r].i
    BY <1>2, <2>1, <2>2, <2>3 DEF Stack!Served, Stack!Entry
  <2>4. CASE i # v4[r].i
    <3>1. i \in Stack!Finished(r)
      BY <1>2, <2>2, <2>4 DEF Stack!Finished
    <3> QED BY <1>2, <2>1, <3>1 DEF Stack!Given, Stack!RunSafe, Stack!Served
  <2> QED BY <2>3, <2>4
<1> QED BY <1>5, <1>6, <1>7 DEF Stack!RunSafe

\* A write to a client: the other runs are of another environment, or would have
\* written the same.
LEMMA StackGives ==
  ASSUME Stack!Assumed, Stack!Safe, NEW r \in StackRun, v4[r].pc \in Stack!Looping, NEW k \in Stack!Runs,
         Stack!Others(r, k), UNCHANGED <<v1, v3, v5, v6>>, NEW c \in Stack!Clients,
         v2' = [v2 EXCEPT ![Stack!Entry(r).id] = c], c.payload \in {v2[Stack!Entry(r).id].payload, Stack!Payload(Stack!Entry(r))},
         \/ v2[Stack!Entry(r).id] = Stack!Missing \/ c.secret = v2[Stack!Entry(r).id].secret
         \/ c.secret = Stack!Secret(Stack!Entry(r)),
         Stack!Types' => Stack!RunSafe(r)'
  PROVE  Stack!Safe'
<1> DEFINE id == Stack!Entry(r).id
<1>1. v4[r].i \in 1..Len(Stack!Entries(r)) /\ id \in StackClient
  BY StackEntries DEF Stack!Safe, Stack!RunSafe, Stack!Progress, Stack!Entry
<1>2. \A s \in StackRun : v4'[s] = IF s = r THEN k ELSE Stack!Heard(r, s)
  BY DEF Stack!Others
<1>3. ASSUME NEW s \in StackRun, s # r
      PROVE  /\ v4'[s] \in Stack!Runs
             /\ v4'[s] = [v4[s] EXCEPT !.foreign = v4'[s].foreign]
             /\ v4'[s].foreign <=> v4[s].foreign \/ (v4[s].pc # "idle" /\ v4[s].env # v4[r].env)
  <2>1. v4[s] \in Stack!Runs /\ v4'[s] = Stack!Heard(r, s)
    BY <1>2, <1>3 DEF Stack!Safe, Stack!Types
  <2>2. Stack!Missed(s) <=> v4[s].stale
    BY DEF Stack!Missed
  <2>3. Stack!Missed(s) \in BOOLEAN
    BY <2>1 DEF Stack!Missed, Stack!Runs
  <2>4. Stack!Missed(s) = v4[s].stale
    BY <2>1, <2>2, <2>3 DEF Stack!Runs
  <2> DEFINE f == v4[s].foreign \/ (v4[s].pc # "idle" /\ v4[s].env # v4[r].env)
  <2>5. f \in BOOLEAN
    OBVIOUS
  <2>6. v4'[s] = [v4[s] EXCEPT !.foreign = f, !.stale = v4[s].stale]
    BY <2>1, <2>4 DEF Stack!Heard
  <2> HIDE DEF f
  <2>7. v4'[s] = [v4[s] EXCEPT !.foreign = f] /\ v4'[s] \in Stack!Runs /\ v4'[s].foreign = f
    BY <2>1, <2>5, <2>6 DEF Stack!Runs
  <2> QED BY <2>7 DEF f
<1>4. Stack!Types' /\ Stack!EditsKept'
  BY <1>2, <1>3 DEF Stack!Others, Stack!Safe, Stack!Types, Stack!EditsKept
<1>5. v2'[id] = c /\ \A d \in StackClient \ {id} : v2'[d] = v2[d]
  BY <1>1 DEF Stack!Safe, Stack!Types
<1>6. ASSUME NEW s \in StackRun, s # r PROVE Stack!RunSafe(s)'
  <2>1. /\ v4'[s].env = v4[s].env /\ v4'[s].pc = v4[s].pc /\ v4'[s].i = v4[s].i /\ v4'[s].bad = v4[s].bad
        /\ v4'[s].rep = v4[s].rep /\ v4'[s].silent = v4[s].silent /\ v4'[s].stale = v4[s].stale
    BY <1>3, <1>6 DEF Stack!Safe, Stack!Types, Stack!Runs
  <2>2. Stack!RunSafe(s)
    BY DEF Stack!Safe
  <2>3. Stack!Entries(s)' = Stack!Entries(s) /\ Stack!PastLoop(s)' = Stack!PastLoop(s) /\ Stack!Ended(s)' = Stack!Ended(s)
    BY <2>1 DEF Stack!PastLoop, Stack!Ended, Stack!Entries
  <2>4. Stack!Finished(s)' = Stack!Finished(s) /\ Stack!Entry(s)' = Stack!Entry(s)
    BY <2>1, <2>3 DEF Stack!Finished, Stack!Entry
  <2>5. Stack!Progress(s)' /\ Stack!ReadTrue(s)' /\ Stack!Shaped(s)'
    BY <1>3, <1>6, <2>1, <2>2, <2>3, <2>4 DEF Stack!RunSafe, Stack!Progress, Stack!Met, Stack!ReadTrue, Stack!Shaped
  <2>6. Stack!Given(s)'
    <3>1. CASE v4[s].pc = "idle"
      <4>1. Stack!Finished(s) = {}
        <5>1. v4[s].i = 1 /\ ~Stack!PastLoop(s)
          BY <2>2, <3>1 DEF Stack!RunSafe, Stack!Progress, Stack!PastLoop, Stack!Ended, Stack!Shaping, Stack!Writing
        <5> QED BY <5>1 DEF Stack!Finished
      <4> QED BY <2>1, <2>4, <3>1, <4>1 DEF Stack!Given
    <3>2. CASE v4'[s].foreign
      BY <3>2 DEF Stack!Given
    <3>3. CASE ~v4'[s].foreign /\ v4[s].pc # "idle"
      <4>1. ~v4[s].foreign /\ v4[s].env = v4[r].env /\ Stack!Entries(s) = Stack!Entries(r)
        BY <1>3, <1>6, <3>3 DEF Stack!Entries
      <4>2. ASSUME NEW i \in 1..Len(Stack!Entries(s)), v2[Stack!Entries(s)[i].id].payload = Stack!Payload(Stack!Entries(s)[i])
            PROVE  /\ v2'[Stack!Entries(s)[i].id].payload = Stack!Payload(Stack!Entries(s)[i])
                   /\ Stack!Served(Stack!Entries(s)[i]) => Stack!Served(Stack!Entries(s)[i])'
        <5>1. CASE Stack!Entries(s)[i].id = id
          <6>1. Stack!Entries(s)[i] = Stack!Entry(r)
            BY <1>1, <4>1, <5>1, StackEntries DEF Stack!Entry, Stack!Safe
          <6>2. v2[id] # Stack!Missing
            BY <4>2, <5>1, StackPayload DEF Stack!Missing
          <6> QED BY <1>5, <2>3, <4>2, <5>1, <6>1, <6>2 DEF Stack!Served
        <5>2. CASE Stack!Entries(s)[i].id # id
          BY <1>5, <2>3, <4>2, <5>2, StackEntries DEF Stack!Served, Stack!Safe
        <5> QED BY <5>1, <5>2
      <4>3. v4[s].i \in 1..Len(Stack!Entries(s)) /\ Stack!Finished(s) \subseteq 1..Len(Stack!Entries(s))
        BY <2>2 DEF Stack!RunSafe, Stack!Progress, Stack!Finished
      <4>4. v4[s].pc = "secret" => v2'[Stack!Entry(s).id].payload = Stack!Payload(Stack!Entry(s))
        BY <2>2, <4>1, <4>2, <4>3 DEF Stack!RunSafe, Stack!Given, Stack!Entry
      <4>5. \A i \in Stack!Finished(s) : Stack!Served(Stack!Entries(s)[i])'
        BY <2>2, <2>3, <4>1, <4>2, <4>3 DEF Stack!RunSafe, Stack!Given, Stack!Served
      <4> QED BY <2>1, <2>3, <2>4, <4>4, <4>5 DEF Stack!Given, Stack!Served
    <3> QED BY <3>1, <3>2, <3>3
  <2> QED BY <2>5, <2>6 DEF Stack!RunSafe
<1> QED BY <1>4, <1>6 DEF Stack!Safe
LEMMA StackReach == ASSUME Stack!Assumed, Stack!Safe, NEW r \in StackRun, Stack!Reach(r) PROVE Stack!Safe'
<1>1. UNCHANGED <<v1, v2, v3, v5, v6>> /\ v4[r] \in Stack!Runs
  BY DEF Stack!Reach, Stack!Keep, Stack!Safe, Stack!Types
<1>2. PICK k \in Stack!Runs : /\ v4' = [v4 EXCEPT ![r] = k]
                              /\ k.env = v4[r].env /\ k.i = v4[r].i /\ k.bad = v4[r].bad /\ k.foreign = v4[r].foreign
                              /\ k.pc \in {"realm", "failed"} \/ (k.pc = "killbill" /\ k.silent)
  <2> DEFINE go(pc) == [v4[r] EXCEPT !.pc = pc]
             silent == [v4[r] EXCEPT !.pc = "killbill", !.silent = TRUE]
  <2>1. go("realm") \in Stack!Runs /\ go("failed") \in Stack!Runs /\ silent \in Stack!Runs
    BY <1>1 DEF Stack!Runs, Stack!Place
  <2>2. v4' = [v4 EXCEPT ![r] = go("realm")] \/ v4' = [v4 EXCEPT ![r] = go("failed")] \/ v4' = [v4 EXCEPT ![r] = silent]
    BY DEF Stack!Reach, Stack!Move, Stack!Silent
  <2> QED BY <1>1, <2>1, <2>2 DEF Stack!Runs
<1>3. v4'[r] = k
  BY <1>2 DEF Stack!Safe, Stack!Types
<1>4. Stack!Types'
  BY <1>1, <1>2 DEF Stack!Safe, Stack!Types
<1>5. Stack!RunSafe(r)'
  <2>1. \A i \in Stack!Finished(r) : v2'[Stack!Entries(r)[i].id] = v2[Stack!Entries(r)[i].id]
    BY <1>1
  <2>2. /\ v4'[r].env = v4[r].env /\ v4'[r].i = v4[r].i /\ v4'[r].bad = v4[r].bad /\ v4'[r].foreign = v4[r].foreign
        /\ v4'[r].pc \in {"realm", "failed"} \/ (v4'[r].pc \in {"killbill", "done"} /\ v4'[r].silent)
    BY <1>2, <1>3
  <2> QED BY <1>1, <1>4, <2>1, <2>2, StackNoPromise
<1> QED BY <1>1, <1>2, <1>5, StackMoves DEF Stack!Safe, Stack!Types
\* A run that moves to another place and writes nothing.
LEMMA StackMoved ==
  ASSUME Stack!Types, NEW r \in StackRun, NEW pc \in Stack!Place, NEW silent \in {v4[r].silent, TRUE}
  PROVE  LET k == [v4[r] EXCEPT !.pc = pc, !.silent = silent]
         IN /\ k \in Stack!Runs /\ k.pc = pc /\ k.silent = silent
            /\ k.env = v4[r].env /\ k.i = v4[r].i /\ k.bad = v4[r].bad /\ k.foreign = v4[r].foreign
            /\ k.rep = v4[r].rep /\ k.stale = v4[r].stale
            /\ (Stack!Move(r, pc) /\ silent = v4[r].silent => v4' = [v4 EXCEPT ![r] = k])
            /\ (Stack!Silent(r, pc) /\ silent = TRUE => v4' = [v4 EXCEPT ![r] = k])
            /\ v4' = [v4 EXCEPT ![r] = k] => v4'[r] = k
<1> DEFINE k == [v4[r] EXCEPT !.pc = pc, !.silent = silent]
<1>1. v4 \in [StackRun -> Stack!Runs] /\ v4[r] \in Stack!Runs
  BY DEF Stack!Types
<1>2. silent \in BOOLEAN
  BY <1>1 DEF Stack!Runs
<1>3. /\ k \in Stack!Runs /\ k.pc = pc /\ k.silent = silent
      /\ k.env = v4[r].env /\ k.i = v4[r].i /\ k.bad = v4[r].bad /\ k.foreign = v4[r].foreign
      /\ k.rep = v4[r].rep /\ k.stale = v4[r].stale
  BY <1>1, <1>2 DEF Stack!Runs
<1>4. silent = v4[r].silent => [v4[r] EXCEPT !.pc = pc] = k
  BY <1>1 DEF Stack!Runs
<1>5. Stack!Move(r, pc) => v4' = [v4 EXCEPT ![r] = [v4[r] EXCEPT !.pc = pc]]
  BY DEF Stack!Move
<1>6. Stack!Silent(r, pc) => v4' = [v4 EXCEPT ![r] = [v4[r] EXCEPT !.pc = pc, !.silent = TRUE]]
  BY DEF Stack!Silent
<1>7. v4' = [v4 EXCEPT ![r] = k] => v4'[r] = k
  BY <1>1
<1> QED BY <1>3, <1>4, <1>5, <1>6, <1>7

LEMMA StackAfterType ==
  ASSUME Stack!Safe, NEW r \in StackRun, NEW bad \in {v4[r].bad, v4[r].bad \cup {v4[r].i}}
  PROVE  Stack!After(r, bad) \in Stack!Runs
<1>1. v4[r] \in Stack!Runs /\ bad \in SUBSET Nat
  BY DEF Stack!Safe, Stack!Types, Stack!Runs
<1> DEFINE i == IF v4[r].i = Len(Stack!Entries(r)) THEN v4[r].i ELSE v4[r].i + 1
           pc == IF ~(v4[r].i = Len(Stack!Entries(r))) THEN "query" ELSE IF bad = {} THEN "urls" ELSE "failed"
<1>2. i \in Nat /\ pc \in Stack!Place
  BY <1>1 DEF Stack!Runs, Stack!Place, Stack!Looping, Stack!Shaping
<1>3. Stack!After(r, bad) = [v4[r] EXCEPT !.i = i, !.bad = bad, !.pc = pc]
  BY DEF Stack!After
<1> HIDE DEF i, pc
<1> QED BY <1>1, <1>2, <1>3 DEF Stack!Runs

\* An entry that is in error, or is done without a write.
LEMMA StackNext ==
  ASSUME Stack!Assumed, Stack!Safe, NEW r \in StackRun, v4[r].pc \in Stack!Looping, UNCHANGED <<v1, v2, v3, v5, v6>>,
         \/ Stack!BadEntry(r)
         \/ Stack!NextEntry(r) /\ v4[r].pc = "secret" /\ Stack!Secret(Stack!Entry(r)) = 0
  PROVE  Stack!Safe'
<1>1. PICK bad \in {v4[r].bad, v4[r].bad \cup {v4[r].i}} :
        /\ v4' = [v4 EXCEPT ![r] = Stack!After(r, bad)]
        /\ v4[r].i \in bad \/ (v4[r].pc = "secret" /\ Stack!Secret(Stack!Entry(r)) = 0)
  BY DEF Stack!BadEntry, Stack!NextEntry
<1>2. Stack!After(r, bad) \in Stack!Runs
  BY StackAfterType
<1>3. Stack!Types' /\ v4'[r] = Stack!After(r, bad)
  BY <1>1, <1>2 DEF Stack!Safe, Stack!Types
<1>4. \/ v4[r].foreign \/ v4[r].i \in bad
      \/ /\ v2'[Stack!Entry(r).id].payload = Stack!Payload(Stack!Entry(r))
         /\ Stack!Secret(Stack!Entry(r)) # 0 => v2'[Stack!Entry(r).id].secret = Stack!Secret(Stack!Entry(r))
  BY <1>1 DEF Stack!Safe, Stack!RunSafe, Stack!Given
<1>5. \A i \in Stack!Finished(r) : v2'[Stack!Entries(r)[i].id] = v2[Stack!Entries(r)[i].id]
  OBVIOUS
<1>6. Stack!RunSafe(r)'
  BY <1>1, <1>3, <1>4, <1>5, StackAfter
<1> QED BY <1>1, <1>2, <1>6, StackMoves DEF Stack!Safe, Stack!Types

LEMMA StackQuery ==
  ASSUME Stack!Assumed, Stack!Safe, NEW r \in StackRun, Stack!ClientsToken(r) \/ Stack!QueryClient(r) PROVE Stack!Safe'
<1>1. UNCHANGED <<v1, v2, v3, v5, v6>> /\ v4[r].pc \in {"token", "query"} /\ Stack!Types
  BY DEF Stack!ClientsToken, Stack!QueryClient, Stack!Keep, Stack!At, Stack!Safe
<1>2. CASE Stack!BadEntry(r) /\ v4[r].pc = "query"
  BY <1>1, <1>2, StackNext DEF Stack!Looping
<1>3. ASSUME NEW pc \in {"query", "put", "post", "failed"}, Stack!Move(r, pc), pc \in {"put", "post"} => v1.exists
      PROVE  Stack!Safe'
  <2> DEFINE k == [v4[r] EXCEPT !.pc = pc, !.silent = v4[r].silent]
  <2>1. /\ k \in Stack!Runs /\ k.pc = pc /\ v4' = [v4 EXCEPT ![r] = k] /\ v4'[r] = k
        /\ k.env = v4[r].env /\ k.i = v4[r].i /\ k.bad = v4[r].bad /\ k.foreign = v4[r].foreign
    <3>1. pc \in Stack!Place
      BY DEF Stack!Place, Stack!Looping
    <3> QED BY <1>1, <1>3, <3>1, StackMoved
  <2> HIDE DEF k
  <2>2. Stack!Types'
    BY <1>1, <2>1 DEF Stack!Types
  <2>3. \A i \in Stack!Finished(r) : v2'[Stack!Entries(r)[i].id] = v2[Stack!Entries(r)[i].id]
    BY <1>1
  <2>4. Stack!RunSafe(r)'
    <3>1. CASE pc = "failed"
      BY <1>1, <2>1, <2>2, <2>3, <3>1, StackNoPromise
    <3>2. CASE pc # "failed"
      <4>1. v4[r].pc \in {"token"} \cup Stack!Looping /\ pc \in Stack!Looping /\ pc # "secret"
        BY <1>1, <1>3, <3>2 DEF Stack!Looping
      <4> QED BY <1>1, <1>3, <2>1, <2>2, <2>3, <3>2, <4>1, StackGoesOn
    <3> QED BY <3>1, <3>2
  <2> QED BY <1>1, <2>1, <2>4, StackMoves DEF Stack!Types
<1> QED BY <1>2, <1>3 DEF Stack!ClientsToken, Stack!QueryClient, Stack!At
\* A write to the client of the entry at work, and where the run goes on from it.
LEMMA StackWrites ==
  ASSUME Stack!Assumed, Stack!Safe, NEW r \in StackRun, v4[r].pc \in {"put", "post", "secret"}, UNCHANGED <<v1, v3, v5, v6>>,
         NEW c \in Stack!Clients, v2' = [v2 EXCEPT ![Stack!Entry(r).id] = c],
         c.payload \in {v2[Stack!Entry(r).id].payload, Stack!Payload(Stack!Entry(r))},
         \/ v2[Stack!Entry(r).id] = Stack!Missing \/ c.secret = v2[Stack!Entry(r).id].secret
         \/ c.secret = Stack!Secret(Stack!Entry(r)),
         \/ Stack!BadWrite(r) \/ Stack!Writes(r, "failed")
         \/ Stack!Writes(r, "secret") /\ c.payload = Stack!Payload(Stack!Entry(r))
         \/ /\ Stack!Others(r, Stack!After(r, v4[r].bad)) /\ v4[r].pc = "secret"
            /\ c = [v2[Stack!Entry(r).id] EXCEPT !.secret = Stack!Secret(Stack!Entry(r))]
  PROVE  Stack!Safe'
<1> DEFINE id == Stack!Entry(r).id
<1>0. v4[r].pc \in Stack!Looping /\ v1.exists
  BY DEF Stack!Looping, Stack!Met, Stack!Safe, Stack!RunSafe, Stack!Progress
<1>1. v4[r].i \in 1..Len(Stack!Entries(r)) /\ id \in StackClient /\ Stack!Types
  BY StackEntries DEF Stack!Safe, Stack!RunSafe, Stack!Progress, Stack!Entry
<1>2. v2'[id] = c /\ \A d \in StackClient : d # id => v2'[d] = v2[d]
  BY <1>1 DEF Stack!Types
<1>3. \A i \in Stack!Finished(r) : v2'[Stack!Entries(r)[i].id] = v2[Stack!Entries(r)[i].id]
  BY <1>0, <1>2, StackApart
<1>4. ASSUME NEW bad \in {v4[r].bad, v4[r].bad \cup {v4[r].i}}, Stack!Others(r, Stack!After(r, bad)),
             \/ v4[r].i \in bad
             \/ /\ v4[r].pc = "secret"
                /\ c = [v2[id] EXCEPT !.secret = Stack!Secret(Stack!Entry(r))]
      PROVE  Stack!Safe'
  <2>1. Stack!After(r, bad) \in Stack!Runs
    BY StackAfterType
  <2>2. v4'[r] = Stack!After(r, bad)
    BY <1>4 DEF Stack!Others
  <2>3. \/ v4[r].foreign \/ v4[r].i \in bad
        \/ /\ v2'[id].payload = Stack!Payload(Stack!Entry(r))
           /\ Stack!Secret(Stack!Entry(r)) # 0 => v2'[id].secret = Stack!Secret(Stack!Entry(r))
    <3>1. CASE c = [v2[id] EXCEPT !.secret = Stack!Secret(Stack!Entry(r))] /\ v4[r].pc = "secret"
      <4>1. v2[id] \in Stack!Clients
        BY <1>1 DEF Stack!Types
      <4>2. c.payload = v2[id].payload /\ c.secret = Stack!Secret(Stack!Entry(r))
        BY <3>1, <4>1 DEF Stack!Clients
      <4>3. v4[r].foreign \/ v2[id].payload = Stack!Payload(Stack!Entry(r))
        BY <3>1 DEF Stack!Safe, Stack!RunSafe, Stack!Given
      <4> QED BY <1>2, <4>2, <4>3
    <3> QED BY <1>4, <3>1
  <2>4. Stack!Types' => Stack!RunSafe(r)'
    BY <1>0, <1>3, <2>2, <2>3, StackAfter
  <2> QED BY <1>0, <1>4, <2>1, <2>4, StackGives
<1>5. ASSUME NEW pc \in {"failed", "secret"}, Stack!Writes(r, pc),
             pc = "secret" => c.payload = Stack!Payload(Stack!Entry(r))
      PROVE  Stack!Safe'
  <2> DEFINE k == [v4[r] EXCEPT !.pc = pc]
  <2>1. /\ k \in Stack!Runs /\ k.pc = pc
        /\ k.env = v4[r].env /\ k.i = v4[r].i /\ k.bad = v4[r].bad /\ k.foreign = v4[r].foreign
    <3>1. pc \in Stack!Place /\ v4[r] \in Stack!Runs
      BY <1>1 DEF Stack!Place, Stack!Looping, Stack!Types
    <3> QED BY <3>1 DEF Stack!Runs
  <2>2. Stack!Others(r, k)
    BY <1>5 DEF Stack!Writes
  <2> HIDE DEF k
  <2>3. v4'[r] = k
    BY <2>2 DEF Stack!Others
  <2>4. ASSUME Stack!Types' PROVE Stack!RunSafe(r)'
    <3>1. CASE pc = "failed"
      BY <1>3, <2>1, <2>3, <2>4, <3>1, StackNoPromise
    <3>2. CASE pc = "secret"
      <4>1. v4[r].pc \in {"token"} \cup Stack!Looping /\ pc \in Stack!Looping
        BY <3>2 DEF Stack!Looping
      <4> QED BY <1>0, <1>2, <1>3, <1>5, <2>1, <2>3, <2>4, <3>2, <4>1, StackGoesOn
    <3> QED BY <3>1, <3>2
  <2> QED BY <1>0, <2>1, <2>2, <2>4, StackGives
<1>6. CASE Stack!BadWrite(r)
  BY <1>4, <1>6 DEF Stack!BadWrite
<1>7. CASE Stack!Others(r, Stack!After(r, v4[r].bad)) /\ v4[r].pc = "secret"
           /\ c = [v2[id] EXCEPT !.secret = Stack!Secret(Stack!Entry(r))]
  BY <1>4, <1>7
<1> QED BY <1>5, <1>6, <1>7

\* The kinds of client that a step may write are clients.
LEMMA StackKinds ==
  ASSUME Stack!Assumed, Stack!Safe, NEW r \in StackRun
  PROVE  LET c == v2[Stack!Entry(r).id]
             payload == Stack!Payload(Stack!Entry(r))
             secret == Stack!Secret(Stack!Entry(r))
         IN /\ Stack!Entry(r).id \in StackClient /\ c \in Stack!Clients
            /\ [c EXCEPT !.payload = payload] \in Stack!Clients
            /\ [c EXCEPT !.payload = payload].payload = payload /\ [c EXCEPT !.payload = payload].secret = c.secret
            /\ [c EXCEPT !.secret = secret] \in Stack!Clients
            /\ [c EXCEPT !.secret = secret].payload = c.payload /\ [c EXCEPT !.secret = secret].secret = secret
            /\ [payload |-> payload, secret |-> 9] \in Stack!Clients
<1>1. Stack!Entry(r).id \in StackClient /\ Stack!Entry(r) \in Stack!AllEntries
  BY StackEntries DEF Stack!Safe, Stack!RunSafe, Stack!Progress, Stack!Entry
<1>2. v2[Stack!Entry(r).id] \in Stack!Clients
  BY <1>1 DEF Stack!Safe, Stack!Types
<1> QED BY <1>1, <1>2 DEF Stack!Clients

LEMMA StackPut == ASSUME Stack!Assumed, Stack!Safe, NEW r \in StackRun, Stack!PutClient(r) PROVE Stack!Safe'
<1> DEFINE id == Stack!Entry(r).id
           c == [v2[id] EXCEPT !.payload = Stack!Payload(Stack!Entry(r))]
<1>1. v4[r].pc \in Stack!Looping /\ v4[r].pc = "put" /\ UNCHANGED <<v1, v3, v5, v6>>
  BY DEF Stack!PutClient, Stack!Looping, Stack!At
<1>2. CASE Stack!BadEntry(r) /\ UNCHANGED v2
  BY <1>1, <1>2, StackNext
<1>3. CASE v2' = Stack!Put(r) /\ (Stack!Writes(r, "secret") \/ Stack!BadWrite(r))
  <2>1. v2' = [v2 EXCEPT ![id] = c]
    BY <1>3 DEF Stack!Put
  <2>2. c \in Stack!Clients /\ c.payload = Stack!Payload(Stack!Entry(r)) /\ c.secret = v2[id].secret
    BY StackKinds
  <2> HIDE DEF c
  <2> QED BY <1>1, <1>3, <2>1, <2>2, StackWrites
<1> QED BY <1>2, <1>3 DEF Stack!PutClient

LEMMA StackPost == ASSUME Stack!Assumed, Stack!Safe, NEW r \in StackRun, Stack!PostClient(r) PROVE Stack!Safe'
<1> DEFINE id == Stack!Entry(r).id
           c == [payload |-> Stack!Payload(Stack!Entry(r)), secret |-> 9]
<1>1. v4[r].pc \in Stack!Looping /\ v4[r].pc = "post" /\ UNCHANGED <<v1, v3, v5, v6>>
  BY DEF Stack!PostClient, Stack!Looping, Stack!At
<1>2. CASE Stack!BadEntry(r) /\ UNCHANGED v2
  BY <1>1, <1>2, StackNext
<1>3. CASE /\ v2[id] = Stack!Missing /\ v2' = Stack!Post(r)
           /\ Stack!Writes(r, "secret") \/ Stack!BadWrite(r) \/ Stack!Writes(r, "failed")
  <2>1. v2' = [v2 EXCEPT ![id] = c]
    BY <1>3 DEF Stack!Post
  <2>2. c \in Stack!Clients /\ c.payload = Stack!Payload(Stack!Entry(r))
    BY StackKinds
  <2> HIDE DEF c
  <2> QED BY <1>1, <1>3, <2>1, <2>2, StackWrites
<1> QED BY <1>2, <1>3 DEF Stack!PostClient

LEMMA StackSecret == ASSUME Stack!Assumed, Stack!Safe, NEW r \in StackRun, Stack!SetSecret(r) PROVE Stack!Safe'
<1> DEFINE id == Stack!Entry(r).id
           c == [v2[id] EXCEPT !.secret = Stack!Secret(Stack!Entry(r))]
<1>1. v4[r].pc \in Stack!Looping /\ v4[r].pc = "secret" /\ UNCHANGED <<v1, v3, v5, v6>>
  BY DEF Stack!SetSecret, Stack!Looping, Stack!At
<1>2. CASE UNCHANGED v2 /\ (Stack!BadEntry(r) \/ (Stack!NextEntry(r) /\ Stack!Secret(Stack!Entry(r)) = 0))
  BY <1>1, <1>2, StackNext
<1>3. CASE v2' = [v2 EXCEPT ![id].secret = Stack!Secret(Stack!Entry(r))]
           /\ (Stack!Others(r, Stack!After(r, v4[r].bad)) \/ Stack!BadWrite(r))
  <2>1. v2' = [v2 EXCEPT ![id] = c]
    BY <1>3
  <2>2. c \in Stack!Clients /\ c.payload = v2[id].payload /\ c.secret = Stack!Secret(Stack!Entry(r))
    BY StackKinds
  <2> QED BY <1>1, <1>3, <2>1, <2>2, StackWrites
<1> QED BY <1>2, <1>3 DEF Stack!SetSecret
\* A write to the realm that another run hears of, or that does not touch what it wants.
LEMMA StackHears ==
  ASSUME Stack!Safe, NEW s \in StackRun, v4[s] \in Stack!Runs, v1.exists => v1'.exists, UNCHANGED <<v2, v3>>, v5 => v5',
         NEW k \in Stack!Runs, v4'[s] = k, k = [v4[s] EXCEPT !.foreign = k.foreign, !.stale = k.stale],
         v4[s].foreign => k.foreign, v4[s].stale \/ (v4[s].pc \in Stack!Writing /\ v1' # v1) => k.stale,
         \/ v5' \/ k.foreign \/ v4[s].pc = "idle"
         \/ v1'.urls \in {v1.urls, v4[s].env.urls} /\ v1'.theme \in {v1.theme, v4[s].env.theme}
  PROVE  Stack!RunSafe(s)'
<1>1. /\ v4'[s].env = v4[s].env /\ v4'[s].pc = v4[s].pc /\ v4'[s].i = v4[s].i /\ v4'[s].bad = v4[s].bad
      /\ v4'[s].rep = v4[s].rep /\ v4'[s].silent = v4[s].silent /\ v4'[s].stale = k.stale /\ v4'[s].foreign = k.foreign
  BY DEF Stack!Runs
<1>2. Stack!RunSafe(s)
  BY DEF Stack!Safe
<1>3. Stack!Entries(s)' = Stack!Entries(s) /\ Stack!PastLoop(s)' = Stack!PastLoop(s) /\ Stack!Ended(s)' = Stack!Ended(s)
  BY <1>1 DEF Stack!PastLoop, Stack!Ended, Stack!Entries
<1>4. Stack!Finished(s)' = Stack!Finished(s) /\ Stack!Entry(s)' = Stack!Entry(s)
  BY <1>1, <1>3 DEF Stack!Finished, Stack!Entry
<1>5. Stack!Progress(s)'
  BY <1>1, <1>2, <1>3, <1>4 DEF Stack!RunSafe, Stack!Progress, Stack!Met
<1>6. Stack!Given(s)'
  BY <1>1, <1>2, <1>3, <1>4 DEF Stack!RunSafe, Stack!Given, Stack!Served
<1>7. Stack!ReadTrue(s)'
  BY <1>1, <1>2 DEF Stack!RunSafe, Stack!ReadTrue
<1>8. Stack!Shaped(s)'
  <2>1. CASE v4[s].pc = "idle"
    BY <1>1, <2>1 DEF Stack!Shaped, Stack!Ended
  <2>2. CASE v4[s].pc # "idle"
    BY <1>1, <1>2, <1>3, <2>2 DEF Stack!Shaped, Stack!RunSafe
  <2> QED BY <2>1, <2>2
<1> QED BY <1>5, <1>6, <1>7, <1>8 DEF Stack!RunSafe

\* What Heard leaves of a record.
LEMMA StackHeard ==
  ASSUME Stack!Types, NEW r \in StackRun, NEW s \in StackRun
  PROVE  LET k == Stack!Heard(r, s)
         IN /\ k \in Stack!Runs /\ k = [v4[s] EXCEPT !.foreign = k.foreign, !.stale = k.stale]
            /\ k.foreign <=> v4[s].foreign \/ (v4[s].pc # "idle" /\ v4[s].env # v4[r].env)
            /\ k.stale <=> v4[s].stale \/ (v4[s].pc \in Stack!Writing /\ v1' # v1)
<1> DEFINE f == v4[s].foreign \/ (v4[s].pc # "idle" /\ v4[s].env # v4[r].env)
           t == Stack!Missed(s)
<1>1. v4[s] \in Stack!Runs
  BY DEF Stack!Types
<1>2. f \in BOOLEAN /\ t \in BOOLEAN
  BY DEF Stack!Missed
<1>3. t <=> v4[s].stale \/ (v4[s].pc \in Stack!Writing /\ v1' # v1)
  BY DEF Stack!Missed, Stack!Writing
<1>4. Stack!Heard(r, s) = [v4[s] EXCEPT !.foreign = f, !.stale = t]
  BY DEF Stack!Heard
<1>5. f <=> v4[s].foreign \/ (v4[s].pc # "idle" /\ v4[s].env # v4[r].env)
  OBVIOUS
<1> HIDE DEF f, t
<1>6. Stack!Heard(r, s) \in Stack!Runs /\ Stack!Heard(r, s).foreign = f /\ Stack!Heard(r, s).stale = t
  BY <1>1, <1>2, <1>4 DEF Stack!Runs
<1> QED BY <1>3, <1>4, <1>5, <1>6

\* A write of run r to the realm, with what it makes of its own record.
LEMMA StackRealm ==
  ASSUME Stack!Safe, NEW r \in StackRun, NEW k \in Stack!Runs, Stack!Others(r, k), v1' \in Stack!Realms,
         v1.exists => v1'.exists, UNCHANGED <<v2, v3, v6>>, v5' \in BOOLEAN, v5 => v5', v5' \/ v1'.other = v1.other,
         \/ v5'
         \/ v1'.urls \in {v1.urls, v4[r].env.urls} /\ v1'.theme \in {v1.theme, v4[r].env.theme},
         Stack!Types' => Stack!RunSafe(r)'
  PROVE  Stack!Safe'
<1>1. \A s \in StackRun : v4'[s] = IF s = r THEN k ELSE Stack!Heard(r, s)
  BY DEF Stack!Others
<1>2. Stack!Types
  BY DEF Stack!Safe
<1>3. \A s \in StackRun : v4'[s] \in Stack!Runs
  <2>1. ASSUME NEW s \in StackRun PROVE Stack!Heard(r, s) \in Stack!Runs
    BY <1>2, StackHeard
  <2> QED BY <1>1, <2>1
<1>4. v4' \in [StackRun -> Stack!Runs]
  BY <1>3 DEF Stack!Others
<1>5. Stack!Types'
  BY <1>2, <1>4 DEF Stack!Types
<1>6. Stack!EditsKept'
  BY DEF Stack!Safe, Stack!EditsKept
<1>7. ASSUME NEW s \in StackRun, s # r PROVE Stack!RunSafe(s)'
  <2>1. v4'[s] = Stack!Heard(r, s) /\ v4[s] \in Stack!Runs
    BY <1>1, <1>2, <1>7 DEF Stack!Types
  <2> DEFINE h == Stack!Heard(r, s)
  <2>2. /\ h \in Stack!Runs /\ h = [v4[s] EXCEPT !.foreign = h.foreign, !.stale = h.stale]
        /\ h.foreign <=> v4[s].foreign \/ (v4[s].pc # "idle" /\ v4[s].env # v4[r].env)
        /\ h.stale <=> v4[s].stale \/ (v4[s].pc \in Stack!Writing /\ v1' # v1)
    BY <1>2, StackHeard
  <2> HIDE DEF h
  <2>3. v4'[s] = h
    BY <2>1 DEF h
  <2>4. \/ v5' \/ h.foreign \/ v4[s].pc = "idle"
        \/ v1'.urls \in {v1.urls, v4[s].env.urls} /\ v1'.theme \in {v1.theme, v4[s].env.theme}
    BY <2>2
  <2>5. (v4[s].foreign => h.foreign) /\ (v4[s].stale \/ (v4[s].pc \in Stack!Writing /\ v1' # v1) => h.stale)
    BY <2>2
  <2> QED BY <2>1, <2>2, <2>3, <2>4, <2>5, StackHears
<1> QED BY <1>5, <1>6, <1>7 DEF Stack!Safe

LEMMA StackEnsure == ASSUME Stack!Assumed, Stack!Safe, NEW r \in StackRun, Stack!EnsureRealm(r) PROVE Stack!Safe'
<1>1. UNCHANGED <<v2, v3, v5, v6>> /\ v4[r].pc = "realm" /\ Stack!Types /\ v4[r] \in Stack!Runs
  BY DEF Stack!EnsureRealm, Stack!At, Stack!Safe, Stack!Types
<1>2. \A i \in Stack!Finished(r) : v2'[Stack!Entries(r)[i].id] = v2[Stack!Entries(r)[i].id]
  BY <1>1
<1> DEFINE K(pc) == [v4[r] EXCEPT !.pc = pc]
           S == [v4[r] EXCEPT !.pc = "killbill", !.silent = TRUE]
           made == [v1 EXCEPT !.exists = TRUE]
<1>3. K("token") \in Stack!Runs /\ K("failed") \in Stack!Runs /\ S \in Stack!Runs
  BY <1>1 DEF Stack!Runs, Stack!Place
<1>4. made \in Stack!Realms /\ made.exists /\ made.urls = v1.urls /\ made.theme = v1.theme /\ made.other = v1.other
  BY <1>1 DEF Stack!Types, Stack!Realms
<1>5. ASSUME NEW k \in {K("token"), K("failed"), S}, v1.exists => v1'.exists, v4'[r] = k, Stack!Types'
      PROVE  Stack!RunSafe(r)'
  <2>1. /\ k.env = v4[r].env /\ k.i = v4[r].i /\ k.bad = v4[r].bad /\ k.foreign = v4[r].foreign
        /\ k.pc \in {"token", "failed"} \/ (k.pc = "killbill" /\ k.silent)
    <3>1. CASE k = K("token")
      BY <1>1, <1>5, <3>1 DEF Stack!Runs
    <3>2. CASE k = K("failed")
      BY <1>1, <3>2 DEF Stack!Runs
    <3>3. CASE k = S
      BY <1>1, <3>3 DEF Stack!Runs
    <3> QED BY <3>1, <3>2, <3>3
  <2> HIDE DEF K, S
  <2> QED BY <1>2, <1>5, <2>1, StackNoPromise
<1>6. CASE v1' = v1 /\ \E k \in {K("token"), K("failed"), S} : v4' = [v4 EXCEPT ![r] = k]
  <2>1. PICK k \in {K("token"), K("failed"), S} : v4' = [v4 EXCEPT ![r] = k]
    BY <1>6
  <2>2. k \in Stack!Runs /\ v4'[r] = k /\ Stack!Types'
    BY <1>1, <1>3, <1>6, <2>1 DEF Stack!Types
  <2>3. Stack!RunSafe(r)'
    BY <1>5, <1>6, <2>1, <2>2
  <2> QED BY <1>1, <1>6, <2>1, <2>2, <2>3, StackMoves DEF Stack!Types
<1>7. CASE v1' = made /\ Stack!Writes(r, "token")
  <2>1. Stack!Others(r, K("token"))
    BY <1>7 DEF Stack!Writes
  <2>2. v4'[r] = K("token")
    BY <2>1 DEF Stack!Others
  <2>3. Stack!Types' => Stack!RunSafe(r)'
    BY <1>4, <1>5, <1>7, <2>2
  <2> HIDE DEF K
  <2> QED BY <1>1, <1>3, <1>4, <1>7, <2>1, <2>3, StackRealm DEF Stack!Types
<1>8. CASE v1' = made /\ ~v1.exists /\ Stack!Silent(r, "killbill")
  <2>1. v4' = [v4 EXCEPT ![r] = S]
    BY <1>8 DEF Stack!Silent
  <2>2. v4'[r] = S /\ Stack!Types' /\ Stack!EditsKept'
    BY <1>1, <1>3, <1>4, <1>8, <2>1 DEF Stack!Types, Stack!EditsKept, Stack!Safe
  <2>3. Stack!RunSafe(r)'
    <3> HIDE DEF K, S, made
    <3> QED BY <1>4, <1>5, <1>8, <2>2
  <2>4. ASSUME NEW s \in StackRun, s # r PROVE Stack!RunSafe(s)'
    <3>1. v4'[s] = v4[s] /\ v4[s] \in Stack!Runs /\ Stack!RunSafe(s)
      BY <1>1, <2>1, <2>4 DEF Stack!Types, Stack!Safe
    <3>2. v4[s].pc \notin Stack!Writing
      BY <1>8, <3>1 DEF Stack!RunSafe, Stack!Progress, Stack!Met, Stack!PastLoop, Stack!Shaping
    <3>3. v4[s].foreign \in BOOLEAN /\ v4[s].stale \in BOOLEAN /\ v4[s] = [v4[s] EXCEPT !.foreign = v4[s].foreign, !.stale = v4[s].stale]
      BY <3>1 DEF Stack!Runs
    <3> HIDE DEF made
    <3> QED BY <1>1, <1>4, <1>8, <3>1, <3>2, <3>3, StackHears
  <2> QED BY <2>2, <2>3, <2>4 DEF Stack!Safe
<1>9. CASE (Stack!Move(r, "token") \/ Stack!Move(r, "failed") \/ Stack!Silent(r, "killbill")) /\ UNCHANGED v1
  BY <1>6, <1>9 DEF Stack!Move, Stack!Silent
<1> QED BY <1>7, <1>8, <1>9 DEF Stack!EnsureRealm
\* A run that has been through the loop and goes on.
LEMMA StackStays ==
  ASSUME Stack!Assumed, Stack!Safe, NEW r \in StackRun, Stack!PastLoop(r),
         v4'[r].env = v4[r].env, v4'[r].i = v4[r].i, v4'[r].bad = v4[r].bad, v4'[r].foreign = v4[r].foreign,
         v4'[r].pc \notin Stack!Looping \cup {"idle"}, v2' = v2, v1'.exists,
         v4'[r].pc = "done" /\ ~v4'[r].silent => v3'
  PROVE  Stack!Progress(r)' /\ Stack!Given(r)'
<1>1. Stack!Entries(r)' = Stack!Entries(r) /\ Stack!RunSafe(r)
  BY DEF Stack!Entries, Stack!Safe
<1>2. Stack!Finished(r)' \subseteq Stack!Finished(r)
  BY <1>1 DEF Stack!Finished
<1>3. Stack!Progress(r)'
  BY <1>1 DEF Stack!RunSafe, Stack!Progress
<1>4. Stack!Given(r)'
  BY <1>1, <1>2 DEF Stack!Given, Stack!RunSafe, Stack!Served, Stack!Looping
<1> QED BY <1>3, <1>4

LEMMA StackRead == ASSUME Stack!Assumed, Stack!Safe, NEW r \in StackRun, Stack!ReadRealm(r) PROVE Stack!Safe'
<1>1. /\ UNCHANGED <<v1, v2, v3, v5, v6>> /\ v4[r].pc \in {"urls", "theme"} /\ Stack!Types /\ v4[r] \in Stack!Runs
      /\ Stack!RunSafe(r)
  BY DEF Stack!ReadRealm, Stack!Keep, Stack!Safe, Stack!Types
<1> DEFINE right == v1[Stack!Field(v4[r].pc)] = v4[r].env[Stack!Field(v4[r].pc)]
           next == IF right THEN Stack!Then(v4[r].pc) ELSE Stack!Putting(v4[r].pc)
           k == [v4[r] EXCEPT !.rep = v1, !.stale = FALSE, !.pc = next]
           gone == [v4[r] EXCEPT !.pc = "failed"]
<1>2. v4' = [v4 EXCEPT ![r] = k] \/ v4' = [v4 EXCEPT ![r] = gone]
  BY DEF Stack!ReadRealm, Stack!Move
<1>3. CASE v4' = [v4 EXCEPT ![r] = gone]
  <2>1. /\ gone \in Stack!Runs /\ gone.env = v4[r].env /\ gone.i = v4[r].i /\ gone.bad = v4[r].bad
        /\ gone.foreign = v4[r].foreign /\ gone.pc = "failed"
    BY <1>1 DEF Stack!Runs, Stack!Place
  <2> HIDE DEF gone
  <2>2. v4'[r] = gone /\ Stack!Types'
    BY <1>1, <1>3, <2>1 DEF Stack!Types
  <2>3. \A i \in Stack!Finished(r) : v2'[Stack!Entries(r)[i].id] = v2[Stack!Entries(r)[i].id]
    BY <1>1
  <2>4. Stack!RunSafe(r)'
    BY <1>1, <2>1, <2>2, <2>3, StackNoPromise
  <2> QED BY <1>1, <1>3, <2>1, <2>4, StackMoves DEF Stack!Types
<1>4. CASE v4' = [v4 EXCEPT ![r] = k]
  <2>1. /\ v4[r].pc = "urls" => next = IF v1.urls = v4[r].env.urls THEN "theme" ELSE "put urls"
        /\ v4[r].pc = "theme" => next = IF v1.theme = v4[r].env.theme THEN "killbill" ELSE "put theme"
    BY <1>1 DEF Stack!Field, Stack!Then, Stack!Putting
  <2> HIDE DEF next
  <2>2. next \in {"theme", "put urls", "killbill", "put theme"} /\ v1 \in Stack!Realms
    BY <1>1, <2>1 DEF Stack!Types
  <2>3. /\ k \in Stack!Runs /\ k.env = v4[r].env /\ k.i = v4[r].i /\ k.bad = v4[r].bad /\ k.silent = v4[r].silent
        /\ k.foreign = v4[r].foreign /\ k.pc = next /\ k.rep = v1
    BY <1>1, <2>2 DEF Stack!Runs, Stack!Place, Stack!Shaping, Stack!Writing
  <2> HIDE DEF k
  <2>4. v4'[r] = k
    BY <1>1, <1>4 DEF Stack!Types
  <2>5. Stack!PastLoop(r) /\ v1.exists
    BY <1>1 DEF Stack!PastLoop, Stack!Shaping, Stack!RunSafe, Stack!Progress, Stack!Met
  <2>6. Stack!Progress(r)' /\ Stack!Given(r)'
    <3>1. next \notin Stack!Looping \cup {"idle"} /\ next # "done"
      BY <2>2 DEF Stack!Looping
    <3> QED BY <1>1, <2>3, <2>4, <2>5, <3>1, StackStays
  <2>7. Stack!ReadTrue(r)'
    BY <1>1, <2>3, <2>4, <2>5 DEF Stack!ReadTrue
  <2>8. Stack!Shaped(r)'
    BY <1>1, <2>1, <2>2, <2>3, <2>4 DEF Stack!RunSafe, Stack!Shaped, Stack!Ended
  <2> QED BY <1>1, <1>4, <2>3, <2>6, <2>7, <2>8, StackMoves DEF Stack!Types, Stack!RunSafe
<1> QED BY <1>2, <1>3, <1>4

LEMMA StackWriteRealm == ASSUME Stack!Assumed, Stack!Safe, NEW r \in StackRun, Stack!WriteRealm(r) PROVE Stack!Safe'
<1>1. /\ UNCHANGED <<v2, v3, v6>> /\ v4[r].pc \in Stack!Writing /\ Stack!Types /\ v4[r] \in Stack!Runs
      /\ Stack!RunSafe(r) /\ v5 \in BOOLEAN
  BY DEF Stack!WriteRealm, Stack!Safe, Stack!Types, Stack!Writing
<1> DEFINE rep == v4[r].rep
           urls == v4[r].pc = "put urls"
           K(pc) == [v4[r] EXCEPT !.pc = pc]
<1>2. rep \in Stack!Realms /\ rep.exists /\ (v4[r].stale \/ rep = v1) /\ v4[r].stale \in BOOLEAN
      /\ v4[r].env.urls \in Stack!Value /\ v4[r].env.theme \in Stack!Value
  BY <1>1 DEF Stack!RunSafe, Stack!ReadTrue, Stack!Runs, Stack!Value
<1>3. /\ Stack!Representation(r) = IF urls THEN [rep EXCEPT !.urls = v4[r].env.urls] ELSE [rep EXCEPT !.theme = v4[r].env.theme]
      /\ Stack!Then(v4[r].pc) = IF urls THEN "theme" ELSE "killbill"
  BY <1>1 DEF Stack!Representation, Stack!Field, Stack!Then, Stack!Writing
<1>4. /\ Stack!Representation(r) \in Stack!Realms /\ Stack!Representation(r).exists
      /\ Stack!Representation(r).other = rep.other
      /\ Stack!Representation(r).urls = IF urls THEN v4[r].env.urls ELSE rep.urls
      /\ Stack!Representation(r).theme = IF urls THEN rep.theme ELSE v4[r].env.theme
  BY <1>2, <1>3 DEF Stack!Realms
<1>5. ASSUME NEW pc \in {"theme", "killbill", "failed"}
      PROVE  /\ K(pc) \in Stack!Runs /\ K(pc).env = v4[r].env /\ K(pc).i = v4[r].i /\ K(pc).bad = v4[r].bad
             /\ K(pc).foreign = v4[r].foreign /\ K(pc).silent = v4[r].silent /\ K(pc).pc = pc
  BY <1>1 DEF Stack!Runs, Stack!Place, Stack!Shaping
<1>6. \A i \in Stack!Finished(r) : v2'[Stack!Entries(r)[i].id] = v2[Stack!Entries(r)[i].id]
  BY <1>1
<1>7. ASSUME Stack!Types', v4'[r] = K("failed"), v1.exists => v1'.exists PROVE Stack!RunSafe(r)'
  <2> HIDE DEF K
  <2> QED BY <1>5, <1>6, <1>7, StackNoPromise
<1>8. CASE UNCHANGED <<v1, v5>> /\ Stack!Move(r, "failed")
  <2>1. v4' = [v4 EXCEPT ![r] = K("failed")]
    BY <1>8 DEF Stack!Move
  <2> HIDE DEF K
  <2>2. v4'[r] = K("failed") /\ Stack!Types'
    BY <1>1, <1>5, <1>8, <2>1 DEF Stack!Types
  <2> QED BY <1>1, <1>5, <1>7, <1>8, <2>1, <2>2, StackMoves DEF Stack!Types
<1>9. ASSUME v1' = Stack!Representation(r), v5' = (v5 \/ v4[r].stale),
             NEW pc \in {Stack!Then(v4[r].pc), "failed"}, Stack!Writes(r, pc)
      PROVE  Stack!Safe'
  <2>1. Stack!Others(r, K(pc)) /\ pc \in {"theme", "killbill", "failed"}
    BY <1>3, <1>9 DEF Stack!Writes
  <2>2. v4'[r] = K(pc)
    BY <2>1 DEF Stack!Others
  <2>3. v5' \in BOOLEAN /\ (v5 => v5') /\ (v4[r].stale => v5')
    BY <1>1, <1>2, <1>9
  <2>4. v5' \/ rep = v1
    BY <1>2, <2>3
  <2>5. ASSUME Stack!Types' PROVE Stack!RunSafe(r)'
    <3>1. CASE pc = "failed"
      BY <1>4, <1>7, <1>9, <2>2, <2>5, <3>1
    <3>2. CASE pc # "failed"
      <4>1. pc = (IF urls THEN "theme" ELSE "killbill")
        BY <1>3, <3>2
      <4> HIDE DEF K
      <4>2. Stack!PastLoop(r) /\ pc \notin Stack!Looping \cup {"idle", "done"}
        BY <1>1, <2>1 DEF Stack!PastLoop, Stack!Shaping, Stack!Looping
      <4>3. Stack!Progress(r)' /\ Stack!Given(r)'
        <5>1. /\ v4'[r].env = v4[r].env /\ v4'[r].i = v4[r].i /\ v4'[r].bad = v4[r].bad
              /\ v4'[r].foreign = v4[r].foreign /\ v4'[r].pc \notin Stack!Looping \cup {"idle", "done"}
          BY <1>5, <2>1, <2>2, <4>2
        <5>2. v2' = v2 /\ v1'.exists
          BY <1>1, <1>4, <1>9
        <5> QED BY <4>2, <5>1, <5>2, StackStays
      <4>4. Stack!ReadTrue(r)'
        BY <1>5, <2>1, <2>2 DEF Stack!ReadTrue, Stack!Writing
      <4>5. Stack!Shaped(r)'
        <5>1. v4'[r].pc = pc /\ v4'[r].env = v4[r].env /\ v4'[r].foreign = v4[r].foreign
          BY <1>5, <2>1, <2>2
        <5>2. CASE urls
          BY <1>4, <1>9, <4>1, <5>1, <5>2 DEF Stack!Shaped, Stack!Ended
        <5>3. CASE ~urls
          <6>1. v4[r].pc = "put theme"
            BY <1>1, <5>3 DEF Stack!Writing
          <6>2. ~v4[r].foreign /\ ~v5' => v1'.urls = v4[r].env.urls
            BY <1>1, <1>4, <1>9, <2>3, <2>4, <5>3, <6>1 DEF Stack!RunSafe, Stack!Shaped
          <6> QED BY <1>4, <1>9, <4>1, <5>1, <5>3, <6>2 DEF Stack!Shaped
        <5> QED BY <5>2, <5>3
      <4> QED BY <4>3, <4>4, <4>5 DEF Stack!RunSafe
    <3> QED BY <3>1, <3>2
  <2>6. v1' \in Stack!Realms /\ v1'.exists /\ (v5' \/ v1'.other = v1.other)
    BY <1>4, <1>9, <2>4
  <2>7. \/ v5'
        \/ v1'.urls \in {v1.urls, v4[r].env.urls} /\ v1'.theme \in {v1.theme, v4[r].env.theme}
    BY <1>4, <1>9, <2>4
  <2>8. K(pc) \in Stack!Runs
    BY <1>5, <2>1
  <2> HIDE DEF K
  <2> QED BY <1>1, <2>1, <2>3, <2>5, <2>6, <2>7, <2>8, StackRealm
<1> QED BY <1>8, <1>9 DEF Stack!WriteRealm
LEMMA StackTenant == ASSUME Stack!Assumed, Stack!Safe, NEW r \in StackRun, Stack!Tenant(r) PROVE Stack!Safe'
<1>1. /\ UNCHANGED <<v1, v2, v5, v6>> /\ v4[r].pc = "killbill" /\ Stack!Types /\ v4[r] \in Stack!Runs
      /\ Stack!RunSafe(r) /\ v3' \in BOOLEAN /\ (v3 => v3')
  BY DEF Stack!Tenant, Stack!At, Stack!Safe, Stack!Types
<1> DEFINE K(pc) == [v4[r] EXCEPT !.pc = pc]
           S == [v4[r] EXCEPT !.pc = "done", !.silent = TRUE]
<1>2. \/ v4' = [v4 EXCEPT ![r] = K("done")] /\ v3' = TRUE
      \/ v4' = [v4 EXCEPT ![r] = S]
      \/ v4' = [v4 EXCEPT ![r] = K("failed")]
  BY DEF Stack!Tenant, Stack!Move, Stack!Silent
<1>3. ASSUME NEW pc \in {"done", "failed"}
      PROVE  /\ K(pc) \in Stack!Runs /\ K(pc).env = v4[r].env /\ K(pc).i = v4[r].i /\ K(pc).bad = v4[r].bad
             /\ K(pc).foreign = v4[r].foreign /\ K(pc).silent = v4[r].silent /\ K(pc).pc = pc
  BY <1>1 DEF Stack!Runs, Stack!Place
<1>4. /\ S \in Stack!Runs /\ S.env = v4[r].env /\ S.i = v4[r].i /\ S.bad = v4[r].bad
      /\ S.foreign = v4[r].foreign /\ S.silent /\ S.pc = "done"
  BY <1>1 DEF Stack!Runs, Stack!Place
<1> HIDE DEF K, S
<1>5. PICK k \in Stack!Runs :
        /\ v4' = [v4 EXCEPT ![r] = k] /\ k.env = v4[r].env /\ k.i = v4[r].i /\ k.bad = v4[r].bad
        /\ k.foreign = v4[r].foreign /\ k.pc \in {"done", "failed"}
        /\ k.pc = "failed" \/ k.silent \/ (k.silent = v4[r].silent /\ v3')
  BY <1>2, <1>3, <1>4
<1>6. v4'[r] = k /\ Stack!Types'
  BY <1>1, <1>5 DEF Stack!Types
<1>7. Stack!RunSafe(r)'
  <2>1. CASE k.pc = "failed" \/ k.silent
    <3>1. \A i \in Stack!Finished(r) : v2'[Stack!Entries(r)[i].id] = v2[Stack!Entries(r)[i].id]
      BY <1>1
    <3> QED BY <1>1, <1>5, <1>6, <2>1, <3>1, StackNoPromise
  <2>2. CASE ~(k.pc = "failed" \/ k.silent)
    <3>1. Stack!PastLoop(r) /\ Stack!Ended(r) /\ ~v4[r].silent /\ v3' /\ k.pc = "done"
      BY <1>1, <1>5, <2>2 DEF Stack!PastLoop, Stack!Ended
    <3>2. v1'.exists /\ k.pc \notin Stack!Looping \cup {"idle"}
      BY <1>1, <3>1 DEF Stack!RunSafe, Stack!Progress, Stack!Met, Stack!Looping
    <3>3. Stack!Progress(r)' /\ Stack!Given(r)'
      BY <1>1, <1>5, <1>6, <3>1, <3>2, StackStays
    <3>4. Stack!ReadTrue(r)'
      BY <1>6, <3>1 DEF Stack!ReadTrue, Stack!Writing
    <3>5. Stack!Shaped(r)'
      BY <1>1, <1>5, <1>6, <3>1 DEF Stack!RunSafe, Stack!Shaped
    <3> QED BY <3>3, <3>4, <3>5 DEF Stack!RunSafe
  <2> QED BY <2>1, <2>2
<1> QED BY <1>1, <1>5, <1>7, StackMoves

LEMMA StackAdminister == ASSUME Stack!Assumed, Stack!Safe, Stack!Administer PROVE Stack!Safe'
<1>1. UNCHANGED <<v3, v5>> /\ Stack!Types /\ v1.exists
  BY DEF Stack!Administer, Stack!Safe
<1>2. CASE /\ v1' = [v1 EXCEPT !.other = @ + 1] /\ v6' = v6 + 1 /\ v2' = v2
           /\ v4' = [r \in StackRun |-> [v4[r] EXCEPT !.stale = Stack!Missed(r)]]
  <2>1. /\ v1' \in Stack!Realms /\ v1'.exists = v1.exists /\ v1'.urls = v1.urls /\ v1'.theme = v1.theme
        /\ v1'.other = v1.other + 1
    <3>1. v1 \in Stack!Realms /\ v1.other \in Nat
      BY <1>1 DEF Stack!Types, Stack!Realms
    <3>2. v1' = [v1 EXCEPT !.other = v1.other + 1] /\ v1.other + 1 \in Nat
      BY <1>2, <3>1
    <3> QED BY <3>1, <3>2 DEF Stack!Realms
  <2>2. ASSUME NEW s \in StackRun
        PROVE  /\ v4'[s] \in Stack!Runs
               /\ v4'[s] = [v4[s] EXCEPT !.foreign = v4'[s].foreign, !.stale = v4'[s].stale]
               /\ v4'[s].foreign = v4[s].foreign
               /\ v4'[s].stale <=> v4[s].stale \/ (v4[s].pc \in Stack!Writing /\ v1' # v1)
    <3> DEFINE t == Stack!Missed(s)
    <3>1. v4[s] \in Stack!Runs /\ t \in BOOLEAN
      BY <1>1 DEF Stack!Types, Stack!Missed
    <3>2. t <=> v4[s].stale \/ (v4[s].pc \in Stack!Writing /\ v1' # v1)
      BY DEF Stack!Missed, Stack!Writing
    <3>3. v4'[s] = [v4[s] EXCEPT !.stale = t]
      BY <1>2
    <3> HIDE DEF t
    <3>4. v4'[s] \in Stack!Runs /\ v4'[s].stale = t /\ v4'[s].foreign = v4[s].foreign
      BY <3>1, <3>3 DEF Stack!Runs
    <3>5. v4'[s] = [v4[s] EXCEPT !.foreign = v4'[s].foreign, !.stale = v4'[s].stale]
      BY <3>1, <3>3, <3>4 DEF Stack!Runs
    <3> QED BY <3>2, <3>4, <3>5
  <2>3. Stack!Types'
    <3>1. v4' \in [StackRun -> Stack!Runs]
      BY <1>2, <2>2
    <3>2. v6' \in Nat /\ v2' = v2
      BY <1>1, <1>2 DEF Stack!Types
    <3> QED BY <1>1, <2>1, <3>1, <3>2 DEF Stack!Types
  <2>4. Stack!EditsKept'
    BY <1>1, <1>2, <2>1 DEF Stack!EditsKept, Stack!Safe
  <2>5. ASSUME NEW s \in StackRun PROVE Stack!RunSafe(s)'
    <3>1. v4[s] \in Stack!Runs
      BY <1>1 DEF Stack!Types
    <3>2. v4[s].foreign => v4'[s].foreign
      BY <2>2
    <3> QED BY <1>1, <1>2, <2>1, <2>2, <3>1, <3>2, StackHears
  <2> QED BY <2>3, <2>4, <2>5 DEF Stack!Safe
<1>3. CASE \E c \in StackClient : /\ v2' = [v2 EXCEPT ![c] = Stack!Missing] /\ UNCHANGED <<v1, v6>>
             /\ v4' = [r \in StackRun |-> [v4[r] EXCEPT !.foreign = v4[r].pc # "idle"]]
  <2>1. PICK c \in StackClient : v2' = [v2 EXCEPT ![c] = Stack!Missing]
    BY <1>3
  <2>2. v4' = [r \in StackRun |-> [v4[r] EXCEPT !.foreign = v4[r].pc # "idle"]] /\ UNCHANGED <<v1, v6>>
    BY <1>3
  <2>3. ASSUME NEW s \in StackRun
        PROVE  /\ v4'[s] \in Stack!Runs /\ v4'[s].env = v4[s].env /\ v4'[s].pc = v4[s].pc /\ v4'[s].i = v4[s].i
               /\ v4'[s].bad = v4[s].bad /\ v4'[s].rep = v4[s].rep /\ v4'[s].silent = v4[s].silent
               /\ v4'[s].stale = v4[s].stale /\ (v4'[s].foreign <=> v4[s].pc # "idle")
    <3>1. v4[s] \in Stack!Runs
      BY <1>1 DEF Stack!Types
    <3> QED BY <2>2, <3>1 DEF Stack!Runs
  <2>4. Stack!Missing \in Stack!Clients
    BY DEF Stack!Missing, Stack!Clients
  <2>5. Stack!Types' /\ Stack!EditsKept'
    BY <1>1, <2>1, <2>2, <2>3, <2>4 DEF Stack!Types, Stack!EditsKept, Stack!Safe
  <2>6. ASSUME NEW s \in StackRun PROVE Stack!RunSafe(s)'
    <3>1. Stack!RunSafe(s)
      BY DEF Stack!Safe
    <3>2. Stack!Entries(s)' = Stack!Entries(s) /\ Stack!PastLoop(s)' = Stack!PastLoop(s)
      BY <2>3 DEF Stack!PastLoop, Stack!Ended, Stack!Entries
    <3>3. Stack!Progress(s)' /\ Stack!ReadTrue(s)'
      BY <1>1, <2>2, <2>3, <3>1, <3>2 DEF Stack!RunSafe, Stack!Progress, Stack!ReadTrue
    <3>4. CASE v4[s].pc = "idle"
      <4>1. ~Stack!PastLoop(s)' /\ ~Stack!Ended(s)' /\ v4'[s].i = 1
        BY <2>3, <3>1, <3>4 DEF Stack!PastLoop, Stack!Ended, Stack!Shaping, Stack!Writing, Stack!RunSafe, Stack!Progress
      <4>2. Stack!Finished(s)' = {}
        BY <4>1 DEF Stack!Finished
      <4>3. Stack!Given(s)' /\ Stack!Shaped(s)'
        BY <2>3, <3>4, <4>1, <4>2 DEF Stack!Given, Stack!Shaped
      <4> QED BY <3>3, <4>3 DEF Stack!RunSafe
    <3>5. CASE v4[s].pc # "idle"
      BY <2>3, <3>3, <3>5 DEF Stack!RunSafe, Stack!Given, Stack!Shaped
    <3> QED BY <3>4, <3>5
  <2> QED BY <2>5, <2>6 DEF Stack!Safe
<1> QED BY <1>2, <1>3 DEF Stack!Administer

LEMMA StackStep == ASSUME Stack!Assumed, Stack!Safe, Stack!Next PROVE Stack!Safe'
<1>1. ASSUME NEW r \in StackRun, Stack!Step(r) PROVE Stack!Safe'
  BY <1>1, StackStart, StackReach, StackEnsure, StackQuery, StackPut, StackPost, StackSecret, StackRead,
     StackWriteRealm, StackTenant DEF Stack!Step
<1> QED BY <1>1, StackAdminister DEF Stack!Next

LEMMA StackSame ==
  ASSUME Stack!Safe, UNCHANGED <<v1, v2, v3, v4, v5, v6>> PROVE Stack!Safe'
<1>1. Stack!Types' /\ Stack!EditsKept'
  BY DEF Stack!Safe, Stack!Types, Stack!EditsKept
<1>2. ASSUME NEW s \in StackRun PROVE Stack!RunSafe(s)'
  BY DEF Stack!Safe, Stack!RunSafe, Stack!Progress, Stack!Met, Stack!ReadTrue, Stack!Given, Stack!Shaped, Stack!Finished,
     Stack!PastLoop, Stack!Ended, Stack!Entries, Stack!Entry, Stack!Served
<1> QED BY <1>1, <1>2 DEF Stack!Safe

\* What the two properties of the stack say is in the invariant.
LEMMA StackMeans == ASSUME Stack!Assumed, Stack!Safe PROVE Stack!StackAsEnv /\ Stack!EditsKept
<1>1. ASSUME NEW r \in StackRun, v4[r].pc = "done", ~v4[r].silent, ~v4[r].foreign, ~v5
      PROVE  /\ v1.exists /\ v1.urls = v4[r].env.urls /\ v1.theme = v4[r].env.theme /\ v3
             /\ \A i \in 1..Len(Stack!Entries(r)) : Stack!Served(Stack!Entries(r)[i])
  <2>1. Stack!RunSafe(r) /\ Stack!Ended(r) /\ Stack!PastLoop(r)
    BY <1>1 DEF Stack!Safe, Stack!Ended, Stack!PastLoop
  <2>2. Stack!Finished(r) = 1..Len(Stack!Entries(r))
    BY <2>1 DEF Stack!Finished, Stack!RunSafe, Stack!Progress
  <2> QED BY <1>1, <2>1, <2>2 DEF Stack!RunSafe, Stack!Progress, Stack!Met, Stack!Given, Stack!Shaped
<1>2. ASSUME NEW r \in StackRun, v4[r].pc = "failed", ~v4[r].foreign, NEW i \in 1..v4[r].i - 1, i \notin v4[r].bad
      PROVE  Stack!Served(Stack!Entries(r)[i])
  <2>1. Stack!RunSafe(r) /\ Len(Stack!Entries(r)) \in Nat /\ v4[r].i \in 1..Len(Stack!Entries(r))
    BY StackEntries DEF Stack!Safe, Stack!RunSafe, Stack!Progress
  <2>2. i \in Stack!Finished(r)
    BY <1>2, <2>1 DEF Stack!Finished
  <2> QED BY <1>2, <2>1, <2>2 DEF Stack!RunSafe, Stack!Given
<1> QED BY <1>1, <1>2 DEF Stack!StackAsEnv, Stack!Safe

-----------------------------------------------------------------------------
(* The redeploys: v1 to v8 are host, source, image, up, past, dir, proc and faults *)
(* of Redeploy.                                                                    *)

LEMMA DeployUnit ==
  ASSUME Deploy!Assumed
  PROVE  /\ Len(DeployUnits) \in Nat \ {0} /\ DOMAIN DeployUnits = 1..Len(DeployUnits)
         /\ 1 \in DOMAIN DeployUnits
         /\ \A i \in 1..Len(DeployUnits) : DeployUnits[i] \in Deploy!Unit
         /\ Deploy!Unit = {DeployUnits[i] : i \in 1..Len(DeployUnits)}
BY DEF Deploy!Assumed, Deploy!Unit

LEMMA DeployStaysMixed ==
  ASSUME NEW r \in Deploy!Runs, NEW c
  PROVE  [r EXCEPT !.crossed = c] = [r EXCEPT !.crossed = c, !.mixed = r.mixed]
<1>1. DOMAIN r = {"script", "mode", "pc", "i", "dir", "bad", "logs", "since", "fails", "seen", "crossed", "mixed"}
  BY DEF Deploy!Runs
<1>2. r = [x \in DOMAIN r |-> r[x]]
  BY DEF Deploy!Runs
<1> QED BY <1>1, <1>2

\* Nothing runs, and nothing is known to have failed.
LEMMA DeployInit == ASSUME Deploy!Assumed, Deploy!Init PROVE Deploy!Safe
<1>1. Deploy!NoLogs \in [Deploy!Unit -> {"none", "clean", "old", "error"}]
  BY DEF Deploy!NoLogs
<1>2. Deploy!Idle \in Deploy!Runs
  <2>1. 1 \in DOMAIN DeployUnits
    BY DeployUnit
  <2> QED BY <1>1, <2>1 DEF Deploy!Idle, Deploy!Runs
<1>3. Deploy!Types
  BY <1>1, <1>2 DEF Deploy!Types, Deploy!Init, Deploy!Fresh
<1>4. ASSUME NEW p \in DeployProc PROVE Deploy!RunSafe(p)
  <2>1. /\ v7[p].pc = "idle" /\ v7[p].mode = "none" /\ v7[p].script = "none" /\ ~v7[p].bad /\ v7[p].fails = {}
        /\ v7[p].logs = {} /\ \A u \in Deploy!Unit : v7[p].seen[u] = "none"
    BY DEF Deploy!Init, Deploy!Idle, Deploy!NoLogs
  <2>2. ~Deploy!Blamed(p) /\ ~Deploy!Scanned(p) /\ "old" \notin Deploy!Found(p)
    BY <2>1 DEF Deploy!Blamed, Deploy!Scanned, Deploy!Found
  <2>3. Deploy!Reached(p) = {}
    BY <2>1 DEF Deploy!Reached
  <2> QED BY <2>1, <2>2, <2>3 DEF Deploy!RunSafe, Deploy!Place, Deploy!Verdict, Deploy!LogsTrue, Deploy!Renewed
<1> QED BY <1>3, <1>4 DEF Deploy!Safe

\* The services that a run has reached are services.
LEMMA DeployReached ==
  ASSUME Deploy!Assumed, NEW p \in DeployProc, v7[p] \in Deploy!Runs
  PROVE  Deploy!Reached(p) \subseteq Deploy!Unit /\ (v7[p].pc = "idle" => Deploy!Reached(p) = {})
<1>1. v7[p].i \in 1..Len(DeployUnits)
  BY DeployUnit DEF Deploy!Runs
<1>2. Deploy!Restarted(p) \subseteq Deploy!Unit
  BY DeployUnit DEF Deploy!Restarted
<1>3. ASSUME NEW last \in {v7[p].i, v7[p].i - 1} PROVE {DeployUnits[j] : j \in 1..last} \subseteq Deploy!Unit
  BY <1>1, DeployUnit
<1> QED BY <1>2, <1>3 DEF Deploy!Reached

\* What another run, the services or the maintainers do leaves a run safe, if it
\* is told of the services and the logs that are written.
LEMMA DeployOther ==
  ASSUME Deploy!Assumed, Deploy!Safe, NEW q \in DeployProc, NEW k, v7'[q] = k,
         /\ k.script = v7[q].script /\ k.mode = v7[q].mode /\ k.pc = v7[q].pc /\ k.i = v7[q].i /\ k.dir = v7[q].dir
         /\ k.bad = v7[q].bad /\ k.logs = v7[q].logs /\ k.since = v7[q].since /\ k.fails = v7[q].fails
         /\ k.seen = v7[q].seen,
         v7[q].crossed \subseteq k.crossed, v7[q].mixed => k.mixed,
         v2' \in Nat, v2' >= v2, \A u \in Deploy!Unit : v3'[u] \in Nat /\ (v3'[u] = v3[u] \/ v3'[u] >= v2),
         v7[q].pc = "idle" \/ (\A u \in Deploy!Unit \ k.crossed : v4'[u].rev = v4[u].rev),
         v7[q].pc = "idle" \/ k.mixed \/ v6'[v7[q].dir] = v6[v7[q].dir]
  PROVE  Deploy!RunSafe(q)'
<1>1. Deploy!RunSafe(q) /\ Deploy!Types /\ v7[q] \in Deploy!Runs
  BY DEF Deploy!Safe, Deploy!Types
<1>2. v7[q].since \in Nat /\ v2 \in Nat /\ \A u \in Deploy!Unit : v3[u] \in Nat
  BY <1>1 DEF Deploy!Types, Deploy!Runs
<1>3. /\ Deploy!Blamed(q)' = Deploy!Blamed(q) /\ Deploy!Scanned(q)' = Deploy!Scanned(q)
      /\ Deploy!Found(q)' = Deploy!Found(q) /\ Deploy!Reached(q)' = Deploy!Reached(q)
  BY DEF Deploy!Blamed, Deploy!Lenient, Deploy!Scanned, Deploy!Found, Deploy!Reached, Deploy!Restarted
<1>4. Deploy!Place(q)'
  <2>1. v7[q].pc # "idle" => v7[q].since <= v2'
    <3>1. v7[q].pc # "idle" => v7[q].since <= v2
      BY <1>1 DEF Deploy!RunSafe, Deploy!Place
    <3>2. v7[q].since <= v2 => v7[q].since <= v2'
      BY <1>2
    <3> QED BY <3>1, <3>2
  <2>2. v7'[q].since = v7[q].since /\ v7'[q].pc = v7[q].pc /\ v7'[q].mode = v7[q].mode /\ v7'[q].script = v7[q].script
        /\ v7'[q].dir = v7[q].dir
    OBVIOUS
  <2> QED BY <1>1, <2>1, <2>2 DEF Deploy!RunSafe, Deploy!Place
<1>5. Deploy!Verdict(q)'
  BY <1>1, <1>3 DEF Deploy!RunSafe, Deploy!Verdict
<1>6. Deploy!LogsTrue(q)'
  BY <1>1, <1>3 DEF Deploy!RunSafe, Deploy!LogsTrue
<1>7. Deploy!Renewed(q)'
  <2>1. Deploy!Reached(q) \subseteq Deploy!Unit /\ (v7[q].pc = "idle" => Deploy!Reached(q) = {})
    BY <1>1, DeployReached DEF Deploy!Safe
  <2>2. v7[q].pc = "up" => v7[q].since <= v2
    BY <1>1 DEF Deploy!RunSafe, Deploy!Place
  <2> QED BY <1>1, <1>2, <1>3, <2>1, <2>2 DEF Deploy!RunSafe, Deploy!Renewed
<1> QED BY <1>4, <1>5, <1>6, <1>7 DEF Deploy!RunSafe
\* The same, for the record that a step of another run leaves.
LEMMA DeployHears ==
  ASSUME Deploy!Assumed, Deploy!Safe, NEW q \in DeployProc, NEW c \in SUBSET Deploy!Unit, NEW m \in BOOLEAN,
         v7'[q] = [v7[q] EXCEPT !.crossed = c, !.mixed = m], v7[q].crossed \subseteq c, v7[q].mixed => m, v2' = v2,
         \A u \in Deploy!Unit : v3'[u] \in Nat /\ (v3'[u] = v3[u] \/ v3'[u] >= v2),
         v7[q].pc = "idle" \/ (\A u \in Deploy!Unit \ c : v4'[u].rev = v4[u].rev),
         v7[q].pc = "idle" \/ m \/ v6'[v7[q].dir] = v6[v7[q].dir]
  PROVE  v7'[q] \in Deploy!Runs /\ Deploy!RunSafe(q)'
<1> DEFINE k == [v7[q] EXCEPT !.crossed = c, !.mixed = m]
<1>1. v7[q] \in Deploy!Runs /\ v2 \in Nat
  BY DEF Deploy!Safe, Deploy!Types
<1>2. k \in Deploy!Runs
  BY <1>1 DEF Deploy!Runs
<1>3. /\ k.script = v7[q].script /\ k.mode = v7[q].mode /\ k.pc = v7[q].pc /\ k.i = v7[q].i /\ k.dir = v7[q].dir
      /\ k.bad = v7[q].bad /\ k.logs = v7[q].logs /\ k.since = v7[q].since /\ k.fails = v7[q].fails
      /\ k.seen = v7[q].seen /\ k.crossed = c /\ k.mixed = m
  BY <1>1 DEF Deploy!Runs
<1>4. v7'[q] = k
  OBVIOUS
<1> HIDE DEF k
<1>5. v2' \in Nat /\ v2' >= v2
  BY <1>1
<1>6. Deploy!RunSafe(q)'
  BY <1>3, <1>4, <1>5, DeployOther
<1> QED BY <1>2, <1>4, <1>6

\* The maintainers and the services.
LEMMA DeployLive ==
  ASSUME Deploy!Assumed, Deploy!Safe, Deploy!ChangeSource \/ \E u \in Deploy!Unit : Deploy!Live(u) PROVE Deploy!Safe'
<1>1. v7' = v7 /\ v6' = v6 /\ v3' = v3 /\ Deploy!Types
  BY DEF Deploy!ChangeSource, Deploy!Live, Deploy!Safe
<1>2. v2' \in Nat /\ v2' >= v2 /\ v5' \in [Deploy!Unit -> BOOLEAN]
  <2>1. v2 \in Nat /\ v5 \in [Deploy!Unit -> BOOLEAN]
    BY <1>1 DEF Deploy!Types
  <2>2. v2' = v2 + 1 \/ v2' = v2
    BY DEF Deploy!ChangeSource, Deploy!Live
  <2>3. v5' = v5 \/ \E u \in Deploy!Unit : v5' = [v5 EXCEPT ![u] = FALSE]
    BY DEF Deploy!ChangeSource, Deploy!Live
  <2>4. v2' \in Nat /\ v2' >= v2
    BY <2>1, <2>2
  <2>5. v5' \in [Deploy!Unit -> BOOLEAN]
    BY <2>1, <2>3
  <2> QED BY <2>4, <2>5
<1>3. v4' \in [Deploy!Unit -> [rev : Nat, ok : BOOLEAN, err : BOOLEAN]] /\ \A u \in Deploy!Unit : v4'[u].rev = v4[u].rev
  <2>1. v4 \in [Deploy!Unit -> [rev : Nat, ok : BOOLEAN, err : BOOLEAN]]
    BY <1>1 DEF Deploy!Types
  <2>2. CASE v4' = v4
    BY <2>1, <2>2
  <2>3. CASE \E u \in Deploy!Unit : v4' = [v4 EXCEPT ![u].err = TRUE] \/ v4' = [v4 EXCEPT ![u].ok = FALSE]
    <3>0. PICK u \in Deploy!Unit : v4' = [v4 EXCEPT ![u].err = TRUE] \/ v4' = [v4 EXCEPT ![u].ok = FALSE]
      BY <2>3
    <3>1. PICK new \in {[v4[u] EXCEPT !.err = TRUE], [v4[u] EXCEPT !.ok = FALSE]} : v4' = [v4 EXCEPT ![u] = new]
      BY <3>0
    <3>2. new \in [rev : Nat, ok : BOOLEAN, err : BOOLEAN] /\ new.rev = v4[u].rev
      BY <2>1
    <3> QED BY <2>1, <3>1, <3>2
  <2> QED BY <2>2, <2>3 DEF Deploy!ChangeSource, Deploy!Live
<1>4. Deploy!Types'
  BY <1>1, <1>2, <1>3 DEF Deploy!Types
<1>5. ASSUME NEW q \in DeployProc PROVE Deploy!RunSafe(q)'
  <2>1. v7'[q] = v7[q] /\ \A u \in Deploy!Unit : v3'[u] \in Nat /\ (v3'[u] = v3[u] \/ v3'[u] >= v2)
    BY <1>1 DEF Deploy!Types
  <2> QED BY <1>1, <1>2, <1>3, <2>1, DeployOther
<1> QED BY <1>4, <1>5 DEF Deploy!Safe

LEMMA DeployFound == ASSUME NEW p \in DeployProc, v7'[p].seen = v7[p].seen PROVE Deploy!Found(p)' = Deploy!Found(p)
BY DEF Deploy!Found

\* A step that takes no log.
LEMMA DeployLogs ==
  ASSUME NEW p \in DeployProc, Deploy!LogsTrue(p), v6' = v6, v7[p].pc # "idle", v7'[p].pc # "idle",
         v7'[p].dir = v7[p].dir, v7'[p].logs = v7[p].logs, v7'[p].seen = v7[p].seen, v7'[p].mixed = v7[p].mixed,
         v7'[p].mode = v7[p].mode
  PROVE  Deploy!LogsTrue(p)'
<1>1. Deploy!Found(p)' = Deploy!Found(p)
  BY DeployFound
<1>2. \A u \in Deploy!Unit : v7'[p].seen[u] \in {"old", "error"} => u \in v7'[p].logs
  BY DEF Deploy!LogsTrue
<1>3. ~v7'[p].mixed => \A u \in v7'[p].logs : v6'[v7'[p].dir][u] = v7'[p].seen[u]
  BY DEF Deploy!LogsTrue
<1>4. "old" \in Deploy!Found(p)' => v7'[p].mode \in {"systemd", "fallback"}
  BY <1>1 DEF Deploy!LogsTrue
<1> QED BY <1>2, <1>3, <1>4 DEF Deploy!LogsTrue

\* A step that ends with Go.
LEMMA DeployGo ==
  ASSUME Deploy!Assumed, Deploy!Safe, NEW p \in DeployProc, NEW wrote \in SUBSET Deploy!Unit,
         v7'[p] \in Deploy!Runs, v7' = [q \in DeployProc |-> v7'[q]],
         v7'[p].dir = v7[p].dir, v7'[p].logs = v7[p].logs, v7'[p].seen = v7[p].seen, v7'[p].mixed = v7[p].mixed,
         v7'[p].mode = v7[p].mode, v7'[p].script = v7[p].script, v7'[p].since = v7[p].since,
         \A q \in DeployProc \ {p} :
           v7'[q] = [v7[q] EXCEPT !.crossed = v7[q].crossed \cup IF v7[q].pc = "idle" THEN {} ELSE wrote],
         UNCHANGED <<v2, v6>>, v5' \in [Deploy!Unit -> BOOLEAN], v3' \in [Deploy!Unit -> Nat], \A u \in Deploy!Unit : v3'[u] = v3[u] \/ v3'[u] >= v2,
         v4' \in [Deploy!Unit -> [rev : Nat, ok : BOOLEAN, err : BOOLEAN]],
         \A u \in Deploy!Unit \ wrote : v4'[u].rev = v4[u].rev,
         v7[p].pc # "idle", v7'[p].pc \in {"build", "up", "collect", "restart", "scan", "smoke", "dev scan", "end"},
         Deploy!Scanned(p)' <=> Deploy!Scanned(p),
         v7'[p].pc \in {"build", "up"} => v7[p].mode = "compose",
         v7'[p].pc = "restart" => v7[p].mode = "systemd", v7'[p].pc = "scan" => v7[p].script # "dev",
         \/ v7'[p].bad /\ v7'[p].fails \ Deploy!Lenient(p) # {}
         \/ (v7'[p].bad <=> v7[p].bad) /\ v7'[p].fails \ Deploy!Lenient(p) = v7[p].fails \ Deploy!Lenient(p),
         Deploy!Renewed(p)'
  PROVE  Deploy!Safe'
<1>1. Deploy!Types /\ v7[p] \in Deploy!Runs /\ Deploy!RunSafe(p)
  BY DEF Deploy!Safe, Deploy!Types
<1>2. ASSUME NEW q \in DeployProc, q # p PROVE v7'[q] \in Deploy!Runs /\ Deploy!RunSafe(q)'
  <2> DEFINE c == v7[q].crossed \cup IF v7[q].pc = "idle" THEN {} ELSE wrote
  <2>1. v7'[q] = [v7[q] EXCEPT !.crossed = c] /\ v7[q] \in Deploy!Runs
    BY <1>1, <1>2 DEF Deploy!Types
  <2>2. c \in SUBSET Deploy!Unit /\ v7[q].mixed \in BOOLEAN
    <3>1. v7[q] \in Deploy!Runs
      BY <2>1
    <3>2. v7[q].crossed \in SUBSET Deploy!Unit /\ v7[q].mixed \in BOOLEAN
      BY <3>1 DEF Deploy!Runs
    <3> QED BY <3>2
  <2>3. v7[q].crossed \subseteq c /\ (v7[q].pc # "idle" => wrote \subseteq c)
    OBVIOUS
  <2> HIDE DEF c
  <2>4. v7'[q] = [v7[q] EXCEPT !.crossed = c, !.mixed = v7[q].mixed]
    BY <2>1, DeployStaysMixed
  <2>5. v7[q].pc = "idle" \/ (\A u \in Deploy!Unit \ c : v4'[u].rev = v4[u].rev)
    BY <2>3
  <2>6. \A u \in Deploy!Unit : v3'[u] \in Nat /\ (v3'[u] = v3[u] \/ v3'[u] >= v2)
    OBVIOUS
  <2>7. v6'[v7[q].dir] = v6[v7[q].dir] /\ v2' = v2
    OBVIOUS
  <2> QED BY <2>2, <2>3, <2>4, <2>5, <2>6, <2>7, DeployHears
<1>4. Deploy!Types'
  <2>1. v7' \in [DeployProc -> Deploy!Runs]
    BY <1>2
  <2> QED BY <1>1, <2>1 DEF Deploy!Types
<1>5. Deploy!Place(p)'
  <2>1. v7[p].dir \in DeployDir /\ v7[p].since <= v2
    BY <1>1 DEF Deploy!RunSafe, Deploy!Place
  <2> QED BY <2>1 DEF Deploy!Place
<1>a. Deploy!Found(p)' = Deploy!Found(p)
  BY DeployFound
<1>b. Deploy!Lenient(p)' = Deploy!Lenient(p)
  BY DEF Deploy!Lenient
<1>6. Deploy!LogsTrue(p)'
  <2>1. Deploy!LogsTrue(p)
    BY <1>1 DEF Deploy!RunSafe
  <2>2. v7'[p].pc # "idle" /\ v6' = v6
    OBVIOUS
  <2> QED BY <2>1, <2>2, DeployLogs
<1>7. Deploy!Verdict(p)'
  <2>1. \/ v7'[p].bad /\ Deploy!Blamed(p)'
        \/ (v7'[p].bad <=> v7[p].bad) /\ (Deploy!Blamed(p)' <=> Deploy!Blamed(p))
    BY <1>b DEF Deploy!Blamed
  <2> QED BY <1>1, <1>a, <2>1 DEF Deploy!Verdict, Deploy!RunSafe
<1> QED BY <1>2, <1>4, <1>5, <1>6, <1>7 DEF Deploy!Safe, Deploy!RunSafe

LEMMA DeployBuild == ASSUME Deploy!Assumed, Deploy!Safe, NEW p \in DeployProc, Deploy!Build(p) PROVE Deploy!Safe'
<1>1. PICK built \in SUBSET Deploy!Unit :
        /\ v3' = [u \in Deploy!Unit |-> IF u \in built THEN v2 ELSE v3[u]]
        /\ Deploy!Go(p, "up", "build", built # Deploy!Unit, v7[p].script # "dev", {})
  BY DEF Deploy!Build
<1>2. v7[p].pc = "build" /\ UNCHANGED <<v2, v4, v5, v6>> /\ v7[p] \in Deploy!Runs /\ v2 \in Nat /\ Deploy!Types
      /\ v3 \in [Deploy!Unit -> Nat] /\ v4 \in [Deploy!Unit -> [rev : Nat, ok : BOOLEAN, err : BOOLEAN]] /\ v5 \in [Deploy!Unit -> BOOLEAN]
  BY DEF Deploy!Build, Deploy!Safe, Deploy!Types
<1>3. v7[p].mode = "compose" /\ v7[p].since <= v2 /\ v7[p].since \in Nat
  BY <1>2 DEF Deploy!Safe, Deploy!RunSafe, Deploy!Place, Deploy!Runs
<1>4. v7[p].script # "dev" <=> "build" \notin Deploy!Lenient(p)
  BY DEF Deploy!Lenient
<1> DEFINE bad == v7[p].bad \/ (built # Deploy!Unit /\ v7[p].script # "dev")
           fails == IF built # Deploy!Unit THEN v7[p].fails \cup {"build"} ELSE v7[p].fails
           next == "up"
           wrote == {}
           k == [v7[p] EXCEPT !.pc = next, !.i = 1, !.bad = bad, !.fails = fails]
<1>a. /\ v7' = [q \in DeployProc |-> v7'[q]] /\ v7'[p] = k
      /\ \A q \in DeployProc \ {p} :
           v7'[q] = [v7[q] EXCEPT !.crossed = v7[q].crossed \cup IF v7[q].pc = "idle" THEN {} ELSE wrote]
  BY <1>1 DEF Deploy!Go
<1>b. bad \in BOOLEAN /\ fails \in SUBSET {"services", "build", "up", "deps", "restart", "rebuild", "logs", "scanner", "smoke"}
      /\ 1 \in DOMAIN DeployUnits /\ next \in {"build", "up", "collect", "restart", "scan", "smoke", "dev scan", "end"}
  BY <1>2, DeployUnit DEF Deploy!Runs
<1>c. (bad <=> v7[p].bad \/ (built # Deploy!Unit /\ v7[p].script # "dev")) /\ (built # Deploy!Unit => fails = v7[p].fails \cup {"build"})
      /\ (~(built # Deploy!Unit) => fails = v7[p].fails) /\ next = "up" /\ wrote = {}
  OBVIOUS
<1> HIDE DEF bad, fails, next, wrote
<1>d. /\ k \in Deploy!Runs /\ k.bad = bad /\ k.fails = fails /\ k.pc = next /\ k.i = 1 /\ k.mode = v7[p].mode
      /\ k.script = v7[p].script /\ k.crossed = v7[p].crossed /\ k.since = v7[p].since
      /\ k.dir = v7[p].dir /\ k.logs = v7[p].logs /\ k.seen = v7[p].seen /\ k.mixed = v7[p].mixed
  <2>1. v7[p] \in Deploy!Runs
    BY <1>2
  <2> QED BY <1>b, <2>1 DEF Deploy!Runs
<1> HIDE DEF k
<1>5. /\ v7'[p] \in Deploy!Runs /\ v7'[p].bad = bad /\ v7'[p].fails = fails /\ v7'[p].pc = next /\ v7'[p].i = 1
      /\ v7'[p].mode = v7[p].mode /\ v7'[p].script = v7[p].script /\ v7'[p].crossed = v7[p].crossed
      /\ v7'[p].since = v7[p].since /\ v7'[p].dir = v7[p].dir /\ v7'[p].logs = v7[p].logs
      /\ v7'[p].seen = v7[p].seen /\ v7'[p].mixed = v7[p].mixed
  BY <1>a, <1>d
<1>6. Deploy!Scanned(p)' <=> Deploy!Scanned(p)
  BY <1>2, <1>5, <1>c DEF Deploy!Scanned
<1>7. Deploy!Renewed(p)'
  <2>1. Deploy!Reached(p)' = {}
    BY <1>5, <1>c DEF Deploy!Reached
  <2>2. "build" \in fails \/ \A u \in Deploy!Unit : v3'[u] >= v7[p].since
    <3>1. CASE built = Deploy!Unit
      <4>1. \A u \in Deploy!Unit : v3'[u] = v2
        BY <1>1, <3>1
      <4> QED BY <1>3, <4>1
    <3>2. CASE built # Deploy!Unit
      BY <1>c, <3>2
    <3> QED BY <3>1, <3>2
  <2> QED BY <1>5, <1>c, <2>1, <2>2 DEF Deploy!Renewed
<1>8. \/ v7'[p].bad /\ v7'[p].fails \ Deploy!Lenient(p) # {}
      \/ (v7'[p].bad <=> v7[p].bad) /\ v7'[p].fails \ Deploy!Lenient(p) = v7[p].fails \ Deploy!Lenient(p)
  BY <1>4, <1>5, <1>b, <1>c
<1>9. /\ wrote \in SUBSET Deploy!Unit /\ v3' \in [Deploy!Unit -> Nat] /\ \A u \in Deploy!Unit : v3'[u] = v3[u] \/ v3'[u] >= v2
  BY <1>1, <1>2, <1>c
<1> QED BY <1>2, <1>3, <1>5, <1>6, <1>7, <1>8, <1>9, <1>a, <1>c, DeployGo

LEMMA DeployUp == ASSUME Deploy!Assumed, Deploy!Safe, NEW p \in DeployProc, Deploy!Up(p) PROVE Deploy!Safe'
<1>1. PICK made \in SUBSET Deploy!Unit, rest \in {"kept", "down"} :
        /\ v4' = [u \in Deploy!Unit |-> IF u \in made THEN Deploy!Fresh(v3[u])
                                        ELSE IF rest = "kept" THEN v4[u] ELSE Deploy!Down]
        /\ Deploy!Go(p, "collect", "up", made # Deploy!Unit, TRUE, Deploy!Unit)
  BY DEF Deploy!Up
<1>2. v7[p].pc = "up" /\ UNCHANGED <<v2, v3, v5, v6>> /\ v7[p] \in Deploy!Runs /\ v2 \in Nat /\ Deploy!Types
      /\ v3 \in [Deploy!Unit -> Nat] /\ v4 \in [Deploy!Unit -> [rev : Nat, ok : BOOLEAN, err : BOOLEAN]] /\ v5 \in [Deploy!Unit -> BOOLEAN]
  BY DEF Deploy!Up, Deploy!Safe, Deploy!Types
<1>3. v7[p].mode = "compose" /\ Deploy!Renewed(p)
  BY <1>2 DEF Deploy!Safe, Deploy!RunSafe, Deploy!Place
<1>4. "up" \notin Deploy!Lenient(p)
  BY DEF Deploy!Lenient
<1> DEFINE bad == v7[p].bad \/ (made # Deploy!Unit /\ TRUE)
           fails == IF made # Deploy!Unit THEN v7[p].fails \cup {"up"} ELSE v7[p].fails
           next == "collect"
           wrote == Deploy!Unit
           k == [v7[p] EXCEPT !.pc = next, !.i = 1, !.bad = bad, !.fails = fails]
<1>a. /\ v7' = [q \in DeployProc |-> v7'[q]] /\ v7'[p] = k
      /\ \A q \in DeployProc \ {p} :
           v7'[q] = [v7[q] EXCEPT !.crossed = v7[q].crossed \cup IF v7[q].pc = "idle" THEN {} ELSE wrote]
  BY <1>1 DEF Deploy!Go
<1>b. bad \in BOOLEAN /\ fails \in SUBSET {"services", "build", "up", "deps", "restart", "rebuild", "logs", "scanner", "smoke"}
      /\ 1 \in DOMAIN DeployUnits /\ next \in {"build", "up", "collect", "restart", "scan", "smoke", "dev scan", "end"}
  BY <1>2, DeployUnit DEF Deploy!Runs
<1>c. (bad <=> v7[p].bad \/ (made # Deploy!Unit /\ TRUE)) /\ (made # Deploy!Unit => fails = v7[p].fails \cup {"up"})
      /\ (~(made # Deploy!Unit) => fails = v7[p].fails) /\ next = "collect" /\ wrote = Deploy!Unit
  OBVIOUS
<1> HIDE DEF bad, fails, next, wrote
<1>d. /\ k \in Deploy!Runs /\ k.bad = bad /\ k.fails = fails /\ k.pc = next /\ k.i = 1 /\ k.mode = v7[p].mode
      /\ k.script = v7[p].script /\ k.crossed = v7[p].crossed /\ k.since = v7[p].since
      /\ k.dir = v7[p].dir /\ k.logs = v7[p].logs /\ k.seen = v7[p].seen /\ k.mixed = v7[p].mixed
  <2>1. v7[p] \in Deploy!Runs
    BY <1>2
  <2> QED BY <1>b, <2>1 DEF Deploy!Runs
<1> HIDE DEF k
<1>5. /\ v7'[p] \in Deploy!Runs /\ v7'[p].bad = bad /\ v7'[p].fails = fails /\ v7'[p].pc = next /\ v7'[p].i = 1
      /\ v7'[p].mode = v7[p].mode /\ v7'[p].script = v7[p].script /\ v7'[p].crossed = v7[p].crossed
      /\ v7'[p].since = v7[p].since /\ v7'[p].dir = v7[p].dir /\ v7'[p].logs = v7[p].logs
      /\ v7'[p].seen = v7[p].seen /\ v7'[p].mixed = v7[p].mixed
  BY <1>a, <1>d
<1>6. Deploy!Scanned(p)' <=> Deploy!Scanned(p)
  BY <1>2, <1>5, <1>c DEF Deploy!Scanned
<1>7. Deploy!Renewed(p)'
  <2>1. SUFFICES ASSUME ~bad, "build" \notin fails PROVE \A u \in Deploy!Unit : v4'[u].rev >= v7[p].since
    <3>1. Deploy!Reached(p)' \subseteq Deploy!Unit
      BY <1>3, <1>5, <1>c DEF Deploy!Reached, Deploy!Restarted
    <3> QED BY <1>5, <1>c, <3>1 DEF Deploy!Renewed
  <2>2. made = Deploy!Unit /\ ~v7[p].bad /\ "build" \notin v7[p].fails
    BY <1>c, <2>1
  <2>3. \A u \in Deploy!Unit : v4'[u].rev = v3[u]
    BY <1>1, <2>2 DEF Deploy!Fresh
  <2>4. \A u \in Deploy!Unit : v3[u] >= v7[p].since
    BY <1>2, <1>3, <2>2 DEF Deploy!Renewed
  <2> QED BY <2>3, <2>4
<1>8. \/ v7'[p].bad /\ v7'[p].fails \ Deploy!Lenient(p) # {}
      \/ (v7'[p].bad <=> v7[p].bad) /\ v7'[p].fails \ Deploy!Lenient(p) = v7[p].fails \ Deploy!Lenient(p)
  BY <1>4, <1>5, <1>b, <1>c
<1>9. /\ wrote \in SUBSET Deploy!Unit /\ v3' \in [Deploy!Unit -> Nat] /\ \A u \in Deploy!Unit : v3'[u] = v3[u] \/ v3'[u] >= v2
  BY <1>2, <1>c
<1>10. v4' \in [Deploy!Unit -> [rev : Nat, ok : BOOLEAN, err : BOOLEAN]]
  BY <1>1, <1>2 DEF Deploy!Fresh, Deploy!Down
<1> QED BY <1>2, <1>3, <1>5, <1>6, <1>7, <1>8, <1>9, <1>10, <1>a, <1>c, DeployGo

LEMMA DeployDependencies == ASSUME Deploy!Assumed, Deploy!Safe, NEW p \in DeployProc, Deploy!Dependencies(p) PROVE Deploy!Safe'
<1>1. PICK failed \in BOOLEAN : Deploy!Go(p, "restart", "deps", failed, TRUE, {})
  BY DEF Deploy!Dependencies
<1>2. v7[p].pc = "deps" /\ UNCHANGED <<v2, v3, v4, v5, v6>> /\ v7[p] \in Deploy!Runs /\ v2 \in Nat /\ Deploy!Types
      /\ v3 \in [Deploy!Unit -> Nat] /\ v4 \in [Deploy!Unit -> [rev : Nat, ok : BOOLEAN, err : BOOLEAN]] /\ v5 \in [Deploy!Unit -> BOOLEAN]
  BY DEF Deploy!Dependencies, Deploy!Safe, Deploy!Types
<1>3. v7[p].mode = "systemd"
  BY <1>2 DEF Deploy!Safe, Deploy!RunSafe, Deploy!Place
<1>4. "deps" \notin Deploy!Lenient(p)
  BY DEF Deploy!Lenient
<1> DEFINE bad == v7[p].bad \/ (failed /\ TRUE)
           fails == IF failed THEN v7[p].fails \cup {"deps"} ELSE v7[p].fails
           next == "restart"
           wrote == {}
           k == [v7[p] EXCEPT !.pc = next, !.i = 1, !.bad = bad, !.fails = fails]
<1>a. /\ v7' = [q \in DeployProc |-> v7'[q]] /\ v7'[p] = k
      /\ \A q \in DeployProc \ {p} :
           v7'[q] = [v7[q] EXCEPT !.crossed = v7[q].crossed \cup IF v7[q].pc = "idle" THEN {} ELSE wrote]
  BY <1>1 DEF Deploy!Go
<1>b. bad \in BOOLEAN /\ fails \in SUBSET {"services", "build", "up", "deps", "restart", "rebuild", "logs", "scanner", "smoke"}
      /\ 1 \in DOMAIN DeployUnits /\ next \in {"build", "up", "collect", "restart", "scan", "smoke", "dev scan", "end"}
  BY <1>2, DeployUnit DEF Deploy!Runs
<1>c. (bad <=> v7[p].bad \/ (failed /\ TRUE)) /\ (failed => fails = v7[p].fails \cup {"deps"})
      /\ (~(failed) => fails = v7[p].fails) /\ next = "restart" /\ wrote = {}
  OBVIOUS
<1> HIDE DEF bad, fails, next, wrote
<1>d. /\ k \in Deploy!Runs /\ k.bad = bad /\ k.fails = fails /\ k.pc = next /\ k.i = 1 /\ k.mode = v7[p].mode
      /\ k.script = v7[p].script /\ k.crossed = v7[p].crossed /\ k.since = v7[p].since
      /\ k.dir = v7[p].dir /\ k.logs = v7[p].logs /\ k.seen = v7[p].seen /\ k.mixed = v7[p].mixed
  <2>1. v7[p] \in Deploy!Runs
    BY <1>2
  <2> QED BY <1>b, <2>1 DEF Deploy!Runs
<1> HIDE DEF k
<1>5. /\ v7'[p] \in Deploy!Runs /\ v7'[p].bad = bad /\ v7'[p].fails = fails /\ v7'[p].pc = next /\ v7'[p].i = 1
      /\ v7'[p].mode = v7[p].mode /\ v7'[p].script = v7[p].script /\ v7'[p].crossed = v7[p].crossed
      /\ v7'[p].since = v7[p].since /\ v7'[p].dir = v7[p].dir /\ v7'[p].logs = v7[p].logs
      /\ v7'[p].seen = v7[p].seen /\ v7'[p].mixed = v7[p].mixed
  BY <1>a, <1>d
<1>6. Deploy!Scanned(p)' <=> Deploy!Scanned(p)
  BY <1>2, <1>5, <1>c DEF Deploy!Scanned
<1>7. Deploy!Renewed(p)'
  <2>1. \A j \in 1..(v7'[p].i - 1) : FALSE
    <3>1. v7'[p].i = 1
      BY <1>5
    <3> QED BY <3>1
  <2>2. Deploy!Reached(p)' = {}
    BY <1>5, <1>c, <2>1 DEF Deploy!Reached
  <2> QED BY <1>5, <1>c, <2>2 DEF Deploy!Renewed
<1>8. \/ v7'[p].bad /\ v7'[p].fails \ Deploy!Lenient(p) # {}
      \/ (v7'[p].bad <=> v7[p].bad) /\ v7'[p].fails \ Deploy!Lenient(p) = v7[p].fails \ Deploy!Lenient(p)
  BY <1>4, <1>5, <1>b, <1>c
<1>9. /\ wrote \in SUBSET Deploy!Unit /\ v3' \in [Deploy!Unit -> Nat] /\ \A u \in Deploy!Unit : v3'[u] = v3[u] \/ v3'[u] >= v2
  BY <1>2, <1>c
<1> QED BY <1>2, <1>3, <1>5, <1>6, <1>7, <1>8, <1>9, <1>a, <1>c, DeployGo

LEMMA DeployServices == ASSUME Deploy!Assumed, Deploy!Safe, NEW p \in DeployProc, Deploy!Services(p) PROVE Deploy!Safe'
<1>1. PICK failed \in BOOLEAN : Deploy!Go(p, "build", "services", failed, TRUE, {})
  BY DEF Deploy!Services
<1>2. v7[p].pc = "services" /\ UNCHANGED <<v2, v3, v4, v5, v6>> /\ v7[p] \in Deploy!Runs /\ v2 \in Nat /\ Deploy!Types
      /\ v3 \in [Deploy!Unit -> Nat] /\ v4 \in [Deploy!Unit -> [rev : Nat, ok : BOOLEAN, err : BOOLEAN]] /\ v5 \in [Deploy!Unit -> BOOLEAN]
  BY DEF Deploy!Services, Deploy!Safe, Deploy!Types
<1>3. v7[p].mode = "compose"
  BY <1>2 DEF Deploy!Safe, Deploy!RunSafe, Deploy!Place
<1>4. "services" \notin Deploy!Lenient(p)
  BY DEF Deploy!Lenient
<1> DEFINE bad == v7[p].bad \/ (failed /\ TRUE)
           fails == IF failed THEN v7[p].fails \cup {"services"} ELSE v7[p].fails
           next == "build"
           wrote == {}
           k == [v7[p] EXCEPT !.pc = next, !.i = 1, !.bad = bad, !.fails = fails]
<1>a. /\ v7' = [q \in DeployProc |-> v7'[q]] /\ v7'[p] = k
      /\ \A q \in DeployProc \ {p} :
           v7'[q] = [v7[q] EXCEPT !.crossed = v7[q].crossed \cup IF v7[q].pc = "idle" THEN {} ELSE wrote]
  BY <1>1 DEF Deploy!Go
<1>b. bad \in BOOLEAN /\ fails \in SUBSET {"services", "build", "up", "deps", "restart", "rebuild", "logs", "scanner", "smoke"}
      /\ 1 \in DOMAIN DeployUnits /\ next \in {"build", "up", "collect", "restart", "scan", "smoke", "dev scan", "end"}
  BY <1>2, DeployUnit DEF Deploy!Runs
<1>c. (bad <=> v7[p].bad \/ (failed /\ TRUE)) /\ (failed => fails = v7[p].fails \cup {"services"})
      /\ (~(failed) => fails = v7[p].fails) /\ next = "build" /\ wrote = {}
  OBVIOUS
<1> HIDE DEF bad, fails, next, wrote
<1>d. /\ k \in Deploy!Runs /\ k.bad = bad /\ k.fails = fails /\ k.pc = next /\ k.i = 1 /\ k.mode = v7[p].mode
      /\ k.script = v7[p].script /\ k.crossed = v7[p].crossed /\ k.since = v7[p].since
      /\ k.dir = v7[p].dir /\ k.logs = v7[p].logs /\ k.seen = v7[p].seen /\ k.mixed = v7[p].mixed
  <2>1. v7[p] \in Deploy!Runs
    BY <1>2
  <2> QED BY <1>b, <2>1 DEF Deploy!Runs
<1> HIDE DEF k
<1>5. /\ v7'[p] \in Deploy!Runs /\ v7'[p].bad = bad /\ v7'[p].fails = fails /\ v7'[p].pc = next /\ v7'[p].i = 1
      /\ v7'[p].mode = v7[p].mode /\ v7'[p].script = v7[p].script /\ v7'[p].crossed = v7[p].crossed
      /\ v7'[p].since = v7[p].since /\ v7'[p].dir = v7[p].dir /\ v7'[p].logs = v7[p].logs
      /\ v7'[p].seen = v7[p].seen /\ v7'[p].mixed = v7[p].mixed
  BY <1>a, <1>d
<1>6. Deploy!Scanned(p)' <=> Deploy!Scanned(p)
  BY <1>2, <1>5, <1>c DEF Deploy!Scanned
<1>7. Deploy!Renewed(p)'
  <2>1. Deploy!Reached(p)' = {}
    BY <1>5, <1>c DEF Deploy!Reached
  <2> QED BY <1>5, <1>c, <2>1 DEF Deploy!Renewed
<1>8. \/ v7'[p].bad /\ v7'[p].fails \ Deploy!Lenient(p) # {}
      \/ (v7'[p].bad <=> v7[p].bad) /\ v7'[p].fails \ Deploy!Lenient(p) = v7[p].fails \ Deploy!Lenient(p)
  BY <1>4, <1>5, <1>b, <1>c
<1>9. /\ wrote \in SUBSET Deploy!Unit /\ v3' \in [Deploy!Unit -> Nat] /\ \A u \in Deploy!Unit : v3'[u] = v3[u] \/ v3'[u] >= v2
  BY <1>2, <1>c
<1> QED BY <1>2, <1>3, <1>5, <1>6, <1>7, <1>8, <1>9, <1>a, <1>c, DeployGo

LEMMA DeployFallback == ASSUME Deploy!Assumed, Deploy!Safe, NEW p \in DeployProc, Deploy!Fallback(p) PROVE Deploy!Safe'
<1> DEFINE u == DeployUnits[1]
<1>0. u \in Deploy!Unit
  BY DeployUnit
<1>2. v7[p].pc = "fallback" /\ UNCHANGED <<v2, v3, v6>> /\ v7[p] \in Deploy!Runs /\ v2 \in Nat /\ Deploy!Types
      /\ v3 \in [Deploy!Unit -> Nat] /\ v4 \in [Deploy!Unit -> [rev : Nat, ok : BOOLEAN, err : BOOLEAN]]
      /\ v5 \in [Deploy!Unit -> BOOLEAN]
  BY DEF Deploy!Fallback, Deploy!Safe, Deploy!Types
<1>1. PICK failed \in BOOLEAN :
        \E w \in {{u}, {}} :
          /\ Deploy!Go(p, "collect", "rebuild", failed, TRUE, w)
          /\ v4' \in {v4, [v4 EXCEPT ![u] = Deploy!Fresh(v2)], [v4 EXCEPT ![u] = Deploy!Down]}
          /\ w = {} => v4' = v4
          /\ failed \/ v4' = [v4 EXCEPT ![u] = Deploy!Fresh(v2)]
  BY DEF Deploy!Fallback
<1>w. PICK w \in {{u}, {}} :
          /\ Deploy!Go(p, "collect", "rebuild", failed, TRUE, w)
          /\ v4' \in {v4, [v4 EXCEPT ![u] = Deploy!Fresh(v2)], [v4 EXCEPT ![u] = Deploy!Down]}
          /\ w = {} => v4' = v4
          /\ failed \/ v4' = [v4 EXCEPT ![u] = Deploy!Fresh(v2)]
  BY <1>1
<1>3. v7[p].mode = "fallback" /\ v7[p].script # "dev" /\ v7[p].since <= v2
  BY <1>2 DEF Deploy!Safe, Deploy!RunSafe, Deploy!Place
<1>4. "rebuild" \notin Deploy!Lenient(p)
  BY DEF Deploy!Lenient
<1> DEFINE bad == v7[p].bad \/ (failed /\ TRUE)
           fails == IF failed THEN v7[p].fails \cup {"rebuild"} ELSE v7[p].fails
           next == "collect"
           wrote == w
           k == [v7[p] EXCEPT !.pc = next, !.i = 1, !.bad = bad, !.fails = fails]
<1>a. /\ v7' = [q \in DeployProc |-> v7'[q]] /\ v7'[p] = k
      /\ \A q \in DeployProc \ {p} :
           v7'[q] = [v7[q] EXCEPT !.crossed = v7[q].crossed \cup IF v7[q].pc = "idle" THEN {} ELSE wrote]
  BY <1>w DEF Deploy!Go
<1>b. bad \in BOOLEAN /\ fails \in SUBSET {"services", "build", "up", "deps", "restart", "rebuild", "logs", "scanner", "smoke"}
      /\ 1 \in DOMAIN DeployUnits /\ next \in {"build", "up", "collect", "restart", "scan", "smoke", "dev scan", "end"}
  BY <1>2, DeployUnit DEF Deploy!Runs
<1>c. (bad <=> v7[p].bad \/ (failed /\ TRUE)) /\ (failed => fails = v7[p].fails \cup {"rebuild"})
      /\ (~(failed) => fails = v7[p].fails) /\ next = "collect" /\ wrote = w
  OBVIOUS
<1> HIDE DEF bad, fails, next, wrote
<1>d. /\ k \in Deploy!Runs /\ k.bad = bad /\ k.fails = fails /\ k.pc = next /\ k.i = 1 /\ k.mode = v7[p].mode
      /\ k.script = v7[p].script /\ k.crossed = v7[p].crossed /\ k.since = v7[p].since
      /\ k.dir = v7[p].dir /\ k.logs = v7[p].logs /\ k.seen = v7[p].seen /\ k.mixed = v7[p].mixed
  <2>1. v7[p] \in Deploy!Runs
    BY <1>2
  <2> QED BY <1>b, <2>1 DEF Deploy!Runs
<1> HIDE DEF k
<1>5. /\ v7'[p] \in Deploy!Runs /\ v7'[p].bad = bad /\ v7'[p].fails = fails /\ v7'[p].pc = next /\ v7'[p].i = 1
      /\ v7'[p].mode = v7[p].mode /\ v7'[p].script = v7[p].script /\ v7'[p].crossed = v7[p].crossed
      /\ v7'[p].since = v7[p].since /\ v7'[p].dir = v7[p].dir /\ v7'[p].logs = v7[p].logs
      /\ v7'[p].seen = v7[p].seen /\ v7'[p].mixed = v7[p].mixed
  BY <1>a, <1>d
<1>6. Deploy!Scanned(p)' <=> Deploy!Scanned(p)
  BY <1>2, <1>3, <1>5, <1>c DEF Deploy!Scanned
<1>v. v5' \in [Deploy!Unit -> BOOLEAN]
  <2>1. v5' = v5 \/ v5' = [v5 EXCEPT ![u] = v5[u] \/ v4[u].err]
    BY DEF Deploy!Fallback
  <2>2. (v5[u] \/ v4[u].err) \in BOOLEAN
    BY <1>0, <1>2
  <2> HIDE DEF u
  <2> QED BY <1>0, <1>2, <2>1, <2>2
<1>10. v4' \in [Deploy!Unit -> [rev : Nat, ok : BOOLEAN, err : BOOLEAN]] /\ \A x \in Deploy!Unit \ w : v4'[x].rev = v4[x].rev
  <2>1. Deploy!Fresh(v2) \in [rev : Nat, ok : BOOLEAN, err : BOOLEAN] /\ Deploy!Down \in [rev : Nat, ok : BOOLEAN, err : BOOLEAN]
    BY <1>2 DEF Deploy!Fresh, Deploy!Down
  <2> QED BY <1>0, <1>2, <1>w, <2>1
<1>7. Deploy!Renewed(p)'
  <2>1. Deploy!Reached(p)' = {u}
    BY <1>3, <1>5, <1>c DEF Deploy!Reached, Deploy!Restarted
  <2>2. failed \/ v4'[u].rev >= v7[p].since
    <3>1. failed \/ v4'[u].rev = v2
      BY <1>0, <1>2, <1>w DEF Deploy!Fresh
    <3> QED BY <1>3, <3>1
  <2> QED BY <1>5, <1>c, <2>1, <2>2 DEF Deploy!Renewed
<1>8. \/ v7'[p].bad /\ v7'[p].fails \ Deploy!Lenient(p) # {}
      \/ (v7'[p].bad <=> v7[p].bad) /\ v7'[p].fails \ Deploy!Lenient(p) = v7[p].fails \ Deploy!Lenient(p)
  BY <1>4, <1>5, <1>b, <1>c
<1>9. /\ wrote \in SUBSET Deploy!Unit /\ v3' \in [Deploy!Unit -> Nat] /\ \A x \in Deploy!Unit : v3'[x] = v3[x] \/ v3'[x] >= v2
  BY <1>0, <1>2, <1>c
<1> HIDE DEF u
<1> QED BY <1>2, <1>3, <1>5, <1>6, <1>7, <1>8, <1>9, <1>10, <1>a, <1>c, <1>v, DeployGo

LEMMA DeploySmoke == ASSUME Deploy!Assumed, Deploy!Safe, NEW p \in DeployProc, Deploy!Smoke(p) PROVE Deploy!Safe'
<1> DEFINE url == \A u \in v1.urls : v4[u].ok
<1>2. v7[p].pc \in {"smoke", "local smoke"} /\ UNCHANGED <<v2, v3, v4, v5, v6>> /\ v7[p] \in Deploy!Runs /\ v2 \in Nat /\ Deploy!Types
      /\ v3 \in [Deploy!Unit -> Nat] /\ v4 \in [Deploy!Unit -> [rev : Nat, ok : BOOLEAN, err : BOOLEAN]] /\ v5 \in [Deploy!Unit -> BOOLEAN]
  BY DEF Deploy!Smoke, Deploy!Safe, Deploy!Types
<1>0. PICK then \in {"smoke", "end", "dev scan"} :
        /\ \E script \in BOOLEAN : Deploy!Go(p, then, "smoke", ~url \/ ~script, TRUE, {})
        /\ v7[p].script = "dev" => then = "dev scan" \/ v7[p].pc = "local smoke"
        /\ v7[p].pc = "smoke" => then = "dev scan"
  BY <1>2 DEF Deploy!Smoke
<1>1. PICK script \in BOOLEAN : Deploy!Go(p, then, "smoke", ~url \/ ~script, TRUE, {})
  BY <1>0
<1>3. v7[p].pc = "local smoke" => v7[p].script # "dev"
  BY <1>2 DEF Deploy!Safe, Deploy!RunSafe, Deploy!Place
<1>4. "smoke" \notin Deploy!Lenient(p)
  BY DEF Deploy!Lenient
<1> HIDE DEF url
<1> DEFINE bad == v7[p].bad \/ ((~url \/ ~script) /\ TRUE)
           fails == IF (~url \/ ~script) THEN v7[p].fails \cup {"smoke"} ELSE v7[p].fails
           next == then
           wrote == {}
           k == [v7[p] EXCEPT !.pc = next, !.i = 1, !.bad = bad, !.fails = fails]
<1>a. /\ v7' = [q \in DeployProc |-> v7'[q]] /\ v7'[p] = k
      /\ \A q \in DeployProc \ {p} :
           v7'[q] = [v7[q] EXCEPT !.crossed = v7[q].crossed \cup IF v7[q].pc = "idle" THEN {} ELSE wrote]
  BY <1>1 DEF Deploy!Go
<1>b. bad \in BOOLEAN /\ fails \in SUBSET {"services", "build", "up", "deps", "restart", "rebuild", "logs", "scanner", "smoke"}
      /\ 1 \in DOMAIN DeployUnits /\ next \in {"build", "up", "collect", "restart", "scan", "smoke", "dev scan", "end"}
  BY <1>0, <1>2, DeployUnit DEF Deploy!Runs
<1>c. (bad <=> v7[p].bad \/ ((~url \/ ~script) /\ TRUE)) /\ ((~url \/ ~script) => fails = v7[p].fails \cup {"smoke"})
      /\ (~((~url \/ ~script)) => fails = v7[p].fails) /\ next = then /\ wrote = {}
  OBVIOUS
<1> HIDE DEF bad, fails, next, wrote
<1>d. /\ k \in Deploy!Runs /\ k.bad = bad /\ k.fails = fails /\ k.pc = next /\ k.i = 1 /\ k.mode = v7[p].mode
      /\ k.script = v7[p].script /\ k.crossed = v7[p].crossed /\ k.since = v7[p].since
      /\ k.dir = v7[p].dir /\ k.logs = v7[p].logs /\ k.seen = v7[p].seen /\ k.mixed = v7[p].mixed
  <2>1. v7[p] \in Deploy!Runs
    BY <1>2
  <2> QED BY <1>b, <2>1 DEF Deploy!Runs
<1> HIDE DEF k
<1>5. /\ v7'[p] \in Deploy!Runs /\ v7'[p].bad = bad /\ v7'[p].fails = fails /\ v7'[p].pc = next /\ v7'[p].i = 1
      /\ v7'[p].mode = v7[p].mode /\ v7'[p].script = v7[p].script /\ v7'[p].crossed = v7[p].crossed
      /\ v7'[p].since = v7[p].since /\ v7'[p].dir = v7[p].dir /\ v7'[p].logs = v7[p].logs
      /\ v7'[p].seen = v7[p].seen /\ v7'[p].mixed = v7[p].mixed
  BY <1>a, <1>d
<1>6. Deploy!Scanned(p)' <=> Deploy!Scanned(p)
  BY <1>0, <1>2, <1>3, <1>5, <1>c DEF Deploy!Scanned
<1>7. Deploy!Renewed(p)'
  <2>1. Deploy!Reached(p)' = Deploy!Reached(p)
    BY <1>0, <1>2, <1>5, <1>c DEF Deploy!Reached, Deploy!Restarted
  <2>2. Deploy!Renewed(p)
    BY DEF Deploy!Safe, Deploy!RunSafe
  <2> QED BY <1>0, <1>2, <1>5, <1>c, <2>1, <2>2 DEF Deploy!Renewed
<1>8. \/ v7'[p].bad /\ v7'[p].fails \ Deploy!Lenient(p) # {}
      \/ (v7'[p].bad <=> v7[p].bad) /\ v7'[p].fails \ Deploy!Lenient(p) = v7[p].fails \ Deploy!Lenient(p)
  BY <1>4, <1>5, <1>b, <1>c
<1>9. /\ wrote \in SUBSET Deploy!Unit /\ v3' \in [Deploy!Unit -> Nat] /\ \A u \in Deploy!Unit : v3'[u] = v3[u] \/ v3'[u] >= v2
  BY <1>2, <1>c
<1> QED BY <1>0, <1>2, <1>3, <1>5, <1>6, <1>7, <1>8, <1>9, <1>a, <1>c, DeployGo

\* Runs that a step of another one does not touch.
LEMMA DeployAside ==
  ASSUME Deploy!Assumed, Deploy!Safe, NEW q \in DeployProc, v7'[q] = v7[q], UNCHANGED <<v2, v3, v4, v5, v6>>
  PROVE  v7'[q] \in Deploy!Runs /\ Deploy!RunSafe(q)'
<1>1. v7[q] \in Deploy!Runs /\ v2 \in Nat /\ \A u \in Deploy!Unit : v3[u] \in Nat
  BY DEF Deploy!Safe, Deploy!Types
<1>2. v2' \in Nat /\ v2' >= v2 /\ (\A u \in Deploy!Unit : v3'[u] \in Nat /\ v3'[u] = v3[u])
  BY <1>1
<1>3. Deploy!RunSafe(q)'
  BY <1>2, DeployOther
<1> QED BY <1>1, <1>3

LEMMA DeployStart == ASSUME Deploy!Assumed, Deploy!Safe, NEW p \in DeployProc, Deploy!Start(p) PROVE Deploy!Safe'
<1>2. v7[p].pc = "idle" /\ UNCHANGED <<v2, v3, v4, v5, v6>> /\ v7 \in [DeployProc -> Deploy!Runs] /\ v2 \in Nat /\ Deploy!Types
  BY DEF Deploy!Start, Deploy!Safe, Deploy!Types
<1> DEFINE k == v7'[p]
<1>1. PICK d \in DeployDir : Deploy!StartDev(p, d) \/ Deploy!StartLocal(p, d)
  BY DEF Deploy!Start
<1>3. \E script \in {"dev", "dev by local", "local"}, mode \in {"none", "compose", "systemd", "local", "fallback"},
         pc \in {"refused", "services", "build", "restart", "deps", "fallback"} :
        /\ v7' = [v7 EXCEPT ![p] = [Deploy!Idle EXCEPT !.script = script, !.mode = mode, !.pc = pc, !.dir = d, !.since = v2]]
        /\ pc \in {"services", "deps", "fallback"} => script # "dev"
        /\ pc \in {"services", "build"} => mode = "compose"
        /\ pc \in {"deps", "restart"} => mode = "systemd"
        /\ mode = "fallback" <=> pc = "fallback"
  <2>1. Deploy!LocalMode \in {"compose", "systemd", "fallback"} /\ Deploy!DevMode \in {"compose", "systemd", "local", "none"}
    BY DEF Deploy!LocalMode, Deploy!DevMode
  <2>2. Deploy!FirstStep(Deploy!LocalMode) \in {"services", "deps", "fallback"}
        /\ (Deploy!FirstStep(Deploy!LocalMode) = "services" <=> Deploy!LocalMode = "compose")
        /\ (Deploy!FirstStep(Deploy!LocalMode) = "deps" <=> Deploy!LocalMode = "systemd")
    BY <2>1 DEF Deploy!FirstStep
  <2>3. CASE Deploy!StartLocal(p, d)
    <3>1. v7' = [v7 EXCEPT ![p] = [Deploy!Idle EXCEPT !.script = "local", !.mode = Deploy!LocalMode,
                   !.pc = Deploy!FirstStep(Deploy!LocalMode), !.dir = d, !.since = v2]]
      BY <2>3 DEF Deploy!StartLocal, Deploy!Idle
    <3> QED BY <2>1, <2>2, <3>1
  <2>4. CASE Deploy!StartDev(p, d)
    <3>1. CASE v1.branch # "dev" \/ Deploy!DevMode = "none"
      <4>1. v7' = [v7 EXCEPT ![p] = [Deploy!Idle EXCEPT !.script = "dev", !.mode = Deploy!DevMode,
                     !.pc = "refused", !.dir = d, !.since = v2]]
        BY <2>4, <3>1 DEF Deploy!StartDev, Deploy!Idle
      <4> QED BY <2>1, <4>1
    <3>2. CASE ~(v1.branch # "dev" \/ Deploy!DevMode = "none") /\ Deploy!DevMode = "compose"
      <4>1. v7' = [v7 EXCEPT ![p] = [Deploy!Idle EXCEPT !.script = "dev", !.mode = "compose",
                     !.pc = "build", !.dir = d, !.since = v2]]
        BY <2>4, <3>2 DEF Deploy!StartDev, Deploy!Idle
      <4> QED BY <4>1
    <3>3. CASE ~(v1.branch # "dev" \/ Deploy!DevMode = "none") /\ Deploy!DevMode = "systemd"
      <4>1. v7' = [v7 EXCEPT ![p] = [Deploy!Idle EXCEPT !.script = "dev", !.mode = "systemd",
                     !.pc = "restart", !.dir = d, !.since = v2]]
        BY <2>4, <3>3 DEF Deploy!StartDev, Deploy!Idle
      <4> QED BY <4>1
    <3>4. CASE ~(v1.branch # "dev" \/ Deploy!DevMode = "none") /\ Deploy!DevMode = "local"
      <4>1. v7' = [v7 EXCEPT ![p] = [Deploy!Idle EXCEPT !.script = "dev by local", !.mode = Deploy!LocalMode,
                     !.pc = Deploy!FirstStep(Deploy!LocalMode), !.dir = d, !.since = v2]]
        BY <2>4, <3>4 DEF Deploy!StartDev, Deploy!Idle
      <4> QED BY <2>1, <2>2, <4>1
    <3> QED BY <2>1, <3>1, <3>2, <3>3, <3>4
  <2> QED BY <1>1, <2>3, <2>4
<1>n. Deploy!NoLogs \in [Deploy!Unit -> {"none", "clean", "old", "error"}] /\ \A u \in Deploy!Unit : Deploy!NoLogs[u] = "none"
  BY DEF Deploy!NoLogs
<1>4. /\ k \in Deploy!Runs /\ k.pc \in {"refused", "services", "build", "restart", "deps", "fallback"} /\ k.i = 1 /\ ~k.bad
      /\ k.logs = {} /\ k.since = v2 /\ k.fails = {} /\ k.seen = Deploy!NoLogs /\ k.dir = d
      /\ k.pc \in {"services", "deps", "fallback"} => k.script # "dev"
      /\ k.pc \in {"services", "build"} => k.mode = "compose"
      /\ k.pc \in {"deps", "restart"} => k.mode = "systemd"
      /\ k.mode = "fallback" <=> k.pc = "fallback"
  <2>0. PICK script \in {"dev", "dev by local", "local"}, mode \in {"none", "compose", "systemd", "local", "fallback"},
             pc \in {"refused", "services", "build", "restart", "deps", "fallback"} :
          /\ v7' = [v7 EXCEPT ![p] = [Deploy!Idle EXCEPT !.script = script, !.mode = mode, !.pc = pc, !.dir = d, !.since = v2]]
          /\ pc \in {"services", "deps", "fallback"} => script # "dev"
          /\ pc \in {"services", "build"} => mode = "compose"
          /\ pc \in {"deps", "restart"} => mode = "systemd"
          /\ mode = "fallback" <=> pc = "fallback"
    BY <1>3
  <2>1. k = [Deploy!Idle EXCEPT !.script = script, !.mode = mode, !.pc = pc, !.dir = d, !.since = v2]
    BY <1>2, <2>0
  <2>2. /\ k.script = script /\ k.mode = mode /\ k.pc = pc /\ k.i = 1 /\ k.bad = FALSE /\ k.logs = {} /\ k.since = v2
        /\ k.fails = {} /\ k.seen = Deploy!NoLogs /\ k.dir = d
    BY <2>1 DEF Deploy!Idle
  <2>3. 1 \in DOMAIN DeployUnits
    BY DeployUnit
  <2>4. v2 \in Nat
    BY <1>2
  <2>5. k \in Deploy!Runs
    BY <1>n, <2>1, <2>3, <2>4, ZenonT(60) DEF Deploy!Runs, Deploy!Idle
  <2> QED BY <2>0, <2>2, <2>5
<1>5. v7' = [q \in DeployProc |-> v7'[q]] /\ \A q \in DeployProc \ {p} : v7'[q] = v7[q]
  BY <1>2, <1>3
<1> HIDE DEF k
<1>a. v7'[p] = k
  BY DEF k
<1>6. Deploy!RunSafe(p)'
  <2>1. /\ v7'[p].pc = k.pc /\ v7'[p].i = 1 /\ ~v7'[p].bad /\ v7'[p].logs = {} /\ v7'[p].since = v2 /\ v7'[p].fails = {}
        /\ v7'[p].mode = k.mode /\ v7'[p].script = k.script /\ v7'[p].dir = d /\ \A u \in Deploy!Unit : v7'[p].seen[u] = "none"
    BY <1>4, <1>a, <1>n
  <2>2. Deploy!Place(p)'
    <3>1. v2 <= v2' /\ d \in DeployDir
      BY <1>2
    <3>2. v7'[p].dir \in DeployDir /\ v7'[p].since <= v2'
      BY <2>1, <3>1
    <3> QED BY <1>4, <2>1, <3>2 DEF Deploy!Place
  <2>3. ~Deploy!Blamed(p)' /\ ~Deploy!Scanned(p)' /\ "old" \notin Deploy!Found(p)'
    BY <1>4, <2>1 DEF Deploy!Blamed, Deploy!Scanned, Deploy!Found
  <2>4. Deploy!Verdict(p)'
    BY <2>1, <2>3 DEF Deploy!Verdict
  <2>5. Deploy!LogsTrue(p)'
    BY <1>4, <2>1, <2>3 DEF Deploy!LogsTrue
  <2>6. \A j \in 1..(v7'[p].i - 1) : FALSE
    <3>1. v7'[p].i = 1
      BY <2>1
    <3> QED BY <3>1
  <2>7. Deploy!Reached(p)' = {}
    BY <1>4, <2>1, <2>6 DEF Deploy!Reached
  <2>8. Deploy!Renewed(p)'
    BY <1>4, <2>1, <2>7 DEF Deploy!Renewed
  <2> QED BY <2>2, <2>4, <2>5, <2>8 DEF Deploy!RunSafe
<1>7. ASSUME NEW q \in DeployProc PROVE v7'[q] \in Deploy!Runs /\ Deploy!RunSafe(q)'
  BY <1>2, <1>4, <1>5, <1>6, <1>a, DeployAside
<1>8. v7' \in [DeployProc -> Deploy!Runs]
  BY <1>5, <1>7
<1>9. Deploy!Types'
  BY <1>2, <1>8 DEF Deploy!Types
<1> QED BY <1>7, <1>9 DEF Deploy!Safe

LEMMA DeployScan == ASSUME Deploy!Assumed, Deploy!Safe, NEW p \in DeployProc, Deploy!Scan(p) PROVE Deploy!Safe'
<1> DEFINE found == \E u \in v7[p].logs : v6[v7[p].dir][u] \in {"old", "error"}
           mine == v7[p].pc = "scan" \/ v7[p].script = "dev"
           blind == v7[p].pc = "scan" /\ ~v1.scanner
           bad == v7[p].bad \/ blind \/ (mine /\ found)
           fails == IF blind THEN v7[p].fails \cup {"scanner"} ELSE v7[p].fails
           next == IF v7[p].pc = "scan" THEN "local smoke" ELSE "end"
           k == [v7[p] EXCEPT !.bad = bad, !.fails = fails, !.pc = next]
<1>2. v7[p].pc \in {"scan", "dev scan"} /\ UNCHANGED <<v2, v3, v4, v5, v6>> /\ v7[p] \in Deploy!Runs /\ v2 \in Nat /\ Deploy!Types
      /\ v3 \in [Deploy!Unit -> Nat] /\ v4 \in [Deploy!Unit -> [rev : Nat, ok : BOOLEAN, err : BOOLEAN]] /\ v7 \in [DeployProc -> Deploy!Runs]
  BY DEF Deploy!Scan, Deploy!Safe, Deploy!Types
<1>1. v7' = [v7 EXCEPT ![p].bad = bad, ![p].fails = fails, ![p].pc = next]
  BY DEF Deploy!Scan
<1>3. v7'[p] = k /\ v7' = [q \in DeployProc |-> v7'[q]] /\ \A q \in DeployProc \ {p} : v7'[q] = v7[q]
  BY <1>1, <1>2
<1>b. bad \in BOOLEAN /\ next \in {"local smoke", "end"}
      /\ fails \in SUBSET {"services", "build", "up", "deps", "restart", "rebuild", "logs", "scanner", "smoke"}
  BY <1>2 DEF Deploy!Runs
<1>c. (bad <=> v7[p].bad \/ blind \/ (mine /\ found)) /\ (blind => fails = v7[p].fails \cup {"scanner"})
      /\ (~blind => fails = v7[p].fails) /\ (v7[p].pc = "scan" => next = "local smoke") /\ (v7[p].pc # "scan" => next = "end")
  OBVIOUS
<1> HIDE DEF bad, fails, next
<1>d. /\ k \in Deploy!Runs /\ k.bad = bad /\ k.pc = next /\ k.i = v7[p].i /\ k.fails = fails /\ k.mode = v7[p].mode
      /\ k.script = v7[p].script /\ k.crossed = v7[p].crossed /\ k.since = v7[p].since
      /\ k.dir = v7[p].dir /\ k.logs = v7[p].logs /\ k.seen = v7[p].seen /\ k.mixed = v7[p].mixed
  <2>1. v7[p] \in Deploy!Runs
    BY <1>2
  <2> QED BY <1>b, <2>1 DEF Deploy!Runs
<1> HIDE DEF k
<1>5. /\ v7'[p] \in Deploy!Runs /\ v7'[p].bad = bad /\ v7'[p].fails = fails /\ v7'[p].pc = next /\ v7'[p].i = v7[p].i
      /\ v7'[p].mode = v7[p].mode /\ v7'[p].script = v7[p].script /\ v7'[p].crossed = v7[p].crossed
      /\ v7'[p].since = v7[p].since /\ v7'[p].dir = v7[p].dir /\ v7'[p].logs = v7[p].logs
      /\ v7'[p].seen = v7[p].seen /\ v7'[p].mixed = v7[p].mixed
  BY <1>3, <1>d
<1>p. Deploy!Place(p) /\ Deploy!Verdict(p) /\ Deploy!LogsTrue(p) /\ Deploy!Renewed(p)
  BY DEF Deploy!Safe, Deploy!RunSafe
<1>s. v7[p].pc = "scan" => v7[p].script # "dev"
  BY <1>p DEF Deploy!Place
<1>6. Deploy!Place(p)'
  BY <1>2, <1>5, <1>b, <1>c, <1>p DEF Deploy!Place
<1>7. Deploy!LogsTrue(p)'
  <2>1. v7[p].pc # "idle" /\ v7'[p].pc # "idle" /\ v6' = v6
    BY <1>2, <1>5, <1>b
  <2> QED BY <1>5, <1>p, <2>1, DeployLogs
<1>8. Deploy!Renewed(p)'
  <2>1. Deploy!Reached(p)' = Deploy!Restarted(p) /\ Deploy!Reached(p) = Deploy!Restarted(p)
    BY <1>2, <1>5, <1>b DEF Deploy!Reached, Deploy!Restarted
  <2>2. "build" \notin v7'[p].fails => "build" \notin v7[p].fails
    BY <1>5, <1>c
  <2>3. ~bad => ~v7[p].bad
    BY <1>c
  <2> QED BY <1>2, <1>5, <1>b, <1>p, <2>1, <2>2, <2>3 DEF Deploy!Renewed
<1>9. Deploy!Verdict(p)'
  <2>0. "scanner" \notin Deploy!Lenient(p) /\ Deploy!Lenient(p)' = Deploy!Lenient(p)
    BY <1>5 DEF Deploy!Lenient
  <2>1. Deploy!Found(p)' = Deploy!Found(p) /\ (Deploy!Blamed(p)' <=> blind \/ Deploy!Blamed(p))
    <3>1. Deploy!Found(p)' = Deploy!Found(p)
      BY <1>5, DeployFound
    <3> HIDE DEF found, mine, blind
    <3>2. v7'[p].fails = IF blind THEN v7[p].fails \cup {"scanner"} ELSE v7[p].fails
      BY <1>5, <1>c
    <3> QED BY <2>0, <3>1, <3>2 DEF Deploy!Blamed
  <2>2. Deploy!Scanned(p)'
    BY <1>2, <1>5, <1>c, <1>s DEF Deploy!Scanned
  <2>3. ~v7[p].mixed => (found <=> Deploy!Found(p) \cap {"old", "error"} # {})
    <3>1. SUFFICES ASSUME ~v7[p].mixed PROVE found <=> Deploy!Found(p) \cap {"old", "error"} # {}
      OBVIOUS
    <3>2. \A u \in v7[p].logs : v6[v7[p].dir][u] = v7[p].seen[u]
      BY <1>2, <1>p, <3>1 DEF Deploy!LogsTrue
    <3>3. v7[p].logs \subseteq Deploy!Unit
      BY <1>2 DEF Deploy!Runs
    <3>4. found => Deploy!Found(p) \cap {"old", "error"} # {}
      BY <3>2, <3>3 DEF Deploy!Found
    <3>5. Deploy!Found(p) \cap {"old", "error"} # {} => found
      BY <1>p, <3>2 DEF Deploy!Found, Deploy!LogsTrue
    <3> QED BY <3>4, <3>5
  <2>4. "old" \in Deploy!Found(p) => v7[p].mode \in {"systemd", "fallback"}
    BY <1>p DEF Deploy!LogsTrue
  <2>5. ~mine => Deploy!Scanned(p)
    BY <1>2 DEF Deploy!Scanned
  <2> HIDE DEF found, mine, blind
  <2>6. ~v7'[p].bad => ~Deploy!Blamed(p)'
    BY <1>5, <1>c, <1>p, <2>1 DEF Deploy!Verdict
  <2>7. v7'[p].bad /\ ~v7'[p].mixed =>
          Deploy!Blamed(p)' \/ "error" \in Deploy!Found(p)' \/ (v7'[p].mode \in {"systemd", "fallback"} /\ "old" \in Deploy!Found(p)')
    BY <1>5, <1>c, <1>p, <2>1, <2>3, <2>4 DEF Deploy!Verdict
  <2>8. ~v7'[p].bad /\ ~v7'[p].mixed => Deploy!Found(p)' \cap {"old", "error"} = {}
    BY <1>5, <1>c, <1>p, <2>1, <2>3, <2>5 DEF Deploy!Verdict
  <2> QED BY <2>2, <2>6, <2>7, <2>8 DEF Deploy!Verdict
<1>10. ASSUME NEW q \in DeployProc PROVE v7'[q] \in Deploy!Runs /\ Deploy!RunSafe(q)'
  <2>1. Deploy!RunSafe(p)'
    BY <1>6, <1>7, <1>8, <1>9 DEF Deploy!RunSafe
  <2> QED BY <1>2, <1>3, <1>5, <2>1, DeployAside
<1>11. v7' \in [DeployProc -> Deploy!Runs]
  BY <1>3, <1>10
<1>12. Deploy!Types'
  BY <1>2, <1>11 DEF Deploy!Types
<1> QED BY <1>10, <1>12 DEF Deploy!Safe

\* The service at work, and the place of the next one.
LEMMA DeployAt ==
  ASSUME Deploy!Assumed, NEW p \in DeployProc, v7[p] \in Deploy!Runs
  PROVE  /\ v7[p].i \in 1..Len(DeployUnits) /\ v7[p].i \in DOMAIN DeployUnits /\ 1 \in DOMAIN DeployUnits
         /\ Deploy!AtUnit(p) \in Deploy!Unit /\ Deploy!AtUnit(p) = DeployUnits[v7[p].i]
         /\ ~Deploy!LastUnit(p) => v7[p].i + 1 \in DOMAIN DeployUnits
         /\ Deploy!LastUnit(p) => {DeployUnits[j] : j \in 1..v7[p].i} = Deploy!Unit
<1>1. v7[p].i \in 1..Len(DeployUnits) /\ DOMAIN DeployUnits = 1..Len(DeployUnits) /\ Len(DeployUnits) \in Nat \ {0}
  BY DeployUnit DEF Deploy!Runs
<1>2. Deploy!AtUnit(p) = DeployUnits[v7[p].i] /\ Deploy!AtUnit(p) \in Deploy!Unit
  BY <1>1 DEF Deploy!AtUnit, Deploy!Unit
<1>3. ~Deploy!LastUnit(p) => v7[p].i + 1 \in DOMAIN DeployUnits
  BY <1>1 DEF Deploy!LastUnit
<1>4. Deploy!LastUnit(p) => {DeployUnits[j] : j \in 1..v7[p].i} = Deploy!Unit
  BY <1>1 DEF Deploy!LastUnit, Deploy!Unit
<1> QED BY <1>1, <1>2, <1>3, <1>4, DeployUnit

LEMMA DeployRestart == ASSUME Deploy!Assumed, Deploy!Safe, NEW p \in DeployProc, Deploy!Restart(p) PROVE Deploy!Safe'
<1> DEFINE u == Deploy!AtUnit(p)
           dev == v7[p].script = "dev"
           pc == IF dev \/ Deploy!LastUnit(p) THEN "collect" ELSE "restart"
           i == IF dev THEN v7[p].i ELSE IF Deploy!LastUnit(p) THEN 1 ELSE v7[p].i + 1
<1>2. v7[p].pc = "restart" /\ UNCHANGED <<v2, v3, v6>> /\ v7[p] \in Deploy!Runs /\ v7 \in [DeployProc -> Deploy!Runs] /\ v2 \in Nat /\ Deploy!Types
      /\ v3 \in [Deploy!Unit -> Nat] /\ v4 \in [Deploy!Unit -> [rev : Nat, ok : BOOLEAN, err : BOOLEAN]]
      /\ v5 \in [Deploy!Unit -> BOOLEAN] /\ v6 \in [DeployDir -> [Deploy!Unit -> {"none", "clean", "old", "error"}]]
  BY DEF Deploy!Restart, Deploy!Safe, Deploy!Types
<1>1. PICK new \in {Deploy!Fresh(v2), v4[u], Deploy!Down} :
        /\ v4' = [v4 EXCEPT ![u] = new]
        /\ v5' = [v5 EXCEPT ![u] = v5[u] \/ (new # v4[u] /\ v4[u].err)]
        /\ v7' = [q \in DeployProc |->
             IF q # p THEN [v7[q] EXCEPT !.crossed = v7[q].crossed \cup IF v7[q].pc = "idle" THEN {} ELSE {u}]
             ELSE [[v7[p] EXCEPT !.pc = pc, !.i = i] EXCEPT !.bad = @ \/ new # Deploy!Fresh(v2),
                     !.fails = IF new # Deploy!Fresh(v2) THEN @ \cup {"restart"} ELSE @]]
  BY DEF Deploy!Restart
<1>u. u \in Deploy!Unit /\ u = DeployUnits[v7[p].i] /\ v7[p].i \in 1..Len(DeployUnits)
      /\ i \in DOMAIN DeployUnits /\ (Deploy!LastUnit(p) => {DeployUnits[j] : j \in 1..v7[p].i} = Deploy!Unit)
  BY <1>2, DeployAt
<1>p. v7[p].mode = "systemd" /\ v7[p].dir \in DeployDir /\ v7[p].since <= v2 /\ v7[p].since \in Nat
      /\ Deploy!Verdict(p) /\ Deploy!LogsTrue(p) /\ Deploy!Renewed(p)
  BY <1>2 DEF Deploy!Safe, Deploy!RunSafe, Deploy!Place, Deploy!Runs
<1> DEFINE failed == new # Deploy!Fresh(v2)
           bad == v7[p].bad \/ failed
           fails == IF failed THEN v7[p].fails \cup {"restart"} ELSE v7[p].fails
           k == [v7[p] EXCEPT !.pc = pc, !.i = i, !.bad = bad, !.fails = fails]
<1>a. /\ v7' = [q \in DeployProc |-> v7'[q]] /\ v7'[p] = k
      /\ \A q \in DeployProc \ {p} :
           v7'[q] = [v7[q] EXCEPT !.crossed = v7[q].crossed \cup IF v7[q].pc = "idle" THEN {} ELSE {u}]
  <2>1. v7[p] \in Deploy!Runs
    BY <1>2
  <2>2. v7'[p] = k
    <3>1. [v7[p] EXCEPT !.pc = pc, !.i = i].bad = v7[p].bad /\ [v7[p] EXCEPT !.pc = pc, !.i = i].fails = v7[p].fails
          /\ [v7[p] EXCEPT !.pc = pc, !.i = i].seen = v7[p].seen /\ [v7[p] EXCEPT !.pc = pc, !.i = i].logs = v7[p].logs
      BY <2>1 DEF Deploy!Runs
    <3> QED BY <1>1, <2>1, <3>1 DEF Deploy!Runs
  <2> QED BY <1>1, <2>2
<1>b. bad \in BOOLEAN /\ fails \in SUBSET {"services", "build", "up", "deps", "restart", "rebuild", "logs", "scanner", "smoke"} /\ pc \in {"collect", "restart"}
  BY <1>2 DEF Deploy!Runs
<1>c. (bad <=> v7[p].bad \/ failed) /\ (failed => fails = v7[p].fails \cup {"restart"}) /\ (~failed => fails = v7[p].fails)
  OBVIOUS
<1>e. \/ pc = "collect" /\ dev /\ i = v7[p].i
      \/ pc = "collect" /\ ~dev /\ Deploy!LastUnit(p)
      \/ pc = "restart" /\ ~dev /\ i = v7[p].i + 1
  OBVIOUS
<1>n. ~failed => v4'[u] = Deploy!Fresh(v2)
  BY <1>1, <1>2, <1>u
<1>t. v4' \in [Deploy!Unit -> [rev : Nat, ok : BOOLEAN, err : BOOLEAN]] /\ v5' \in [Deploy!Unit -> BOOLEAN]
      /\ \A x \in Deploy!Unit \ {u} : v4'[x] = v4[x]
  <2>1. new \in [rev : Nat, ok : BOOLEAN, err : BOOLEAN]
    <3>1. v4[u] \in [rev : Nat, ok : BOOLEAN, err : BOOLEAN]
      BY <1>2, <1>u
    <3>2. Deploy!Fresh(v2) \in [rev : Nat, ok : BOOLEAN, err : BOOLEAN] /\ Deploy!Down \in [rev : Nat, ok : BOOLEAN, err : BOOLEAN]
      BY <1>2 DEF Deploy!Fresh, Deploy!Down
    <3> QED BY <3>1, <3>2
  <2>2. (v5[u] \/ (new # v4[u] /\ v4[u].err)) \in BOOLEAN
    BY <1>2, <1>u
  <2> HIDE DEF u
  <2> QED BY <1>1, <1>2, <1>u, <2>1, <2>2
<1> HIDE DEF bad, fails, pc, i, u, failed
<1>d. /\ k \in Deploy!Runs /\ k.bad = bad /\ k.fails = fails /\ k.pc = pc /\ k.i = i /\ k.mode = v7[p].mode
      /\ k.script = v7[p].script /\ k.crossed = v7[p].crossed /\ k.since = v7[p].since
      /\ k.dir = v7[p].dir /\ k.logs = v7[p].logs /\ k.seen = v7[p].seen /\ k.mixed = v7[p].mixed
  <2>1. v7[p] \in Deploy!Runs
    BY <1>2
  <2> QED BY <1>b, <1>u, <2>1 DEF Deploy!Runs
<1> HIDE DEF k
<1>5. /\ v7'[p] \in Deploy!Runs /\ v7'[p].bad = bad /\ v7'[p].fails = fails /\ v7'[p].pc = pc /\ v7'[p].i = i
      /\ v7'[p].mode = v7[p].mode /\ v7'[p].script = v7[p].script /\ v7'[p].crossed = v7[p].crossed
      /\ v7'[p].since = v7[p].since /\ v7'[p].dir = v7[p].dir /\ v7'[p].logs = v7[p].logs
      /\ v7'[p].seen = v7[p].seen /\ v7'[p].mixed = v7[p].mixed
  BY <1>a, <1>d
<1>6. Deploy!Place(p)'
  <2>1. v7'[p].dir \in DeployDir /\ v7'[p].since <= v2' /\ v7'[p].mode = "systemd"
    BY <1>2, <1>5, <1>p
  <2> QED BY <1>5, <1>b, <2>1 DEF Deploy!Place
<1>7. Deploy!LogsTrue(p)'
  <2>1. v7[p].pc # "idle" /\ v7'[p].pc # "idle" /\ v6' = v6
    BY <1>2, <1>5, <1>b
  <2> QED BY <1>5, <1>p, <2>1, DeployLogs
<1>8. Deploy!Verdict(p)'
  <2>1. Deploy!Found(p)' = Deploy!Found(p)
    BY <1>5, DeployFound
  <2>2. "restart" \notin Deploy!Lenient(p) /\ Deploy!Lenient(p)' = Deploy!Lenient(p)
    BY <1>5 DEF Deploy!Lenient
  <2>3. ~Deploy!Scanned(p) /\ ~Deploy!Scanned(p)'
    BY <1>2, <1>5, <1>b DEF Deploy!Scanned
  <2>4. failed => Deploy!Blamed(p)' /\ v7'[p].bad
    BY <1>5, <1>b, <1>c, <2>2 DEF Deploy!Blamed
  <2>5. ~failed => (Deploy!Blamed(p)' <=> Deploy!Blamed(p)) /\ (v7'[p].bad <=> v7[p].bad)
    BY <1>5, <1>c, <2>2 DEF Deploy!Blamed
  <2> QED BY <1>5, <1>p, <2>1, <2>3, <2>4, <2>5 DEF Deploy!Verdict
<1>9. Deploy!Renewed(p)'
  <2>1. Deploy!Reached(p) = {DeployUnits[j] : j \in 1..(v7[p].i - 1)}
    BY <1>2 DEF Deploy!Reached
  <2>2. {DeployUnits[j] : j \in 1..v7[p].i} \subseteq Deploy!Reached(p) \cup {u}
    BY <1>u, <2>1
  <2>3. Deploy!Reached(p)' \subseteq {DeployUnits[j] : j \in 1..v7[p].i}
    <3>1. CASE pc = "collect" /\ dev /\ i = v7[p].i
      BY <1>5, <1>p, <3>1 DEF Deploy!Reached
    <3>2. CASE pc = "collect" /\ ~dev /\ Deploy!LastUnit(p)
      <4>1. Deploy!Reached(p)' = Deploy!Unit
        BY <1>5, <1>p, <3>2 DEF Deploy!Reached, Deploy!Restarted
      <4> QED BY <1>u, <3>2, <4>1
    <3>3. CASE pc = "restart" /\ ~dev /\ i = v7[p].i + 1
      <4>1. Deploy!Reached(p)' = {DeployUnits[j] : j \in 1..(v7'[p].i - 1)}
        BY <1>5, <3>3 DEF Deploy!Reached
      <4>2. v7'[p].i - 1 = v7[p].i
        BY <1>5, <1>u, <3>3
      <4> QED BY <4>1, <4>2
    <3> QED BY <1>e, <3>1, <3>2, <3>3
  <2>4. SUFFICES ASSUME ~bad, "build" \notin fails, NEW x \in Deploy!Reached(p)' \ v7[p].crossed
                 PROVE  v4'[x].rev >= v7[p].since
    BY <1>5, <1>b DEF Deploy!Renewed
  <2>5. ~failed /\ ~v7[p].bad /\ "build" \notin v7[p].fails
    BY <1>c, <2>4
  <2>6. CASE x = u
    BY <1>2, <1>n, <1>p, <2>5, <2>6 DEF Deploy!Fresh
  <2>7. CASE x # u
    <3>1. x \in Deploy!Reached(p) \ v7[p].crossed
      BY <2>2, <2>3, <2>4, <2>7
    <3>2. Deploy!Reached(p) \subseteq Deploy!Unit
      BY <1>2, DeployReached
    <3> QED BY <1>p, <1>t, <2>5, <2>7, <3>1, <3>2 DEF Deploy!Renewed
  <2> QED BY <2>6, <2>7
<1>10. ASSUME NEW q \in DeployProc, q # p PROVE v7'[q] \in Deploy!Runs /\ Deploy!RunSafe(q)'
  <2> DEFINE c == v7[q].crossed \cup IF v7[q].pc = "idle" THEN {} ELSE {u}
  <2>1. v7'[q] = [v7[q] EXCEPT !.crossed = c] /\ v7[q] \in Deploy!Runs
    BY <1>2, <1>10, <1>a
  <2>2. c \in SUBSET Deploy!Unit /\ v7[q].mixed \in BOOLEAN
    BY <1>u, <2>1 DEF Deploy!Runs
  <2>3. v7[q].crossed \subseteq c /\ (v7[q].pc # "idle" => u \in c)
    OBVIOUS
  <2> HIDE DEF c
  <2>4. v7'[q] = [v7[q] EXCEPT !.crossed = c, !.mixed = v7[q].mixed]
    BY <2>1, DeployStaysMixed
  <2>5. v7[q].pc = "idle" \/ (\A x \in Deploy!Unit \ c : v4'[x].rev = v4[x].rev)
    BY <1>t, <2>3
  <2>6. \A x \in Deploy!Unit : v3'[x] \in Nat /\ (v3'[x] = v3[x] \/ v3'[x] >= v2)
    BY <1>2
  <2>7. v6'[v7[q].dir] = v6[v7[q].dir] /\ v2' = v2
    BY <1>2
  <2> QED BY <2>2, <2>3, <2>4, <2>5, <2>6, <2>7, DeployHears
<1>11. ASSUME NEW q \in DeployProc PROVE v7'[q] \in Deploy!Runs /\ Deploy!RunSafe(q)'
  BY <1>5, <1>6, <1>7, <1>8, <1>9, <1>10 DEF Deploy!RunSafe
<1>12. v7' \in [DeployProc -> Deploy!Runs]
  BY <1>a, <1>11
<1>13. Deploy!Types'
  BY <1>2, <1>12, <1>t DEF Deploy!Types
<1> QED BY <1>11, <1>13 DEF Deploy!Safe

LEMMA DeployCollect == ASSUME Deploy!Assumed, Deploy!Safe, NEW p \in DeployProc, Deploy!Collect(p) PROVE Deploy!Safe'
<1> DEFINE u == Deploy!AtUnit(p)
           dev == v7[p].script = "dev"
           pc == IF ~Deploy!LastUnit(p) THEN (IF dev /\ v7[p].mode = "systemd" THEN "restart" ELSE "collect")
                 ELSE IF dev THEN "smoke" ELSE "scan"
           i == IF Deploy!LastUnit(p) THEN 1 ELSE v7[p].i + 1
<1>2. v7[p].pc = "collect" /\ UNCHANGED <<v2, v3, v4, v5>> /\ v7[p] \in Deploy!Runs /\ v7 \in [DeployProc -> Deploy!Runs] /\ v2 \in Nat /\ Deploy!Types
      /\ v3 \in [Deploy!Unit -> Nat] /\ v4 \in [Deploy!Unit -> [rev : Nat, ok : BOOLEAN, err : BOOLEAN]]
      /\ v5 \in [Deploy!Unit -> BOOLEAN] /\ v6 \in [DeployDir -> [Deploy!Unit -> {"none", "clean", "old", "error"}]]
  BY DEF Deploy!Collect, Deploy!TakeLog, Deploy!SkipLog, Deploy!Safe, Deploy!Types
<1>1. PICK log \in {Deploy!LogOf(p, u), "none"}, listed \in BOOLEAN :
        /\ v6' = IF listed THEN [v6 EXCEPT ![v7[p].dir][u] = log] ELSE v6
        /\ v7'[p] = Deploy!Taken(p, u, log, listed)
        /\ v7' = [q \in DeployProc |-> v7'[q]]
        /\ listed => \A q \in DeployProc \ {p} :
             v7'[q] = [v7[q] EXCEPT !.mixed = v7[q].mixed \/ (v7[q].pc # "idle" /\ v7[q].dir = v7[p].dir)]
        /\ ~listed => (\A q \in DeployProc \ {p} : v7'[q] = v7[q]) /\ log = "none"
             /\ v7[p].mode = "compose" /\ (dev \/ "services" \in v7[p].fails)
  <2>1. CASE Deploy!TakeLog(p)
    <3>1. PICK log \in {Deploy!LogOf(p, u), "none"} :
            /\ v6' = [v6 EXCEPT ![v7[p].dir][u] = log]
            /\ v7' = [q \in DeployProc |-> IF q = p THEN Deploy!Taken(p, u, log, TRUE) ELSE
                      [v7[q] EXCEPT !.mixed = v7[q].mixed \/ (v7[q].pc # "idle" /\ v7[q].dir = v7[p].dir)]]
      BY <2>1 DEF Deploy!TakeLog
    <3> WITNESS log \in {Deploy!LogOf(p, u), "none"}, TRUE \in BOOLEAN
    <3> QED BY <3>1
  <2>2. CASE Deploy!SkipLog(p)
    <3>1. /\ v7' = [v7 EXCEPT ![p] = Deploy!Taken(p, u, "none", FALSE)] /\ v6' = v6
          /\ v7[p].mode = "compose" /\ (dev \/ "services" \in v7[p].fails)
      BY <2>2 DEF Deploy!SkipLog
    <3> WITNESS "none" \in {Deploy!LogOf(p, u), "none"}, FALSE \in BOOLEAN
    <3> QED BY <1>2, <3>1
  <2> QED BY <2>1, <2>2 DEF Deploy!Collect
<1>u. u \in Deploy!Unit /\ u = DeployUnits[v7[p].i] /\ v7[p].i \in 1..Len(DeployUnits)
      /\ i \in DOMAIN DeployUnits /\ (Deploy!LastUnit(p) => {DeployUnits[j] : j \in 1..v7[p].i} = Deploy!Unit)
  BY <1>2, DeployAt
<1>p. v7[p].dir \in DeployDir /\ v7[p].since <= v2 /\ v7[p].since \in Nat
      /\ Deploy!Verdict(p) /\ Deploy!LogsTrue(p) /\ Deploy!Renewed(p)
  BY <1>2 DEF Deploy!Safe, Deploy!RunSafe, Deploy!Place, Deploy!Runs
<1>l. log \in {"none", "clean", "old", "error"} /\ (log = "old" => v7[p].mode \in {"systemd", "fallback"})
  BY <1>1 DEF Deploy!LogOf
<1> DEFINE failed == log = "none"
           counts == failed /\ listed /\ ~dev /\ v7[p].mode # "fallback"
           bad == v7[p].bad \/ counts
           fails == IF failed THEN v7[p].fails \cup {"logs"} ELSE v7[p].fails
           seen == IF listed THEN [v7[p].seen EXCEPT ![u] = log] ELSE v7[p].seen
           logs == IF listed /\ (dev \/ ~failed) THEN v7[p].logs \cup {u} ELSE v7[p].logs
           k == [v7[p] EXCEPT !.pc = pc, !.i = i, !.seen = seen, !.logs = logs, !.bad = bad, !.fails = fails]
<1>a. v7'[p] = k
  <2>1. v7[p] \in Deploy!Runs
    BY <1>2
  <2> QED BY <1>1, <2>1 DEF Deploy!Taken, Deploy!Runs
<1>b. /\ bad \in BOOLEAN /\ fails \in SUBSET {"services", "build", "up", "deps", "restart", "rebuild", "logs", "scanner", "smoke"} /\ pc \in {"restart", "collect", "smoke", "scan"}
      /\ logs \in SUBSET Deploy!Unit /\ seen \in [Deploy!Unit -> {"none", "clean", "old", "error"}]
  <2>1. v7[p].seen \in [Deploy!Unit -> {"none", "clean", "old", "error"}] /\ v7[p].logs \in SUBSET Deploy!Unit
        /\ v7[p].fails \in SUBSET {"services", "build", "up", "deps", "restart", "rebuild", "logs", "scanner", "smoke"} /\ v7[p].bad \in BOOLEAN
    BY <1>2 DEF Deploy!Runs
  <2>2. logs \in SUBSET Deploy!Unit
    BY <1>u, <2>1
  <2>3. fails \in SUBSET {"services", "build", "up", "deps", "restart", "rebuild", "logs", "scanner", "smoke"}
    BY <2>1
  <2>4. seen \in [Deploy!Unit -> {"none", "clean", "old", "error"}]
    BY <1>l, <1>u, <2>1
  <2> QED BY <2>1, <2>2, <2>3, <2>4
<1>c. /\ (bad <=> v7[p].bad \/ counts) /\ (failed => fails = v7[p].fails \cup {"logs"}) /\ (~failed => fails = v7[p].fails)
      /\ logs = v7[p].logs \/ (listed /\ logs = v7[p].logs \cup {u})
      /\ ~failed => u \in logs
      /\ counts => failed /\ ~dev /\ v7[p].mode # "fallback"
      /\ failed /\ ~counts => dev \/ v7[p].mode = "fallback" \/ (v7[p].mode = "compose" /\ "services" \in v7[p].fails)
  BY <1>1
<1>e. /\ pc = "restart" => dev /\ v7[p].mode = "systemd" /\ i = v7[p].i + 1
      /\ pc = "collect" => ~(dev /\ v7[p].mode = "systemd")
      /\ pc = "smoke" => dev
      /\ pc = "scan" => ~dev
      /\ pc \in {"smoke", "scan"} => Deploy!LastUnit(p)
  OBVIOUS
<1>s. (listed => seen[u] = log) /\ (~listed => seen = v7[p].seen)
      /\ \A x \in Deploy!Unit \ {u} : seen[x] = v7[p].seen[x]
  <2>1. v7[p].seen \in [Deploy!Unit -> {"none", "clean", "old", "error"}]
    BY <1>2 DEF Deploy!Runs
  <2> QED BY <1>u, <2>1
<1>t. /\ v6' \in [DeployDir -> [Deploy!Unit -> {"none", "clean", "old", "error"}]]
      /\ (listed => v6'[v7[p].dir][u] = log) /\ (~listed => v6' = v6)
      /\ \A x \in Deploy!Unit \ {u} : v6'[v7[p].dir][x] = v6[v7[p].dir][x]
      /\ \A e \in DeployDir \ {v7[p].dir} : v6'[e] = v6[e]
  <2> DEFINE d == v7[p].dir
  <2>0. d \in DeployDir /\ (~listed => v6' = v6)
    BY <1>1, <1>p
  <2>n. CASE ~listed
    BY <1>2, <2>0, <2>n
  <2>y. SUFFICES ASSUME listed
                 PROVE  /\ v6' \in [DeployDir -> [Deploy!Unit -> {"none", "clean", "old", "error"}]]
                        /\ (listed => v6'[v7[p].dir][u] = log) /\ (~listed => v6' = v6)
                        /\ \A x \in Deploy!Unit \ {u} : v6'[v7[p].dir][x] = v6[v7[p].dir][x]
                        /\ \A e \in DeployDir \ {v7[p].dir} : v6'[e] = v6[e]
    BY <2>n
  <2>1. v6' = [v6 EXCEPT ![d] = [v6[d] EXCEPT ![u] = log]] /\ d \in DeployDir
    BY <1>1, <1>p, <2>y
  <2> HIDE DEF d, u
  <2>2. v6[d] \in [Deploy!Unit -> {"none", "clean", "old", "error"}]
    BY <1>2, <2>1
  <2>3. /\ v6' \in [DeployDir -> [Deploy!Unit -> {"none", "clean", "old", "error"}]]
        /\ v6'[d][u] = log /\ \A x \in Deploy!Unit \ {u} : v6'[d][x] = v6[d][x]
        /\ \A e \in DeployDir \ {d} : v6'[e] = v6[e]
    BY <1>2, <1>l, <1>u, <2>1, <2>2
  <2> QED BY <2>3, <2>y DEF d
<1> HIDE DEF bad, fails, pc, i, u, failed, counts, seen, logs
<1>d. /\ k \in Deploy!Runs /\ k.bad = bad /\ k.fails = fails /\ k.pc = pc /\ k.i = i /\ k.mode = v7[p].mode
      /\ k.script = v7[p].script /\ k.crossed = v7[p].crossed /\ k.since = v7[p].since
      /\ k.dir = v7[p].dir /\ k.logs = logs /\ k.seen = seen /\ k.mixed = v7[p].mixed
  <2>1. v7[p] \in Deploy!Runs
    BY <1>2
  <2> QED BY <1>b, <1>u, <2>1 DEF Deploy!Runs
<1> HIDE DEF k
<1>5. /\ v7'[p] \in Deploy!Runs /\ v7'[p].bad = bad /\ v7'[p].fails = fails /\ v7'[p].pc = pc /\ v7'[p].i = i
      /\ v7'[p].mode = v7[p].mode /\ v7'[p].script = v7[p].script /\ v7'[p].crossed = v7[p].crossed
      /\ v7'[p].since = v7[p].since /\ v7'[p].dir = v7[p].dir /\ v7'[p].logs = logs
      /\ v7'[p].seen = seen /\ v7'[p].mixed = v7[p].mixed
  BY <1>a, <1>d
<1>6. Deploy!Place(p)'
  <2>1. v7'[p].dir \in DeployDir /\ v7'[p].since <= v2'
    BY <1>2, <1>5, <1>p
  <2> QED BY <1>5, <1>b, <1>e, <2>1 DEF Deploy!Place
<1>x. "old" \in Deploy!Found(p)' => v7[p].mode \in {"systemd", "fallback"}
  <2>1. ASSUME NEW x \in Deploy!Unit, seen[x] = "old" PROVE v7[p].mode \in {"systemd", "fallback"}
    <3>1. CASE x = u /\ listed
      BY <1>l, <1>s, <2>1, <3>1
    <3>2. CASE ~(x = u /\ listed)
      <4>1. v7[p].seen[x] = "old"
        BY <1>s, <2>1, <3>2
      <4> QED BY <1>p, <4>1 DEF Deploy!LogsTrue, Deploy!Found
    <3> QED BY <3>1, <3>2
  <2> QED BY <1>5, <2>1 DEF Deploy!Found
<1>7. Deploy!LogsTrue(p)'
  <2>1. ASSUME NEW x \in Deploy!Unit, seen[x] \in {"old", "error"} PROVE x \in logs
    <3>1. CASE x = u /\ listed
      BY <1>c, <1>s, <2>1, <3>1 DEF failed
    <3>2. CASE ~(x = u /\ listed)
      <4>1. v7[p].seen[x] \in {"old", "error"}
        BY <1>s, <2>1, <3>2
      <4> QED BY <1>c, <1>p, <4>1 DEF Deploy!LogsTrue
    <3> QED BY <3>1, <3>2
  <2>2. ASSUME ~v7[p].mixed, NEW x \in logs PROVE v6'[v7[p].dir][x] = seen[x]
    <3>1. CASE x = u /\ listed
      BY <1>s, <1>t, <3>1
    <3>2. CASE ~(x = u /\ listed)
      <4>1. x \in v7[p].logs /\ x \in Deploy!Unit
        BY <1>b, <1>c, <2>2, <3>2
      <4>2. v6[v7[p].dir][x] = v7[p].seen[x]
        BY <1>2, <1>p, <2>2, <4>1 DEF Deploy!LogsTrue
      <4> QED BY <1>s, <1>t, <3>2, <4>1, <4>2
    <3> QED BY <3>1, <3>2
  <2> QED BY <1>5, <1>b, <1>x, <2>1, <2>2 DEF Deploy!LogsTrue
<1>8. Deploy!Verdict(p)'
  <2>1. Deploy!Lenient(p)' = Deploy!Lenient(p) /\ (dev \/ v7[p].mode = "fallback" <=> "logs" \in Deploy!Lenient(p))
        /\ (v7[p].mode = "compose" => "services" \notin Deploy!Lenient(p))
    BY <1>5 DEF Deploy!Lenient
  <2>2. ~Deploy!Scanned(p) /\ ~Deploy!Scanned(p)'
    BY <1>2, <1>5, <1>b, <1>e DEF Deploy!Scanned
  <2>3. counts => Deploy!Blamed(p)' /\ v7'[p].bad
    BY <1>5, <1>b, <1>c, <2>1 DEF Deploy!Blamed
  <2>4. ~counts => (Deploy!Blamed(p)' <=> Deploy!Blamed(p)) /\ (v7'[p].bad <=> v7[p].bad)
    BY <1>5, <1>b, <1>c, <2>1 DEF Deploy!Blamed
  <2> QED BY <1>p, <2>2, <2>3, <2>4 DEF Deploy!Verdict
<1>9. Deploy!Renewed(p)'
  <2>1. Deploy!Reached(p)' = Deploy!Reached(p)
    <3>1. CASE dev /\ v7[p].mode = "systemd"
      <4>1. Deploy!Reached(p) = {DeployUnits[j] : j \in 1..v7[p].i}
        BY <1>2, <3>1 DEF Deploy!Reached
      <4>2. CASE pc = "restart"
        <5>1. Deploy!Reached(p)' = {DeployUnits[j] : j \in 1..(v7'[p].i - 1)}
          BY <1>5, <4>2 DEF Deploy!Reached
        <5>2. v7'[p].i - 1 = v7[p].i
          BY <1>5, <1>e, <1>u, <4>2
        <5> QED BY <4>1, <5>1, <5>2
      <4>3. CASE pc = "smoke"
        <5>1. Deploy!Reached(p)' = Deploy!Unit
          BY <1>5, <3>1, <4>3 DEF Deploy!Reached, Deploy!Restarted
        <5> QED BY <1>e, <1>u, <4>1, <4>3, <5>1
      <4> QED BY <1>b, <1>e, <3>1, <4>2, <4>3
    <3>2. CASE ~(dev /\ v7[p].mode = "systemd")
      <4>1. Deploy!Reached(p) = Deploy!Restarted(p)
        BY <1>2, <3>2 DEF Deploy!Reached
      <4>2. Deploy!Reached(p)' = Deploy!Restarted(p)'
        BY <1>5, <1>b, <1>e, <3>2 DEF Deploy!Reached
      <4>3. Deploy!Restarted(p)' = Deploy!Restarted(p)
        BY <1>5 DEF Deploy!Restarted
      <4> QED BY <4>1, <4>2, <4>3
    <3> QED BY <3>1, <3>2
  <2>2. ~bad => ~v7[p].bad
    BY <1>c
  <2>3. "build" \notin fails => "build" \notin v7[p].fails
    BY <1>c
  <2> QED BY <1>2, <1>5, <1>b, <1>p, <2>1, <2>2, <2>3 DEF Deploy!Renewed
<1>10. ASSUME NEW q \in DeployProc, q # p PROVE v7'[q] \in Deploy!Runs /\ Deploy!RunSafe(q)'
  <2>n. CASE ~listed
    BY <1>1, <1>2, <1>10, <2>n, DeployAside
  <2>y. SUFFICES ASSUME listed PROVE v7'[q] \in Deploy!Runs /\ Deploy!RunSafe(q)'
    BY <2>n
  <2> DEFINE m == v7[q].mixed \/ (v7[q].pc # "idle" /\ v7[q].dir = v7[p].dir)
  <2>1. v7'[q] = [v7[q] EXCEPT !.mixed = m] /\ v7[q] \in Deploy!Runs
    BY <1>1, <1>2, <1>10, <2>y
  <2>2. m \in BOOLEAN /\ v7[q].crossed \in SUBSET Deploy!Unit
    BY <2>1 DEF Deploy!Runs
  <2>3. (v7[q].mixed => m) /\ (v7[q].pc # "idle" /\ ~m => v7[q].dir # v7[p].dir)
    OBVIOUS
  <2> HIDE DEF m
  <2>4. v7'[q] = [v7[q] EXCEPT !.crossed = v7[q].crossed, !.mixed = m]
    BY <2>1 DEF Deploy!Runs
  <2>5. v7[q].pc # "idle" => v7[q].dir \in DeployDir
    BY DEF Deploy!Safe, Deploy!RunSafe, Deploy!Place
  <2>6. v7[q].pc = "idle" \/ m \/ v6'[v7[q].dir] = v6[v7[q].dir]
    BY <1>t, <2>3, <2>5
  <2>7. (\A x \in Deploy!Unit : v3'[x] \in Nat /\ (v3'[x] = v3[x] \/ v3'[x] >= v2)) /\ v2' = v2
    BY <1>2
  <2>8. v7[q].pc = "idle" \/ (\A x \in Deploy!Unit \ v7[q].crossed : v4'[x].rev = v4[x].rev)
    BY <1>2
  <2> QED BY <2>2, <2>3, <2>4, <2>6, <2>7, <2>8, DeployHears
<1>11. ASSUME NEW q \in DeployProc PROVE v7'[q] \in Deploy!Runs /\ Deploy!RunSafe(q)'
  BY <1>5, <1>6, <1>7, <1>8, <1>9, <1>10 DEF Deploy!RunSafe
<1>12. v7' \in [DeployProc -> Deploy!Runs]
  BY <1>1, <1>11
<1>13. Deploy!Types'
  BY <1>2, <1>12, <1>t DEF Deploy!Types
<1> QED BY <1>11, <1>13 DEF Deploy!Safe

LEMMA DeployStep == ASSUME Deploy!Assumed, Deploy!Safe, Deploy!Next PROVE Deploy!Safe'
<1>1. CASE Deploy!ChangeSource \/ \E u \in Deploy!Unit : Deploy!Live(u)
  BY <1>1, DeployLive
<1>2. ASSUME NEW p \in DeployProc,
             \/ Deploy!Start(p) \/ Deploy!Services(p) \/ Deploy!Build(p) \/ Deploy!Up(p) \/ Deploy!Dependencies(p) \/ Deploy!Restart(p)
             \/ Deploy!Fallback(p) \/ Deploy!Collect(p) \/ Deploy!Smoke(p) \/ Deploy!Scan(p)
      PROVE  Deploy!Safe'
  BY <1>2, DeployStart, DeployServices, DeployBuild, DeployUp, DeployDependencies, DeployRestart, DeployFallback, DeployCollect,
     DeploySmoke, DeployScan
<1> QED BY <1>1, <1>2 DEF Deploy!Next

LEMMA DeploySame == ASSUME Deploy!Safe, UNCHANGED Deploy!vars PROVE Deploy!Safe'
<1>1. /\ v2' = v2 /\ v3' = v3 /\ v4' = v4 /\ v5' = v5 /\ v6' = v6 /\ v7' = v7
  BY DEF Deploy!vars
<1>2. Deploy!Types' <=> Deploy!Types
  BY <1>1 DEF Deploy!Types
<1>3. ASSUME NEW p \in DeployProc PROVE Deploy!RunSafe(p)' <=> Deploy!RunSafe(p)
  <2>1. (Deploy!Place(p)' <=> Deploy!Place(p)) /\ Deploy!Found(p)' = Deploy!Found(p) /\ Deploy!Reached(p)' = Deploy!Reached(p)
        /\ Deploy!Lenient(p)' = Deploy!Lenient(p) /\ (Deploy!Scanned(p)' <=> Deploy!Scanned(p))
    BY <1>1 DEF Deploy!Place, Deploy!Found, Deploy!Reached, Deploy!Restarted, Deploy!Lenient, Deploy!Scanned
  <2>2. (Deploy!Blamed(p)' <=> Deploy!Blamed(p))
    BY <1>1, <2>1 DEF Deploy!Blamed
  <2>3. (Deploy!Verdict(p)' <=> Deploy!Verdict(p)) /\ (Deploy!LogsTrue(p)' <=> Deploy!LogsTrue(p))
    BY <1>1, <2>1, <2>2 DEF Deploy!Verdict, Deploy!LogsTrue
  <2>4. (Deploy!Renewed(p)' <=> Deploy!Renewed(p))
    BY <1>1, <2>1 DEF Deploy!Renewed
  <2> QED BY <2>1, <2>3, <2>4 DEF Deploy!RunSafe
<1> QED BY <1>2, <1>3 DEF Deploy!Safe

LEMMA DeployMeans == ASSUME Deploy!Safe PROVE Deploy!VerdictTrue
<1>1. SUFFICES ASSUME NEW p \in DeployProc, v7[p].pc = "end"
               PROVE  /\ ~v7[p].bad =>
                           /\ v7[p].fails \subseteq Deploy!Lenient(p)
                           /\ ~(v7[p].script = "dev" /\ "build" \in v7[p].fails) =>
                                \A u \in Deploy!Restarted(p) \ v7[p].crossed : v4[u].rev >= v7[p].since
                           /\ ~v7[p].mixed => "error" \notin Deploy!Found(p)
                      /\ v7[p].bad /\ ~v7[p].mixed =>
                           \/ v7[p].fails \ Deploy!Lenient(p) # {}
                           \/ "error" \in Deploy!Found(p)
                           \/ v7[p].mode \in {"systemd", "fallback"} /\ "old" \in Deploy!Found(p)
  BY DEF Deploy!VerdictTrue, Deploy!Lenient, Deploy!Found
<1>2. Deploy!Verdict(p) /\ Deploy!Renewed(p)
  BY DEF Deploy!Safe, Deploy!RunSafe
<1>3. Deploy!Scanned(p) /\ Deploy!Reached(p) = Deploy!Restarted(p)
  BY <1>1 DEF Deploy!Scanned, Deploy!Reached
<1>4. ~v7[p].bad => v7[p].fails \subseteq Deploy!Lenient(p)
  BY <1>2 DEF Deploy!Verdict, Deploy!Blamed
<1>5. ~v7[p].bad /\ "build" \in v7[p].fails => v7[p].script = "dev"
  BY <1>4 DEF Deploy!Lenient
<1>6. ~v7[p].bad /\ "build" \notin v7[p].fails =>
        \A u \in Deploy!Restarted(p) \ v7[p].crossed : v4[u].rev >= v7[p].since
  BY <1>2, <1>3 DEF Deploy!Renewed
<1>7. ~v7[p].bad /\ ~v7[p].mixed => "error" \notin Deploy!Found(p)
  BY <1>2, <1>3 DEF Deploy!Verdict
<1>8. v7[p].bad /\ ~v7[p].mixed =>
        Deploy!Blamed(p) \/ "error" \in Deploy!Found(p) \/ (v7[p].mode \in {"systemd", "fallback"} /\ "old" \in Deploy!Found(p))
  BY <1>2 DEF Deploy!Verdict
<1> QED BY <1>4, <1>5, <1>6, <1>7, <1>8 DEF Deploy!Blamed

\* A run that stood up the identity stack left it as its environment says and took
\* back nobody's change, and a redeploy's verdict is that of its steps, its logs
\* and the revisions it started, but in the ways that DeploymentsTrue lists
\* (keycloak and killbill in delivery, dev-redeploy.sh and local-redeploy.sh).
THEOREM DeploymentsAreTrue == Spec => []DeploymentsTrue
<1> DEFINE Safe == /\ program = "stack" => Stack!Safe
                   /\ program = "redeploy" => Deploy!Safe
<1>0. Stack!Assumed /\ Deploy!Assumed
  BY StackAssumption, DeployAssumption
<1>1. Init => Safe
  BY <1>0, StackInit, DeployInit DEF Init
<1>2. ASSUME Safe, [Next]_vars PROVE Safe'
  <2>1. CASE Next
    <3>1. program' = program
      BY <2>1 DEF Next
    <3>2. ASSUME program = "stack" PROVE Stack!Safe'
      <4>1. Stack!Next /\ Stack!Safe
        BY <1>2, <2>1, <3>2 DEF Next
      <4> QED BY <1>0, <4>1, StackStep
    <3>3. ASSUME program = "redeploy" PROVE Deploy!Safe'
      <4>1. Deploy!Next /\ Deploy!Safe
        BY <1>2, <2>1, <3>3 DEF Next
      <4> QED BY <1>0, <4>1, DeployStep
    <3> QED BY <3>1, <3>2, <3>3
  <2>2. CASE UNCHANGED vars
    <3>1. /\ program' = program
          /\ UNCHANGED <<v1, v2, v3, v4, v5, v6, v7, v8, v9, v10, v11, v12, v13, v14, v15>>
      BY <2>2 DEF vars
    <3>2. Stack!Safe => Stack!Safe'
      BY <3>1, StackSame
    <3>3. Deploy!Safe => Deploy!Safe'
      BY <3>1, DeploySame DEF Deploy!vars
    <3> QED BY <1>2, <3>1, <3>2, <3>3
  <2> QED BY <1>2, <2>1, <2>2
<1>3. Safe => DeploymentsTrue
  BY <1>0, StackMeans, DeployMeans DEF DeploymentsTrue
<1> QED BY <1>1, <1>2, <1>3, PTL DEF Spec

-----------------------------------------------------------------------------
(* The memory server: v1 to v12 are notes, changed, ask, pc, put, at, graph, todo, *)
(* texts, edits, excused and foreign of ObsidianMemory.                            *)

\* What the requests are, and that the mark of an open file that was replaced
\* is not a path.
LEMMA NotesAsked ==
  ASSUME Obsidian!Assumed, Obsidian!Types, NEW c \in NotesCall
  PROVE  /\ v3[c].op \in {"upsert", "move", "link", "suggest"} /\ v3[c].note \in NotesPath
         /\ v3[c].op \in {"move", "link"} => v3[c].to \in NotesPath
         /\ v3[c].op \notin {"move", "link"} => v3[c].to \in SUBSET NotesPath
         /\ Obsidian!Gone \notin NotesPath /\ NotesHome \in NotesPath
<1>1. v3[c] \in NotesRequests
  BY DEF Obsidian!Types
<1> QED BY <1>1 DEF Obsidian!Assumed

LEMMA NotesCounts == \A S : Obsidian!Cardinality(S) = Cardinality(S) /\ (Obsidian!IsFiniteSet(S) <=> IsFiniteSet(S))
BY DEF Obsidian!Cardinality, Cardinality, Obsidian!IsFiniteSet, IsFiniteSet

LEMMA NotesContents ==
  ASSUME Obsidian!Assumed
  PROVE  /\ Obsidian!Empty \in Obsidian!Contents /\ Obsidian!None \in Obsidian!Contents
         /\ Obsidian!Empty.text = 0 /\ Obsidian!None.text = 0 /\ Obsidian!Empty.links = {}
         /\ Obsidian!None.links = {Obsidian!Gone}
BY DEF Obsidian!Empty, Obsidian!None, Obsidian!Contents

\* A text that may be lost may be lost for ever.
LEMMA NotesCover ==
  ASSUME v11 \subseteq v11', NEW x, NEW y, (x \in v11 \cup {0} /\ y \in v11 \cup {0}) \/ x = y
  PROVE  x = y \/ {x, y} \subseteq v11' \cup {0}
OBVIOUS

\* In the beginning each text is in a note, and no call has done anything.
LEMMA NotesInit == ASSUME Obsidian!Assumed, Obsidian!Init PROVE Obsidian!Safe
<1>1. v1 \in NotesVaults /\ v9 = Cardinality(Obsidian!Existing)
  BY NotesCounts DEF Obsidian!Init
<1>2. v1 \in [NotesPath -> Obsidian!Contents] /\ IsFiniteSet(Obsidian!Existing)
      /\ 1 .. Cardinality(Obsidian!Existing) \subseteq {v1[n].text : n \in Obsidian!Existing}
  BY <1>1, NotesCounts DEF Obsidian!Assumed, Obsidian!Existing, Obsidian!Exists
<1>3. v9 \in Nat
  BY <1>1, <1>2, FS_CardinalityType
<1>4. \A c \in NotesCall : v4[c] = "start" /\ v7[c] = Obsidian!NoGraph
  BY DEF Obsidian!Init
<1>5. Obsidian!Types
  <2>1. Obsidian!NoPut \in [note : NotesPath, content : Obsidian!Contents, next : {"graph", "patch", "to", "done"}]
    BY NotesContents DEF Obsidian!NoPut, Obsidian!Assumed
  <2>2. Obsidian!NoGraph \in [notes : SUBSET NotesPath, links : SUBSET (NotesPath \X NotesPath)]
    BY DEF Obsidian!NoGraph
  <2> QED BY <1>2, <1>3, <2>1, <2>2 DEF Obsidian!Types, Obsidian!Init
<1>6. Obsidian!TextsKept
  BY <1>1, <1>2 DEF Obsidian!TextsKept, Obsidian!Existing
<1>7. \A c \in NotesCall : ~Obsidian!Putting(c) /\ \A n \in NotesPath : ~Obsidian!InHand(c, n)
  BY <1>4 DEF Obsidian!Putting, Obsidian!InHand
<1>8. Obsidian!Places
  BY <1>4, <1>7 DEF Obsidian!Places, Obsidian!Goes
<1>9. Obsidian!HandsKeep
  BY <1>4, <1>7 DEF Obsidian!HandsKeep
<1>10. \A c \in NotesCall : Obsidian!MoveKeeps(c)
  BY <1>4, <1>7 DEF Obsidian!MoveKeeps, Obsidian!Goes
<1> QED BY <1>5, <1>6, <1>8, <1>9, <1>10 DEF Obsidian!Safe

\* A step that neither begins nor ends a write.
LEMMA NotesPass ==
  ASSUME Obsidian!Assumed, Obsidian!Safe, NEW c \in NotesCall, ~Obsidian!Putting(c),
         UNCHANGED <<v1, v3, v5, v6, v9, v10, v11>>,
         NEW w \in {"graph", "backlink", "rename", "list", "patch", "from", "to", "done"},
         v4' = [v4 EXCEPT ![c] = w],
         NEW g \in [notes : SUBSET NotesPath, links : SUBSET (NotesPath \X NotesPath)],
         v7' = [v7 EXCEPT ![c] = g],
         NEW t \in SUBSET NotesPath, v8' = [v8 EXCEPT ![c] = t],
         NEW f \in SUBSET NotesPath, v12' = [v12 EXCEPT ![c] = f],
         w \in {"patch", "rename", "list"} => v3[c].op = "move",
         w \in {"from", "to"} => v3[c].op = "link",
         w = "patch" /\ v3[c].to # v3[c].note =>
           \A n \in NotesPath \ t : v3[c].note \in v1[n].links => n \in f
  PROVE  Obsidian!Safe'
<1>0. Obsidian!Types /\ Obsidian!Places /\ Obsidian!HandsKeep /\ Obsidian!TextsKept
      /\ \A d \in NotesCall : Obsidian!MoveKeeps(d)
  BY DEF Obsidian!Safe
<1>1. /\ v4'[c] = w /\ v7'[c] = g /\ v8'[c] = t /\ v12'[c] = f
      /\ \A d \in NotesCall \ {c} : v4'[d] = v4[d] /\ v7'[d] = v7[d] /\ v8'[d] = v8[d] /\ v12'[d] = v12[d]
  BY <1>0 DEF Obsidian!Types
<1>2. Obsidian!Types'
  BY <1>0 DEF Obsidian!Types
<1>3. \A d \in NotesCall : /\ Obsidian!Putting(d)' = Obsidian!Putting(d)
                           /\ \A n \in NotesPath : Obsidian!InHand(d, n)' = Obsidian!InHand(d, n)
  BY <1>1 DEF Obsidian!Putting, Obsidian!InHand, Obsidian!Fresh
<1>4. Obsidian!Places'
  BY <1>0, <1>1, <1>3 DEF Obsidian!Places, Obsidian!Goes
<1>5. Obsidian!HandsKeep'
  BY <1>0, <1>1, <1>3 DEF Obsidian!HandsKeep, Obsidian!Covers
<1>6. Obsidian!TextsKept'
  BY <1>0, <1>3 DEF Obsidian!TextsKept
<1>7. ASSUME NEW d \in NotesCall PROVE Obsidian!MoveKeeps(d)'
  <2>1. CASE d = c
    BY <1>1, <1>3, <2>1 DEF Obsidian!MoveKeeps, Obsidian!Goes, Obsidian!Behind
  <2>2. CASE d # c
    <3>1. Obsidian!MoveKeeps(d)
      BY <1>0
    <3>2. Obsidian!Behind(d)' = Obsidian!Behind(d)
      BY <1>1, <2>2 DEF Obsidian!Behind
    <3> QED BY <1>1, <1>3, <2>2, <3>1, <3>2 DEF Obsidian!MoveKeeps, Obsidian!Goes
  <2> QED BY <2>1, <2>2
<1> QED BY <1>2, <1>4, <1>5, <1>6, <1>7 DEF Obsidian!Safe

\* What a step leaves of the calls it does not touch.
LEMMA NotesHands ==
  ASSUME Obsidian!HandsKeep, v11 \subseteq v11', NEW S \in SUBSET NotesCall, NEW N \in SUBSET NotesPath,
         \A d \in S : /\ v5'[d] = v5[d] /\ (v4'[d] = "write" /\ v6'[d] = Obsidian!Gone => v4[d] = "write" /\ v6[d] = Obsidian!Gone)
                     /\ \A n \in N : Obsidian!InHand(d, n)' => Obsidian!InHand(d, n),
         \A n \in N : v1'[n].text \in {v1[n].text, 0}
  PROVE  /\ \A d \in S : \A n \in N :
              Obsidian!InHand(d, n)' => v1'[n].text = 0 \/ Obsidian!Covers(v5[d].content.text, v1[n].text)'
         /\ \A d, e \in S : \A n \in N : Obsidian!InHand(d, n)' /\ Obsidian!InHand(e, n)' =>
              Obsidian!Covers(v5[d].content.text, v5[e].content.text)'
         /\ \A d \in S : v4'[d] = "write" /\ v6'[d] = Obsidian!Gone => v5'[d].content.text \in v11' \cup {0}
<1>1. \A x, y : Obsidian!Covers(x, y) => Obsidian!Covers(x, y)'
  BY DEF Obsidian!Covers
<1> QED BY <1>1 DEF Obsidian!HandsKeep

\* writeText of what was read of note n.
LEMMA NotesTake ==
  ASSUME Obsidian!Assumed, Obsidian!Safe, NEW c \in NotesCall, ~Obsidian!Putting(c), NEW n \in NotesPath,
         NEW k \in Obsidian!Contents, k.text = v1[n].text, NEW next \in {"graph", "patch", "to", "done"},
         v5' = [v5 EXCEPT ![c] = [note |-> n, content |-> k, next |-> next]],
         v4' = [v4 EXCEPT ![c] = "truncate"],
         v11' = v11 \cup Obsidian!AtRisk(c, n, v1[n].text),
         UNCHANGED <<v1, v3, v6, v7, v8, v9, v10, v12>>,
         next = "patch" => v4[c] = "patch" /\ (v3[c].to # v3[c].note => v3[c].note \notin k.links),
         next = "to" => v3[c].op = "link"
  PROVE  Obsidian!Safe'
<1>0. Obsidian!Types /\ Obsidian!Places /\ Obsidian!HandsKeep /\ Obsidian!TextsKept
      /\ \A d \in NotesCall : Obsidian!MoveKeeps(d)
  BY DEF Obsidian!Safe
<1>1. /\ v4'[c] = "truncate" /\ v5'[c] = [note |-> n, content |-> k, next |-> next]
      /\ \A d \in NotesCall \ {c} : v4'[d] = v4[d] /\ v5'[d] = v5[d]
  BY <1>0 DEF Obsidian!Types
<1>2. Obsidian!Types'
  BY <1>0 DEF Obsidian!Types
<1>3. /\ \A d \in NotesCall \ {c} : /\ Obsidian!Putting(d)' = Obsidian!Putting(d)
                                   /\ \A m \in NotesPath : Obsidian!InHand(d, m)' = Obsidian!InHand(d, m)
      /\ \A m \in NotesPath : Obsidian!InHand(c, m)' => m = n
  BY <1>1 DEF Obsidian!Putting, Obsidian!InHand, Obsidian!Fresh
<1>4. Obsidian!Places'
  <2>1. \A d \in NotesCall \ {c} : \A next2 : Obsidian!Goes(d, next2)' = Obsidian!Goes(d, next2)
    BY <1>1, <1>3 DEF Obsidian!Goes
  <2>2. Obsidian!Goes(c, "patch")' => v3[c].op = "move"
    BY <1>0, <1>1 DEF Obsidian!Goes, Obsidian!Places
  <2>3. Obsidian!Goes(c, "to")' => v3[c].op = "link"
    BY <1>1 DEF Obsidian!Goes
  <2> QED BY <1>0, <1>1, <2>1, <2>2, <2>3 DEF Obsidian!Places
<1>5. Obsidian!HandsKeep'
  <2>1. v11 \subseteq v11'
    OBVIOUS
  <2>2. \A d \in NotesCall \ {c} : Obsidian!InHand(d, n) => {v1[n].text, v5[d].content.text} \subseteq v11'
    BY DEF Obsidian!AtRisk, Obsidian!Rivals
  <2>3. \A d \in NotesCall \ {c} : Obsidian!InHand(d, n)' => {v1[n].text, v5'[d].content.text} \subseteq v11'
    BY <1>1, <1>3, <2>2
  <2>4. /\ \A d \in NotesCall \ {c} : \A m \in NotesPath :
              Obsidian!InHand(d, m)' => v1'[m].text = 0 \/ Obsidian!Covers(v5[d].content.text, v1[m].text)'
        /\ \A d, e \in NotesCall \ {c} : \A m \in NotesPath : Obsidian!InHand(d, m)' /\ Obsidian!InHand(e, m)' =>
              Obsidian!Covers(v5[d].content.text, v5[e].content.text)'
        /\ \A d \in NotesCall \ {c} : v4'[d] = "write" /\ v6'[d] = Obsidian!Gone => v5'[d].content.text \in v11' \cup {0}
    <3> DEFINE S == NotesCall \ {c}
    <3>1. \A d \in S : /\ v5'[d] = v5[d] /\ (v4'[d] = "write" /\ v6'[d] = Obsidian!Gone => v4[d] = "write" /\ v6[d] = Obsidian!Gone)
                      /\ \A m \in NotesPath : Obsidian!InHand(d, m)' => Obsidian!InHand(d, m)
      BY <1>1, <1>3
    <3>2. S \in SUBSET NotesCall
      OBVIOUS
    <3> HIDE DEF S
    <3>3. \A m \in NotesPath : v1'[m].text \in {v1[m].text, 0}
      OBVIOUS
    <3>4. /\ \A d \in S : \A m \in NotesPath :
                Obsidian!InHand(d, m)' => v1'[m].text = 0 \/ Obsidian!Covers(v5[d].content.text, v1[m].text)'
          /\ \A d, e \in S : \A m \in NotesPath : Obsidian!InHand(d, m)' /\ Obsidian!InHand(e, m)' =>
                Obsidian!Covers(v5[d].content.text, v5[e].content.text)'
          /\ \A d \in S : v4'[d] = "write" /\ v6'[d] = Obsidian!Gone => v5'[d].content.text \in v11' \cup {0}
      BY <1>0, <2>1, <3>1, <3>2, <3>3, NotesHands
    <3> QED BY <3>4 DEF S
  <2>5. v5'[c].content.text = v1[n].text /\ v4'[c] # "write"
    BY <1>1
  <2>6. \A m \in NotesPath : Obsidian!InHand(c, m)' => Obsidian!Covers(v5[c].content.text, v1[m].text)'
    BY <1>3, <2>5 DEF Obsidian!Covers
  <2>7. \A d \in NotesCall : \A m \in NotesPath : Obsidian!InHand(c, m)' /\ Obsidian!InHand(d, m)' =>
          /\ Obsidian!Covers(v5[c].content.text, v5[d].content.text)'
          /\ Obsidian!Covers(v5[d].content.text, v5[c].content.text)'
    BY <1>3, <2>3, <2>5 DEF Obsidian!Covers
  <2>8. \A d, e \in NotesCall : \A m \in NotesPath : Obsidian!InHand(d, m)' /\ Obsidian!InHand(e, m)' =>
          Obsidian!Covers(v5[d].content.text, v5[e].content.text)'
    BY <2>4, <2>7
  <2>9. \A d \in NotesCall : \A m \in NotesPath :
          Obsidian!InHand(d, m)' => v1'[m].text = 0 \/ Obsidian!Covers(v5[d].content.text, v1[m].text)'
    BY <2>4, <2>6
  <2> QED BY <2>4, <2>5, <2>8, <2>9 DEF Obsidian!HandsKeep
<1>6. Obsidian!TextsKept'
  <2>1. \A d \in NotesCall : Obsidian!Putting(d) => Obsidian!Putting(d)' /\ v5'[d] = v5[d]
    BY <1>1, <1>3
  <2> QED BY <1>0, <2>1 DEF Obsidian!TextsKept
<1>7. ASSUME NEW d \in NotesCall PROVE Obsidian!MoveKeeps(d)'
  <2>0. Obsidian!MoveKeeps(d) /\ Obsidian!Behind(d)' \subseteq Obsidian!Behind(d)
    BY <1>0, <1>1 DEF Obsidian!Behind
  <2>1. CASE d = c
    BY <1>1, <2>0, <2>1 DEF Obsidian!MoveKeeps, Obsidian!Goes
  <2>2. CASE d # c
    BY <1>1, <1>3, <2>0, <2>2 DEF Obsidian!MoveKeeps, Obsidian!Goes
  <2> QED BY <2>1, <2>2
<1> QED BY <1>2, <1>4, <1>5, <1>6, <1>7 DEF Obsidian!Safe

\* upsert_note writes a text that no note and no other call has.
LEMMA NotesMake ==
  ASSUME Obsidian!Assumed, Obsidian!Safe, NEW c \in NotesCall, v4[c] = "start", v3[c].op = "upsert", NEW n \in NotesPath,
         NEW k \in Obsidian!Contents, k.text = v9 + 1, NEW next \in {"graph", "done"},
         v5' = [v5 EXCEPT ![c] = [note |-> n, content |-> k, next |-> next]],
         v4' = [v4 EXCEPT ![c] = "truncate"], v9' = v9 + 1,
         UNCHANGED <<v1, v3, v6, v7, v8, v10, v11, v12>>
  PROVE  Obsidian!Safe'
<1>0. Obsidian!Types /\ Obsidian!Places /\ Obsidian!HandsKeep /\ Obsidian!TextsKept
      /\ \A d \in NotesCall : Obsidian!MoveKeeps(d)
  BY DEF Obsidian!Safe
<1>1. /\ v4'[c] = "truncate" /\ v5'[c] = [note |-> n, content |-> k, next |-> next]
      /\ \A d \in NotesCall \ {c} : v4'[d] = v4[d] /\ v5'[d] = v5[d]
  BY <1>0 DEF Obsidian!Types
<1>2. Obsidian!Types'
  BY <1>0 DEF Obsidian!Types
<1>3. /\ \A d \in NotesCall \ {c} : /\ Obsidian!Putting(d)' = Obsidian!Putting(d)
                                   /\ \A m \in NotesPath : Obsidian!InHand(d, m)' = Obsidian!InHand(d, m)
      /\ \A m \in NotesPath : ~Obsidian!InHand(c, m)'
      /\ ~Obsidian!Putting(c) /\ Obsidian!Putting(c)'
  <2>1. Obsidian!Fresh(c)'
    BY <1>0 DEF Obsidian!Places, Obsidian!Fresh
  <2> QED BY <1>1, <2>1 DEF Obsidian!Putting, Obsidian!InHand, Obsidian!Fresh
<1>4. Obsidian!Places'
  <2>1. \A d \in NotesCall \ {c} : \A next2 : Obsidian!Goes(d, next2)' = Obsidian!Goes(d, next2)
    BY <1>1, <1>3 DEF Obsidian!Goes
  <2>2. ~Obsidian!Goes(c, "patch")' /\ ~Obsidian!Goes(c, "to")'
    BY <1>1 DEF Obsidian!Goes
  <2> QED BY <1>0, <1>1, <2>1, <2>2 DEF Obsidian!Places
<1>5. Obsidian!HandsKeep'
  <2> DEFINE S == NotesCall \ {c}
  <2>1. \A d \in S : /\ v5'[d] = v5[d] /\ (v4'[d] = "write" /\ v6'[d] = Obsidian!Gone => v4[d] = "write" /\ v6[d] = Obsidian!Gone)
                    /\ \A m \in NotesPath : Obsidian!InHand(d, m)' => Obsidian!InHand(d, m)
    BY <1>1, <1>3
  <2>2. S \in SUBSET NotesCall /\ (\A d \in NotesCall \ S : v4'[d] # "write" /\ \A m \in NotesPath : ~Obsidian!InHand(d, m)')
    BY <1>1, <1>3
  <2> HIDE DEF S
  <2>3. (\A m \in NotesPath : v1'[m].text \in {v1[m].text, 0}) /\ v11 \subseteq v11'
    OBVIOUS
  <2>4. /\ \A d \in S : \A m \in NotesPath :
              Obsidian!InHand(d, m)' => v1'[m].text = 0 \/ Obsidian!Covers(v5[d].content.text, v1[m].text)'
        /\ \A d, e \in S : \A m \in NotesPath : Obsidian!InHand(d, m)' /\ Obsidian!InHand(e, m)' =>
              Obsidian!Covers(v5[d].content.text, v5[e].content.text)'
        /\ \A d \in S : v4'[d] = "write" /\ v6'[d] = Obsidian!Gone => v5'[d].content.text \in v11' \cup {0}
    BY <1>0, <2>1, <2>2, <2>3, NotesHands
  <2> QED BY <2>2, <2>4 DEF Obsidian!HandsKeep
<1>6. Obsidian!TextsKept'
  <2>1. \A d \in NotesCall : Obsidian!Putting(d) => Obsidian!Putting(d)' /\ v5'[d] = v5[d]
    BY <1>1, <1>3
  <2>2. Obsidian!Putting(c)' /\ v5'[c].content.text = v9 + 1 /\ v9 \in Nat
    BY <1>0, <1>1, <1>3 DEF Obsidian!Types
  <2>3. \A x \in 1 .. v9' : x \in 1 .. v9 \/ x = v9 + 1
    BY <2>2
  <2> QED BY <1>0, <2>1, <2>2, <2>3 DEF Obsidian!TextsKept
<1>7. ASSUME NEW d \in NotesCall PROVE Obsidian!MoveKeeps(d)'
  <2>0. Obsidian!MoveKeeps(d) /\ Obsidian!Behind(d)' \subseteq Obsidian!Behind(d)
    BY <1>0, <1>1 DEF Obsidian!Behind
  <2>1. CASE d = c
    BY <1>1, <2>0, <2>1 DEF Obsidian!MoveKeeps, Obsidian!Goes
  <2>2. CASE d # c
    BY <1>1, <1>3, <2>0, <2>2 DEF Obsidian!MoveKeeps, Obsidian!Goes
  <2> QED BY <2>1, <2>2
<1> QED BY <1>2, <1>4, <1>5, <1>6, <1>7 DEF Obsidian!Safe

\* A move of another call, if it is told of the notes that change.
LEMMA NotesOthers ==
  ASSUME Obsidian!Safe, NEW d \in NotesCall, v3' = v3, v4'[d] = v4[d], v5'[d] = v5[d], v8'[d] = v8[d],
         v12[d] \subseteq v12'[d],
         \A n \in NotesPath : v3[d].note \in v1'[n].links => n \in v12'[d] \/ v3[d].note \in v1[n].links,
         v6'[d] \in NotesPath => v6'[d] = v6[d] \/ v6'[d] \in v12'[d]
  PROVE  Obsidian!MoveKeeps(d)'
<1>1. Obsidian!MoveKeeps(d)
  BY DEF Obsidian!Safe
<1>2. Obsidian!Goes(d, "patch")' = Obsidian!Goes(d, "patch") /\ Obsidian!Putting(d)' = Obsidian!Putting(d)
  BY DEF Obsidian!Goes, Obsidian!Putting
<1>3. \A n \in Obsidian!Behind(d)' : n \in NotesPath /\ (n \in Obsidian!Behind(d) \/ n \in v12'[d])
  BY DEF Obsidian!Behind
<1> QED BY <1>1, <1>2, <1>3 DEF Obsidian!MoveKeeps

\* The note is opened, and is empty.
LEMMA NotesTruncate ==
  ASSUME Obsidian!Assumed, Obsidian!Safe, NEW c \in NotesCall, Obsidian!Truncate(c) PROVE Obsidian!Safe'
<1> DEFINE n == v5[c].note
<1>0. Obsidian!Types /\ Obsidian!Places /\ Obsidian!HandsKeep /\ Obsidian!TextsKept
      /\ \A d \in NotesCall : Obsidian!MoveKeeps(d)
  BY DEF Obsidian!Safe
<1>1. /\ v4[c] = "truncate" /\ v4' = [v4 EXCEPT ![c] = "write"] /\ v1' = [v1 EXCEPT ![n] = Obsidian!Empty]
      /\ v6' = [v6 EXCEPT ![c] = n]
      /\ v12' = [d \in NotesCall |-> IF d = c THEN v12[d] ELSE v12[d] \cup {n}]
      /\ UNCHANGED <<v3, v5, v7, v8, v9, v10>>
      /\ Obsidian!Fresh(c) => v11' = v11 \cup {v1[n].text} \cup Obsidian!AtRisk(c, n, v5[c].content.text)
      /\ ~Obsidian!Fresh(c) => v11' = v11
  BY DEF Obsidian!Truncate, Obsidian!Go, Obsidian!Touch
<1>2. n \in NotesPath /\ n # Obsidian!Gone /\ v5[c].content.text \in Nat
  BY <1>0 DEF Obsidian!Types, Obsidian!Assumed, Obsidian!Contents
<1>3. /\ v4'[c] = "write" /\ v6'[c] = n /\ v12'[c] = v12[c]
      /\ \A d \in NotesCall \ {c} : v4'[d] = v4[d] /\ v6'[d] = v6[d] /\ v12'[d] = v12[d] \cup {n}
      /\ v1'[n].text = 0 /\ v1'[n].links = {} /\ \A m \in NotesPath \ {n} : v1'[m] = v1[m]
  BY <1>0, <1>1, <1>2, NotesContents DEF Obsidian!Types
<1>4. Obsidian!Types'
  <2>1. v1' \in [NotesPath -> Obsidian!Contents]
    BY <1>0, <1>1, NotesContents DEF Obsidian!Types
  <2>2. v12' \in [NotesCall -> SUBSET NotesPath] /\ v6' \in [NotesCall -> NotesPath \cup {Obsidian!Gone}]
    BY <1>0, <1>1, <1>2 DEF Obsidian!Types
  <2> QED BY <1>0, <1>1, <2>1, <2>2 DEF Obsidian!Types
<1>5. /\ \A d \in NotesCall : Obsidian!Putting(d)' = Obsidian!Putting(d) /\ Obsidian!Fresh(d)' = Obsidian!Fresh(d)
      /\ \A d \in NotesCall \ {c} : \A m \in NotesPath : Obsidian!InHand(d, m)' = Obsidian!InHand(d, m)
      /\ \A m \in NotesPath : Obsidian!InHand(c, m)' => m = n
      /\ ~Obsidian!Fresh(c) => Obsidian!InHand(c, n)
  BY <1>1, <1>3 DEF Obsidian!Putting, Obsidian!InHand, Obsidian!Fresh
<1>6. Obsidian!Places'
  BY <1>0, <1>1, <1>3, <1>5 DEF Obsidian!Places, Obsidian!Goes
<1>7. Obsidian!HandsKeep'
  <2> DEFINE S == IF Obsidian!Fresh(c) THEN NotesCall \ {c} ELSE NotesCall
  <2>1. \A d \in S : /\ v5'[d] = v5[d] /\ (v4'[d] = "write" /\ v6'[d] = Obsidian!Gone => v4[d] = "write" /\ v6[d] = Obsidian!Gone)
                    /\ \A m \in NotesPath : Obsidian!InHand(d, m)' => Obsidian!InHand(d, m)
    BY <1>1, <1>2, <1>3, <1>5
  <2>2. S \in SUBSET NotesCall /\ (\A d \in NotesCall \ S : d = c /\ Obsidian!Fresh(c))
    OBVIOUS
  <2> HIDE DEF S
  <2>3. (\A m \in NotesPath : v1'[m].text \in {v1[m].text, 0}) /\ v11 \subseteq v11'
    BY <1>1, <1>3
  <2>4. /\ \A d \in S : \A m \in NotesPath :
              Obsidian!InHand(d, m)' => v1'[m].text = 0 \/ Obsidian!Covers(v5[d].content.text, v1[m].text)'
        /\ \A d, e \in S : \A m \in NotesPath : Obsidian!InHand(d, m)' /\ Obsidian!InHand(e, m)' =>
              Obsidian!Covers(v5[d].content.text, v5[e].content.text)'
        /\ \A d \in S : v4'[d] = "write" /\ v6'[d] = Obsidian!Gone => v5'[d].content.text \in v11' \cup {0}
    BY <1>0, <2>1, <2>2, <2>3, NotesHands
  <2>5. \A d \in NotesCall \ S : \A m \in NotesPath : Obsidian!InHand(d, m)' => v1'[m].text = 0
    BY <1>3, <1>5, <2>2
  <2>6. \A d \in NotesCall \ S : v6'[d] # Obsidian!Gone
    BY <1>2, <1>3, <2>2
  <2>7. ASSUME NEW d \in NotesCall, NEW e \in NotesCall \ S, NEW m \in NotesPath, Obsidian!InHand(d, m)', Obsidian!InHand(e, m)'
        PROVE  /\ Obsidian!Covers(v5[d].content.text, v5[e].content.text)'
               /\ Obsidian!Covers(v5[e].content.text, v5[d].content.text)'
    <3>1. e = c /\ m = n /\ Obsidian!Fresh(c)
      BY <1>5, <2>2, <2>7
    <3>2. CASE d = c
      BY <3>1, <3>2 DEF Obsidian!Covers
    <3>3. CASE d # c
      <4>1. Obsidian!InHand(d, n)
        BY <1>5, <2>7, <3>1, <3>3
      <4>2. {v5[c].content.text, v5[d].content.text} \subseteq v11'
        BY <1>1, <3>1, <3>3, <4>1 DEF Obsidian!AtRisk, Obsidian!Rivals
      <4> QED BY <1>1, <3>1, <4>2 DEF Obsidian!Covers
    <3> QED BY <3>2, <3>3
  <2>8. \A d, e \in NotesCall : \A m \in NotesPath : Obsidian!InHand(d, m)' /\ Obsidian!InHand(e, m)' =>
          Obsidian!Covers(v5[d].content.text, v5[e].content.text)'
    BY <2>2, <2>4, <2>7
  <2>9. \A d \in NotesCall : \A m \in NotesPath :
          Obsidian!InHand(d, m)' => v1'[m].text = 0 \/ Obsidian!Covers(v5[d].content.text, v1[m].text)'
    BY <2>4, <2>5
  <2>10. \A d \in NotesCall : v4'[d] = "write" /\ v6'[d] = Obsidian!Gone => v5'[d].content.text \in v11' \cup {0}
    BY <2>4, <2>6
  <2> QED BY <2>8, <2>9, <2>10 DEF Obsidian!HandsKeep
<1>8. Obsidian!TextsKept'
  <2>1. v11 \subseteq v11' /\ Obsidian!Putting(c)'
    BY <1>1, <1>3 DEF Obsidian!Putting
  <2>2. v1[n].text \in v11' \/ v1[n].text = 0 \/ v1[n].text = v5[c].content.text
    BY <1>0, <1>1, <1>2, <1>5 DEF Obsidian!HandsKeep, Obsidian!Covers
  <2>3. \A k \in 1 .. v9 : k # 0 /\ k \in 1 .. v9'
    BY <1>1
  <2> QED BY <1>0, <1>1, <1>3, <1>5, <2>1, <2>2, <2>3 DEF Obsidian!TextsKept
<1>9. ASSUME NEW d \in NotesCall PROVE Obsidian!MoveKeeps(d)'
  <2>1. CASE d = c
    <3>1. Obsidian!MoveKeeps(c) /\ Obsidian!Putting(c) /\ Obsidian!Goes(c, "patch")' = Obsidian!Goes(c, "patch")
      BY <1>0, <1>1, <1>3 DEF Obsidian!Goes, Obsidian!Putting
    <3>2. \A m \in Obsidian!Behind(c)' : m = n \/ (m \in NotesPath /\ m \in Obsidian!Behind(c))
      BY <1>1, <1>3 DEF Obsidian!Behind
    <3> QED BY <1>1, <1>3, <2>1, <3>1, <3>2 DEF Obsidian!MoveKeeps
  <2>2. CASE d # c
    <3>1. \A m \in NotesPath : v3[d].note \in v1'[m].links => m \in v12'[d] \/ v3[d].note \in v1[m].links
      BY <1>3, <2>2
    <3> QED BY <1>1, <1>3, <2>2, <3>1, NotesOthers
  <2> QED BY <2>1, <2>2
<1> QED BY <1>4, <1>6, <1>7, <1>8, <1>9 DEF Obsidian!Safe

\* The open file is filled, wherever it is by now.
LEMMA NotesWrite ==
  ASSUME Obsidian!Assumed, Obsidian!Safe, NEW c \in NotesCall, Obsidian!Write(c) PROVE Obsidian!Safe'
<1> DEFINE a == v6[c]
           k == v5[c].content
<1>0. Obsidian!Types /\ Obsidian!Places /\ Obsidian!HandsKeep /\ Obsidian!TextsKept
      /\ \A d \in NotesCall : Obsidian!MoveKeeps(d)
  BY DEF Obsidian!Safe
<1>1. /\ v4[c] = "write" /\ v4' = [v4 EXCEPT ![c] = v5[c].next] /\ v6' = [v6 EXCEPT ![c] = Obsidian!Gone]
      /\ v8' = [v8 EXCEPT ![c] = @ \ {v5[c].note}] /\ UNCHANGED <<v3, v5, v7, v9, v10, v11>>
      /\ a = Obsidian!Gone => v1' = v1 /\ v12' = v12
      /\ a # Obsidian!Gone =>
           /\ \E new \in Obsidian!Filled(c) : v1' = [v1 EXCEPT ![a] = new]
           /\ v12' = [d \in NotesCall |-> IF d = c THEN v12[d] ELSE v12[d] \cup {a}]
  BY DEF Obsidian!Write, Obsidian!Go, Obsidian!Touch
<1>2. /\ v5[c].note \in NotesPath /\ k \in Obsidian!Contents /\ v5[c].next \in {"graph", "patch", "to", "done"}
      /\ a \in NotesPath \cup {Obsidian!Gone} /\ Obsidian!Gone \notin NotesPath
  BY <1>0 DEF Obsidian!Types, Obsidian!Assumed
<1>3. a # Obsidian!Gone =>
        /\ a \in NotesPath /\ v1'[a] \in Obsidian!Contents /\ v1' \in [NotesPath -> Obsidian!Contents]
        /\ v1'[a].text = k.text
        /\ v1'[a].links \subseteq k.links \cup v1[a].links
        /\ \A m \in NotesPath \ {a} : v1'[m] = v1[m]
  <2> SUFFICES ASSUME a # Obsidian!Gone
               PROVE  /\ a \in NotesPath /\ v1'[a] \in Obsidian!Contents /\ v1' \in [NotesPath -> Obsidian!Contents]
                      /\ v1'[a].text = k.text
                      /\ v1'[a].links \subseteq k.links \cup v1[a].links
                      /\ \A m \in NotesPath \ {a} : v1'[m] = v1[m]
    OBVIOUS
  <2>1. PICK new \in Obsidian!Filled(c) : v1' = [v1 EXCEPT ![a] = new]
    BY <1>1
  <2>2. a \in NotesPath /\ v1[a] \in Obsidian!Contents
    BY <1>0, <1>2 DEF Obsidian!Types
  <2>3. new = k \/ new = [k EXCEPT !.links = @ \cup v1[a].links]
    BY DEF Obsidian!Filled
  <2>4. new \in Obsidian!Contents /\ new.text = k.text /\ new.links \subseteq k.links \cup v1[a].links
    BY <1>2, <2>2, <2>3 DEF Obsidian!Contents
  <2>5. v1 \in [NotesPath -> Obsidian!Contents]
    BY <1>0 DEF Obsidian!Types
  <2> QED BY <2>1, <2>2, <2>4, <2>5
<1>4. /\ v4'[c] = v5[c].next /\ v6'[c] = Obsidian!Gone /\ v12'[c] = v12[c] /\ v8'[c] = v8[c] \ {v5[c].note}
      /\ \A d \in NotesCall \ {c} : /\ v4'[d] = v4[d] /\ v6'[d] = v6[d] /\ v8'[d] = v8[d] /\ v12[d] \subseteq v12'[d]
                                   /\ a # Obsidian!Gone => a \in v12'[d]
  BY <1>0, <1>1, <1>2 DEF Obsidian!Types
<1>5. Obsidian!Types'
  <2>1. v1' \in [NotesPath -> Obsidian!Contents]
    BY <1>0, <1>1, <1>3 DEF Obsidian!Types
  <2>2. v12' \in [NotesCall -> SUBSET NotesPath]
    BY <1>0, <1>1, <1>2 DEF Obsidian!Types
  <2>3. v4' \in [NotesCall -> {"start", "truncate", "write", "graph", "backlink", "rename", "list", "patch", "from", "to", "done"}]
    BY <1>0, <1>1, <1>2 DEF Obsidian!Types
  <2> QED BY <1>0, <1>1, <2>1, <2>2, <2>3 DEF Obsidian!Types
<1>6. /\ ~Obsidian!Putting(c)' /\ \A m \in NotesPath : ~Obsidian!InHand(c, m)'
      /\ \A d \in NotesCall \ {c} : /\ Obsidian!Putting(d)' = Obsidian!Putting(d)
                                   /\ \A m \in NotesPath : Obsidian!InHand(d, m)' = Obsidian!InHand(d, m)
      /\ a # Obsidian!Gone => Obsidian!InHand(c, a)
  <2>1. \A d \in NotesCall : Obsidian!Fresh(d)' = Obsidian!Fresh(d)
    BY <1>1 DEF Obsidian!Fresh
  <2> QED BY <1>1, <1>2, <1>4, <2>1 DEF Obsidian!Putting, Obsidian!InHand
<1>7. Obsidian!Places'
  <2>1. \A d \in NotesCall \ {c} : \A next : Obsidian!Goes(d, next)' = Obsidian!Goes(d, next)
    BY <1>1, <1>4, <1>6 DEF Obsidian!Goes
  <2>2. \A next : Obsidian!Goes(c, next)' => Obsidian!Goes(c, next)
    BY <1>1, <1>4, <1>6 DEF Obsidian!Goes, Obsidian!Putting
  <2> QED BY <1>0, <1>1, <1>2, <1>4, <2>1, <2>2 DEF Obsidian!Places
<1>8. Obsidian!HandsKeep'
  <2> DEFINE S == NotesCall \ {c}
             N == NotesPath \ {a}
  <2>1. \A d \in S : /\ v5'[d] = v5[d] /\ (v4'[d] = "write" /\ v6'[d] = Obsidian!Gone => v4[d] = "write" /\ v6[d] = Obsidian!Gone)
                    /\ \A m \in NotesPath : Obsidian!InHand(d, m)' => Obsidian!InHand(d, m)
    BY <1>1, <1>4, <1>6
  <2>2. /\ S \in SUBSET NotesCall /\ N \in SUBSET NotesPath
        /\ \A d \in NotesCall \ S : v4'[d] # "write" /\ \A m \in NotesPath : ~Obsidian!InHand(d, m)'
    BY <1>2, <1>4, <1>6
  <2>3. (\A m \in N : v1'[m].text \in {v1[m].text, 0}) /\ v11 \subseteq v11'
    BY <1>1, <1>3
  <2>a. \A m \in NotesPath \ N : m = a /\ a # Obsidian!Gone
    BY <1>2
  <2> HIDE DEF S, N
  <2>4. /\ \A d \in S : \A m \in N :
              Obsidian!InHand(d, m)' => v1'[m].text = 0 \/ Obsidian!Covers(v5[d].content.text, v1[m].text)'
        /\ \A d, e \in S : \A m \in N : Obsidian!InHand(d, m)' /\ Obsidian!InHand(e, m)' =>
              Obsidian!Covers(v5[d].content.text, v5[e].content.text)'
        /\ \A d \in S : v4'[d] = "write" /\ v6'[d] = Obsidian!Gone => v5'[d].content.text \in v11' \cup {0}
    BY <1>0, <2>1, <2>2, <2>3, NotesHands
  <2>5. ASSUME NEW d \in S, NEW m \in NotesPath \ N, Obsidian!InHand(d, m)'
        PROVE  Obsidian!Covers(v5[d].content.text, v1[m].text)'
    <3>1. m = a /\ a # Obsidian!Gone /\ Obsidian!InHand(c, a) /\ Obsidian!InHand(d, a)
      BY <1>6, <2>1, <2>5, <2>a
    <3>2. Obsidian!Covers(v5[d].content.text, k.text)
      BY <1>0, <1>2, <2>2, <3>1 DEF Obsidian!HandsKeep
    <3> QED BY <1>1, <1>3, <3>1, <3>2 DEF Obsidian!Covers
  <2>6. ASSUME NEW d \in S, NEW e \in S, NEW m \in NotesPath \ N, Obsidian!InHand(d, m)', Obsidian!InHand(e, m)'
        PROVE  Obsidian!Covers(v5[d].content.text, v5[e].content.text)'
    <3>1. Obsidian!InHand(d, m) /\ Obsidian!InHand(e, m)
      BY <2>1, <2>6
    <3>2. Obsidian!Covers(v5[d].content.text, v5[e].content.text)
      BY <1>0, <2>2, <3>1 DEF Obsidian!HandsKeep
    <3> QED BY <1>1, <3>2 DEF Obsidian!Covers
  <2> QED BY <2>2, <2>4, <2>5, <2>6 DEF Obsidian!HandsKeep
<1>9. Obsidian!TextsKept'
  <2>1. a = Obsidian!Gone => k.text \in v11 \cup {0}
    BY <1>0, <1>1 DEF Obsidian!HandsKeep
  <2>2. a # Obsidian!Gone => v1[a].text = 0 \/ v1[a].text = k.text \/ v1[a].text \in v11 \cup {0}
    BY <1>0, <1>2, <1>6 DEF Obsidian!HandsKeep, Obsidian!Covers
  <2>3. \A x \in 1 .. v9' : x # 0 /\ x \in 1 .. v9
    BY <1>1
  <2>4. ASSUME NEW x \in 1 .. v9', \E m \in NotesPath : v1[m].text = x
        PROVE  (\E m \in NotesPath : v1'[m].text = x) \/ x \in v11
    BY <1>1, <1>3, <2>2, <2>3, <2>4
  <2>5. ASSUME NEW x \in 1 .. v9', \E d \in NotesCall : Obsidian!Putting(d) /\ v5[d].content.text = x
        PROVE  \/ \E m \in NotesPath : v1'[m].text = x
               \/ \E d \in NotesCall : Obsidian!Putting(d)' /\ v5'[d].content.text = x
               \/ x \in v11
    BY <1>1, <1>3, <1>6, <2>1, <2>3, <2>5
  <2> QED BY <1>0, <1>1, <2>3, <2>4, <2>5 DEF Obsidian!TextsKept
<1>10. ASSUME NEW d \in NotesCall PROVE Obsidian!MoveKeeps(d)'
  <2>1. CASE d = c
    <3>1. Obsidian!MoveKeeps(c) /\ (Obsidian!Goes(c, "patch")' => Obsidian!Goes(c, "patch")) /\ Obsidian!Putting(c)
      BY <1>0, <1>1, <1>4, <1>6 DEF Obsidian!Goes, Obsidian!Putting
    <3>2. /\ \A m \in Obsidian!Behind(c)' : m \in NotesPath /\ m \in Obsidian!Behind(c)
          /\ a # Obsidian!Gone => a \in Obsidian!Behind(c)
      BY <1>1, <1>2, <1>4, <1>6 DEF Obsidian!Behind, Obsidian!Putting
    <3>3. SUFFICES ASSUME Obsidian!Goes(c, "patch"), v3[c].to # v3[c].note, NEW m \in Obsidian!Behind(c)', v3[c].note \in v1'[m].links
                   PROVE  m \in v12[c]
      BY <1>1, <1>4, <1>6, <2>1, <3>1 DEF Obsidian!MoveKeeps
    <3>4. /\ v3[c].note \notin k.links
          /\ \A n \in Obsidian!Behind(c) : v3[c].note \in v1[n].links => n \in v12[c]
      BY <3>1, <3>3 DEF Obsidian!MoveKeeps
    <3>5. v3[c].note \in v1[m].links
      BY <1>1, <1>3, <3>2, <3>3, <3>4
    <3> QED BY <3>2, <3>4, <3>5
  <2>2. CASE d # c
    <3>1. \A m \in NotesPath : v3[d].note \in v1'[m].links => m \in v12'[d] \/ v3[d].note \in v1[m].links
      BY <1>1, <1>3, <1>4, <2>2
    <3> QED BY <1>1, <1>4, <2>2, <3>1, NotesOthers
  <2> QED BY <2>1, <2>2
<1> QED BY <1>5, <1>7, <1>8, <1>9, <1>10 DEF Obsidian!Safe

\* The disk is full.
LEMMA NotesFails ==
  ASSUME Obsidian!Assumed, Obsidian!Safe, NEW c \in NotesCall, Obsidian!WriteFails(c) PROVE Obsidian!Safe'
<1>0. Obsidian!Types /\ Obsidian!Places /\ Obsidian!HandsKeep /\ Obsidian!TextsKept
      /\ \A d \in NotesCall : Obsidian!MoveKeeps(d)
  BY DEF Obsidian!Safe
<1>1. /\ v4[c] = "write" /\ v4' = [v4 EXCEPT ![c] = "done"] /\ v6' = [v6 EXCEPT ![c] = Obsidian!Gone]
      /\ v11' = v11 \cup {v5[c].content.text} /\ UNCHANGED <<v1, v3, v5, v7, v8, v9, v10, v12>>
  BY DEF Obsidian!WriteFails, Obsidian!Go
<1>2. /\ v4'[c] = "done" /\ v6'[c] = Obsidian!Gone
      /\ \A d \in NotesCall \ {c} : v4'[d] = v4[d] /\ v6'[d] = v6[d]
  BY <1>0, <1>1 DEF Obsidian!Types
<1>3. Obsidian!Types'
  BY <1>0, <1>1 DEF Obsidian!Types
<1>4. /\ ~Obsidian!Putting(c)' /\ \A m \in NotesPath : ~Obsidian!InHand(c, m)'
      /\ \A d \in NotesCall \ {c} : /\ Obsidian!Putting(d)' = Obsidian!Putting(d)
                                   /\ \A m \in NotesPath : Obsidian!InHand(d, m)' = Obsidian!InHand(d, m)
  BY <1>1, <1>2 DEF Obsidian!Putting, Obsidian!InHand, Obsidian!Fresh
<1>5. Obsidian!Places'
  BY <1>0, <1>1, <1>2, <1>4 DEF Obsidian!Places, Obsidian!Goes
<1>6. Obsidian!HandsKeep'
  <2> DEFINE S == NotesCall \ {c}
  <2>1. \A d \in S : /\ v5'[d] = v5[d] /\ (v4'[d] = "write" /\ v6'[d] = Obsidian!Gone => v4[d] = "write" /\ v6[d] = Obsidian!Gone)
                    /\ \A m \in NotesPath : Obsidian!InHand(d, m)' => Obsidian!InHand(d, m)
    BY <1>1, <1>2, <1>4
  <2>2. S \in SUBSET NotesCall /\ (\A d \in NotesCall \ S : v4'[d] # "write" /\ \A m \in NotesPath : ~Obsidian!InHand(d, m)')
    BY <1>2, <1>4
  <2> HIDE DEF S
  <2>3. (\A m \in NotesPath : v1'[m].text \in {v1[m].text, 0}) /\ v11 \subseteq v11'
    BY <1>1
  <2>4. /\ \A d \in S : \A m \in NotesPath :
              Obsidian!InHand(d, m)' => v1'[m].text = 0 \/ Obsidian!Covers(v5[d].content.text, v1[m].text)'
        /\ \A d, e \in S : \A m \in NotesPath : Obsidian!InHand(d, m)' /\ Obsidian!InHand(e, m)' =>
              Obsidian!Covers(v5[d].content.text, v5[e].content.text)'
        /\ \A d \in S : v4'[d] = "write" /\ v6'[d] = Obsidian!Gone => v5'[d].content.text \in v11' \cup {0}
    BY <1>0, <2>1, <2>2, <2>3, NotesHands
  <2> QED BY <2>2, <2>4 DEF Obsidian!HandsKeep
<1>7. Obsidian!TextsKept'
  <2>1. \A d \in NotesCall : Obsidian!Putting(d) => Obsidian!Putting(d)' \/ v5[d].content.text \in v11'
    BY <1>1, <1>4
  <2> QED BY <1>0, <1>1, <2>1 DEF Obsidian!TextsKept
<1>8. ASSUME NEW d \in NotesCall PROVE Obsidian!MoveKeeps(d)'
  <2>1. CASE d = c
    BY <1>2, <1>4, <2>1 DEF Obsidian!MoveKeeps, Obsidian!Goes
  <2>2. CASE d # c
    BY <1>1, <1>2, <2>2, NotesOthers
  <2> QED BY <2>1, <2>2
<1> QED BY <1>3, <1>5, <1>6, <1>7, <1>8 DEF Obsidian!Safe

\* A note is moved, onto another or not, and the open files follow.
LEMMA NotesRename ==
  ASSUME Obsidian!Assumed, Obsidian!Safe, NEW c \in NotesCall, Obsidian!Rename(c) PROVE Obsidian!Safe'
<1> DEFINE s == v3[c].note
           t == v3[c].to
<1>0. Obsidian!Types /\ Obsidian!Places /\ Obsidian!HandsKeep /\ Obsidian!TextsKept
      /\ \A d \in NotesCall : Obsidian!MoveKeeps(d)
  BY DEF Obsidian!Safe
<1>1. /\ v4[c] = "rename" /\ v4' = [v4 EXCEPT ![c] = "list"]
      /\ v1' = [v1 EXCEPT ![s] = Obsidian!None, ![t] = v1[s]]
      /\ v6' = [d \in NotesCall |-> IF v6[d] = s THEN t ELSE IF v6[d] = t THEN Obsidian!Gone ELSE v6[d]]
      /\ s # t => v11' = v11 \cup ({v1[t].text} \cup {v5[d].content.text : d \in Obsidian!Rivals(c, t)}
                     \cup IF Obsidian!Rivals(c, t) = {} THEN {}
                          ELSE {v1[s].text} \cup {v5[d].content.text : d \in Obsidian!Rivals(c, s)})
      /\ s = t => v11' = v11
      /\ v12' = [d \in NotesCall |-> IF d = c THEN v12[d] ELSE v12[d] \cup {t}]
      /\ UNCHANGED <<v3, v5, v7, v8, v9, v10>>
  BY DEF Obsidian!Rename, Obsidian!Go, Obsidian!Touch
<1>2. v3[c].op = "move" /\ s \in NotesPath /\ t \in NotesPath /\ Obsidian!Gone \notin NotesPath
  <2>1. v3[c].op = "move"
    BY <1>0, <1>1 DEF Obsidian!Places
  <2> QED BY <1>0, <2>1, NotesAsked
<1>3. /\ v4'[c] = "list" /\ \A d \in NotesCall \ {c} : v4'[d] = v4[d] /\ v12'[d] = v12[d] \cup {t}
      /\ v1'[t] = v1[s] /\ (s # t => v1'[s] = Obsidian!None) /\ \A m \in NotesPath \ {s, t} : v1'[m] = v1[m]
  BY <1>0, <1>1, <1>2 DEF Obsidian!Types
<1>4. Obsidian!Types'
  <2>1. v1' \in [NotesPath -> Obsidian!Contents]
    BY <1>0, <1>1, <1>2, NotesContents DEF Obsidian!Types
  <2>2. v12' \in [NotesCall -> SUBSET NotesPath] /\ v6' \in [NotesCall -> NotesPath \cup {Obsidian!Gone}]
    BY <1>0, <1>1, <1>2 DEF Obsidian!Types
  <2>3. v4' \in [NotesCall -> {"start", "truncate", "write", "graph", "backlink", "rename", "list", "patch", "from", "to", "done"}]
    BY <1>0, <1>1 DEF Obsidian!Types
  <2> QED BY <1>0, <1>1, <2>1, <2>2, <2>3 DEF Obsidian!Types
<1>5. /\ ~Obsidian!Putting(c) /\ ~Obsidian!Putting(c)' /\ \A m \in NotesPath : ~Obsidian!InHand(c, m)'
      /\ \A d \in NotesCall \ {c} : Obsidian!Putting(d)' = Obsidian!Putting(d)
  BY <1>1, <1>3 DEF Obsidian!Putting, Obsidian!InHand
<1>6. ASSUME NEW d \in NotesCall \ {c}, NEW m \in NotesPath, Obsidian!InHand(d, m)'
      PROVE  Obsidian!InHand(d, m) \/ (m = t /\ Obsidian!InHand(d, s))
  BY <1>1, <1>2, <1>3, <1>6 DEF Obsidian!InHand, Obsidian!Fresh
<1>7. Obsidian!Places'
  <2>1. \A d \in NotesCall \ {c} : \A next : Obsidian!Goes(d, next)' = Obsidian!Goes(d, next)
    BY <1>1, <1>3, <1>5 DEF Obsidian!Goes
  <2>2. ~Obsidian!Goes(c, "patch")' /\ ~Obsidian!Goes(c, "to")'
    BY <1>3, <1>5 DEF Obsidian!Goes
  <2> QED BY <1>0, <1>1, <1>2, <1>3, <2>1, <2>2 DEF Obsidian!Places
<1>8. Obsidian!HandsKeep'
  <2> DEFINE S == NotesCall \ {c}
             N == NotesPath \ {t}
  <2>a. /\ S \in SUBSET NotesCall /\ N \in SUBSET NotesPath
        /\ \A d \in NotesCall \ S : v4'[d] # "write" /\ \A m \in NotesPath : ~Obsidian!InHand(d, m)'
        /\ v11 \subseteq v11'
    BY <1>1, <1>3, <1>5
  <2>b. ASSUME NEW d \in S, v4'[d] = "write", v6'[d] = Obsidian!Gone
        PROVE  v5'[d].content.text \in v11' \cup {0}
    <3>1. v4[d] = "write" /\ v6[d] \in NotesPath \cup {Obsidian!Gone}
      BY <1>0, <1>3, <2>b DEF Obsidian!Types
    <3>2. CASE v6[d] = Obsidian!Gone
      BY <1>0, <1>1, <3>1, <3>2 DEF Obsidian!HandsKeep
    <3>3. CASE v6[d] # Obsidian!Gone
      <4>1. v6[d] = t /\ s # t
        BY <1>1, <1>2, <2>b, <3>1, <3>3
      <4>2. d \in Obsidian!Rivals(c, t)
        BY <3>1, <4>1 DEF Obsidian!Rivals, Obsidian!InHand
      <4> QED BY <1>1, <4>1, <4>2
    <3> QED BY <3>2, <3>3
  <2>c. CASE s = t
    <3>1. v1' = v1
      BY <1>0, <1>1, <1>2, <1>3, <1>4, <2>c DEF Obsidian!Types
    <3>2. \A d \in S : \A m \in NotesPath : Obsidian!InHand(d, m)' => Obsidian!InHand(d, m)
      BY <1>6, <2>c
    <3>3. \A x, y : Obsidian!Covers(x, y) => Obsidian!Covers(x, y)'
      BY <2>a DEF Obsidian!Covers
    <3>4. \A d \in S : \A m \in NotesPath : Obsidian!InHand(d, m)' => v1'[m].text = 0 \/ Obsidian!Covers(v5[d].content.text, v1[m].text)'
      BY <1>0, <1>1, <3>1, <3>2, <3>3 DEF Obsidian!HandsKeep
    <3>5. \A d, e \in S : \A m \in NotesPath : Obsidian!InHand(d, m)' /\ Obsidian!InHand(e, m)' =>
            Obsidian!Covers(v5[d].content.text, v5[e].content.text)'
      BY <1>0, <1>1, <3>2, <3>3 DEF Obsidian!HandsKeep
    <3> HIDE DEF S, N
    <3> QED BY <2>a, <2>b, <3>4, <3>5 DEF Obsidian!HandsKeep
  <2>d. CASE s # t
    <3>1. \A d \in S : \A m \in N : Obsidian!InHand(d, m)' => Obsidian!InHand(d, m)
      BY <1>6
    <3>2. \A m \in N : v1'[m].text \in {v1[m].text, 0}
      BY <1>3, <2>d, NotesContents
    <3>3. ASSUME NEW d \in S, Obsidian!InHand(d, t)
          PROVE  {v1[s].text, v5[d].content.text} \subseteq v11' /\ \A e \in S : Obsidian!InHand(e, s) => v5[e].content.text \in v11'
      BY <1>1, <2>d, <3>3 DEF Obsidian!Rivals
    <3>4. ASSUME NEW d \in S, NEW m \in NotesPath \ N, Obsidian!InHand(d, m)' PROVE Obsidian!InHand(d, t) \/ Obsidian!InHand(d, s)
      <4>1. m = t /\ (Obsidian!InHand(d, m) \/ Obsidian!InHand(d, s))
        BY <1>6, <3>4
      <4> QED BY <4>1
    <3>5. \A m \in NotesPath \ N : m = t
      OBVIOUS
    <3>6. \A d \in S : d \in NotesCall /\ v5'[d] = v5[d]
      BY <1>1
    <3> HIDE DEF S, N
    <3>7. \A x, y : Obsidian!Covers(x, y) => Obsidian!Covers(x, y)'
      BY <2>a DEF Obsidian!Covers
    <3>8. ASSUME NEW d \in S, NEW m \in NotesPath \ N, Obsidian!InHand(d, m)'
          PROVE  v1'[m].text = 0 \/ Obsidian!Covers(v5[d].content.text, v1[m].text)'
      <4>0. v1'[m].text = v1[s].text
        BY <1>3, <3>5
      <4>1. CASE Obsidian!InHand(d, t)
        <5>1. {v1[s].text, v5[d].content.text} \subseteq v11'
          BY <3>3, <4>1
        <5> QED BY <3>6, <4>0, <5>1 DEF Obsidian!Covers
      <4>2. CASE Obsidian!InHand(d, s)
        <5>1. v1[s].text = 0 \/ Obsidian!Covers(v5[d].content.text, v1[s].text)
          BY <1>0, <1>2, <3>6, <4>2 DEF Obsidian!HandsKeep
        <5>2. v1[s].text = 0 \/ v5[d].content.text = v1[s].text \/ {v5[d].content.text, v1[s].text} \subseteq v11' \cup {0}
          BY <2>a, <5>1 DEF Obsidian!Covers
        <5> QED BY <3>6, <4>0, <5>2 DEF Obsidian!Covers
      <4> QED BY <3>4, <3>8, <4>1, <4>2
    <3>9. ASSUME NEW d \in S, NEW e \in S, NEW m \in NotesPath \ N, Obsidian!InHand(d, m)', Obsidian!InHand(e, m)'
          PROVE  Obsidian!Covers(v5[d].content.text, v5[e].content.text)'
      <4>1. CASE Obsidian!InHand(d, t) \/ Obsidian!InHand(e, t)
        <5>1. v5[d].content.text \in v11' /\ v5[e].content.text \in v11'
          BY <3>3, <3>4, <3>9, <4>1
        <5> QED BY <3>6, <5>1 DEF Obsidian!Covers
      <4>2. CASE Obsidian!InHand(d, s) /\ Obsidian!InHand(e, s)
        <5>1. Obsidian!Covers(v5[d].content.text, v5[e].content.text)
          BY <1>0, <1>2, <3>6, <4>2 DEF Obsidian!HandsKeep
        <5> QED BY <2>a, <3>6, <5>1 DEF Obsidian!Covers
      <4> QED BY <3>4, <3>9, <4>1, <4>2
    <3>10. \A d \in S : \A m \in N :
              Obsidian!InHand(d, m)' => v1'[m].text = 0 \/ Obsidian!Covers(v5[d].content.text, v1[m].text)'
      BY <1>0, <1>1, <2>a, <3>1, <3>2, <3>7 DEF Obsidian!HandsKeep
    <3>11. \A d, e \in S : \A m \in N : Obsidian!InHand(d, m)' /\ Obsidian!InHand(e, m)' =>
              Obsidian!Covers(v5[d].content.text, v5[e].content.text)'
      BY <1>0, <1>1, <2>a, <3>1, <3>7 DEF Obsidian!HandsKeep
    <3> QED BY <2>a, <2>b, <3>8, <3>9, <3>10, <3>11 DEF Obsidian!HandsKeep
  <2> QED BY <2>c, <2>d
<1>9. Obsidian!TextsKept'
  <2>1. \A d \in NotesCall : Obsidian!Putting(d) => Obsidian!Putting(d)'
    BY <1>5
  <2>2. v1[t].text \in v11' \/ s = t
    BY <1>1
  <2>3. ASSUME NEW x \in 1 .. v9', NEW m \in NotesPath, v1[m].text = x
        PROVE  (\E n \in NotesPath : v1'[n].text = x) \/ x \in v11'
    <3>1. CASE m \in {s, t}
      BY <1>2, <1>3, <2>2, <2>3, <3>1
    <3>2. CASE m \notin {s, t}
      BY <1>3, <2>3, <3>2
    <3> QED BY <3>1, <3>2
  <2>4. v11 \subseteq v11'
    BY <1>1
  <2> QED BY <1>0, <1>1, <2>1, <2>3, <2>4 DEF Obsidian!TextsKept
<1>10. ASSUME NEW d \in NotesCall PROVE Obsidian!MoveKeeps(d)'
  <2>1. CASE d = c
    BY <1>3, <1>5, <2>1 DEF Obsidian!MoveKeeps, Obsidian!Goes
  <2>2. CASE d # c
    <3>1. v3[d].note \in NotesPath /\ t \in v12'[d] /\ v12[d] \subseteq v12'[d] /\ v4'[d] = v4[d]
      BY <1>0, <1>3, <2>2, NotesAsked
    <3>2. ASSUME NEW m \in NotesPath, v3[d].note \in v1'[m].links PROVE m \in v12'[d] \/ v3[d].note \in v1[m].links
      <4>1. CASE m = t
        BY <3>1, <4>1
      <4>2. CASE m = s /\ s # t
        BY <1>2, <1>3, <3>1, <3>2, <4>2, NotesContents
      <4>3. CASE m \notin {s, t}
        BY <1>3, <3>2, <4>3
      <4> QED BY <4>1, <4>2, <4>3
    <3>3. v6'[d] \in NotesPath => v6'[d] = v6[d] \/ v6'[d] \in v12'[d]
      BY <1>1, <1>2, <3>1
    <3> QED BY <1>1, <3>1, <3>2, <3>3, NotesOthers
  <2> QED BY <2>1, <2>2
<1> QED BY <1>4, <1>7, <1>8, <1>9, <1>10 DEF Obsidian!Safe

\* A person edits a note.
LEMMA NotesEdit ==
  ASSUME Obsidian!Assumed, Obsidian!Safe, NEW n \in NotesPath, Obsidian!Edit(n) PROVE Obsidian!Safe'
<1>0. Obsidian!Types /\ Obsidian!Places /\ Obsidian!HandsKeep /\ Obsidian!TextsKept
      /\ \A d \in NotesCall : Obsidian!MoveKeeps(d)
  BY DEF Obsidian!Safe
<1>1. /\ v1' = [v1 EXCEPT ![n].text = v9 + 1] /\ v9' = v9 + 1 /\ v10' = v10 + 1
      /\ v11' = v11 \cup {v1[n].text} \cup
           {text \in {v9 + 1} \cup {v5[d].content.text : d \in {d \in NotesCall : Obsidian!InHand(d, n)}} :
              \E d \in NotesCall : Obsidian!InHand(d, n)}
      /\ v12' = [d \in NotesCall |-> v12[d] \cup {n}] /\ UNCHANGED <<v2, v3, v4, v5, v6, v7, v8>>
  BY DEF Obsidian!Edit, Obsidian!mine
<1>2. /\ v9 \in Nat /\ v10 \in Nat /\ v1[n] \in Obsidian!Contents
      /\ v1'[n] = [v1[n] EXCEPT !.text = v9 + 1] /\ \A m \in NotesPath \ {n} : v1'[m] = v1[m]
  BY <1>0, <1>1 DEF Obsidian!Types
<1>3. v1'[n] \in Obsidian!Contents /\ v1'[n].text = v9 + 1 /\ v1'[n].links = v1[n].links
  BY <1>2 DEF Obsidian!Contents
<1>4. Obsidian!Types'
  <2>1. v1' \in [NotesPath -> Obsidian!Contents]
    BY <1>0, <1>1, <1>2, <1>3 DEF Obsidian!Types
  <2>2. v12' \in [NotesCall -> SUBSET NotesPath] /\ v9' \in Nat /\ v10' \in Nat
    BY <1>0, <1>1, <1>2 DEF Obsidian!Types
  <2> QED BY <1>0, <1>1, <2>1, <2>2 DEF Obsidian!Types
<1>5. \A d \in NotesCall : /\ Obsidian!Putting(d)' = Obsidian!Putting(d)
                           /\ \A m \in NotesPath : Obsidian!InHand(d, m)' = Obsidian!InHand(d, m)
  BY <1>1 DEF Obsidian!Putting, Obsidian!InHand, Obsidian!Fresh
<1>6. Obsidian!Places'
  BY <1>0, <1>1, <1>5 DEF Obsidian!Places, Obsidian!Goes
<1>7. Obsidian!HandsKeep'
  <2>1. \A d \in NotesCall : Obsidian!InHand(d, n) => {v9 + 1, v5[d].content.text} \subseteq v11'
    BY <1>1
  <2>2. \A x, y : Obsidian!Covers(x, y) => Obsidian!Covers(x, y)'
    BY <1>1 DEF Obsidian!Covers
  <2>3. ASSUME NEW d \in NotesCall, NEW m \in NotesPath, Obsidian!InHand(d, m)'
        PROVE  v1'[m].text = 0 \/ Obsidian!Covers(v5[d].content.text, v1[m].text)'
    <3>1. Obsidian!InHand(d, m)
      BY <1>5, <2>3
    <3>2. CASE m = n
      BY <1>1, <1>3, <2>1, <3>1, <3>2 DEF Obsidian!Covers
    <3>3. CASE m # n
      BY <1>0, <1>1, <1>2, <3>1, <3>3 DEF Obsidian!HandsKeep, Obsidian!Covers
    <3> QED BY <3>2, <3>3
  <2>4. ASSUME NEW d \in NotesCall, NEW e \in NotesCall, NEW m \in NotesPath, Obsidian!InHand(d, m)', Obsidian!InHand(e, m)'
        PROVE  Obsidian!Covers(v5[d].content.text, v5[e].content.text)'
    <3>1. Obsidian!Covers(v5[d].content.text, v5[e].content.text)
      BY <1>0, <1>5, <2>4 DEF Obsidian!HandsKeep
    <3> QED BY <1>1, <3>1 DEF Obsidian!Covers
  <2>5. \A d \in NotesCall : v4'[d] = "write" /\ v6'[d] = Obsidian!Gone => v5'[d].content.text \in v11' \cup {0}
    BY <1>0, <1>1 DEF Obsidian!HandsKeep
  <2> QED BY <2>3, <2>4, <2>5 DEF Obsidian!HandsKeep
<1>8. Obsidian!TextsKept'
  <2>1. \A x \in 1 .. v9' : x \in 1 .. v9 \/ x = v9 + 1
    BY <1>1, <1>2
  <2>2. v11 \subseteq v11' /\ v1[n].text \in v11'
    BY <1>1
  <2> QED BY <1>0, <1>1, <1>2, <1>3, <1>5, <2>1, <2>2 DEF Obsidian!TextsKept
<1>9. ASSUME NEW d \in NotesCall PROVE Obsidian!MoveKeeps(d)'
  <2>1. v12[d] \subseteq v12'[d]
    BY <1>1
  <2>2. \A m \in NotesPath : v1'[m].links = v1[m].links
    BY <1>2, <1>3
  <2> QED BY <1>1, <2>1, <2>2, NotesOthers
<1> QED BY <1>4, <1>6, <1>7, <1>8, <1>9 DEF Obsidian!Safe

\* The process ends.
LEMMA NotesCrash ==
  ASSUME Obsidian!Assumed, Obsidian!Safe, Obsidian!Crash PROVE Obsidian!Safe'
<1>0. Obsidian!Types /\ Obsidian!Places /\ Obsidian!TextsKept
  BY DEF Obsidian!Safe
<1>1. /\ v4' = [c \in NotesCall |-> "done"] /\ v6' = [c \in NotesCall |-> Obsidian!Gone]
      /\ v11' = v11 \cup {v5[c].content.text : c \in {c \in NotesCall : Obsidian!Putting(c)}}
      /\ UNCHANGED <<v1, v3, v5, v7, v8, v9, v10, v12>>
  BY DEF Obsidian!Crash
<1>2. Obsidian!Types'
  BY <1>0, <1>1 DEF Obsidian!Types
<1>3. \A c \in NotesCall : /\ v4'[c] = "done" /\ ~Obsidian!Putting(c)' /\ \A next : Obsidian!Goes(c, next)' => next = "done"
                           /\ \A n \in NotesPath : ~Obsidian!InHand(c, n)'
  BY <1>1 DEF Obsidian!Putting, Obsidian!Goes, Obsidian!InHand
<1>4. Obsidian!Places'
  BY <1>3 DEF Obsidian!Places
<1>5. Obsidian!HandsKeep'
  BY <1>3 DEF Obsidian!HandsKeep
<1>6. Obsidian!TextsKept'
  <2>1. \A c \in NotesCall : Obsidian!Putting(c) => v5[c].content.text \in v11'
    BY <1>1
  <2> QED BY <1>0, <1>1, <2>1 DEF Obsidian!TextsKept
<1>7. \A c \in NotesCall : Obsidian!MoveKeeps(c)'
  BY <1>3 DEF Obsidian!MoveKeeps
<1> QED BY <1>2, <1>4, <1>5, <1>6, <1>7 DEF Obsidian!Safe

\* A step of a call that changes nothing but where the call is.
LEMMA NotesGo ==
  ASSUME Obsidian!Assumed, Obsidian!Safe, NEW c \in NotesCall, ~Obsidian!Putting(c),
         UNCHANGED <<v1, v3, v5, v6, v7, v8, v9, v10, v11, v12>>,
         NEW w \in {"graph", "backlink", "rename", "list", "from", "to", "done"}, v4' = [v4 EXCEPT ![c] = w],
         w \in {"rename", "list"} => v3[c].op = "move",
         w \in {"from", "to"} => v3[c].op = "link"
  PROVE  Obsidian!Safe'
<1>1. Obsidian!Types
  BY DEF Obsidian!Safe
<1>2. /\ v7[c] \in [notes : SUBSET NotesPath, links : SUBSET (NotesPath \X NotesPath)]
      /\ v8[c] \in SUBSET NotesPath /\ v12[c] \in SUBSET NotesPath
      /\ v7' = [v7 EXCEPT ![c] = v7[c]] /\ v8' = [v8 EXCEPT ![c] = v8[c]] /\ v12' = [v12 EXCEPT ![c] = v12[c]]
  BY <1>1 DEF Obsidian!Types
<1>3. /\ w \in {"graph", "backlink", "rename", "list", "patch", "from", "to", "done"}
      /\ w \in {"patch", "rename", "list"} => v3[c].op = "move"
      /\ w = "patch" /\ v3[c].to # v3[c].note =>
           \A n \in NotesPath \ v8[c] : v3[c].note \in v1[n].links => n \in v12[c]
      /\ UNCHANGED <<v1, v3, v5, v6, v9, v10, v11>>
  OBVIOUS
<1> DEFINE g == v7[c]
           t == v8[c]
           f == v12[c]
<1>4. /\ g \in [notes : SUBSET NotesPath, links : SUBSET (NotesPath \X NotesPath)]
      /\ t \in SUBSET NotesPath /\ f \in SUBSET NotesPath
      /\ v7' = [v7 EXCEPT ![c] = g] /\ v8' = [v8 EXCEPT ![c] = t] /\ v12' = [v12 EXCEPT ![c] = f]
      /\ w = "patch" /\ v3[c].to # v3[c].note =>
           \A n \in NotesPath \ t : v3[c].note \in v1[n].links => n \in f
  BY <1>2, <1>3
<1> HIDE DEF g, t, f
<1> QED BY <1>3, <1>4, NotesPass

LEMMA NotesAnswer ==
  ASSUME Obsidian!Assumed, Obsidian!Safe, NEW c \in NotesCall, ~Obsidian!Putting(c), Obsidian!Answer(c) PROVE Obsidian!Safe'
BY NotesGo DEF Obsidian!Answer, Obsidian!Go, Obsidian!mine, Obsidian!history

\* A link is added to a note.
LEMMA NotesLink ==
  ASSUME Obsidian!Assumed, Obsidian!Safe, NEW c \in NotesCall, ~Obsidian!Putting(c), NEW n \in NotesPath, NEW m \in NotesPath,
         NEW next \in {"to", "done"}, next = "to" => v3[c].op = "link", Obsidian!AddLink(c, n, m, next)
  PROVE  Obsidian!Safe'
<1> DEFINE k == [v1[n] EXCEPT !.links = @ \cup {m}]
<1>1. CASE Obsidian!Answer(c)
  BY <1>1, NotesAnswer
<1>2. CASE Obsidian!Go(c, next) /\ UNCHANGED <<v1, v2, Obsidian!mine, Obsidian!history>>
  BY <1>2, NotesGo DEF Obsidian!Go, Obsidian!mine, Obsidian!history
<1>3. CASE /\ Obsidian!Put(c, n, k, next)
           /\ v11' = v11 \cup Obsidian!AtRisk(c, n, v1[n].text)
           /\ UNCHANGED <<v1, v2, v3, v6, v7, v8, v9, v10, v12>>
  <2>1. v1[n] \in Obsidian!Contents
    BY DEF Obsidian!Safe, Obsidian!Types
  <2>2. k \in Obsidian!Contents /\ k.text = v1[n].text
    BY <2>1 DEF Obsidian!Contents
  <2>3. v5' = [v5 EXCEPT ![c] = [note |-> n, content |-> k, next |-> next]] /\ v4' = [v4 EXCEPT ![c] = "truncate"]
    BY <1>3 DEF Obsidian!Put, Obsidian!Go
  <2>4. next \in {"graph", "patch", "to", "done"} /\ next # "patch"
    OBVIOUS
  <2> HIDE DEF k
  <2> QED BY <1>3, <2>2, <2>3, <2>4, NotesTake
<1> QED BY <1>1, <1>2, <1>3 DEF Obsidian!AddLink

LEMMA NotesUpsert ==
  ASSUME Obsidian!Assumed, Obsidian!Safe, NEW c \in NotesCall, Obsidian!Upsert(c) PROVE Obsidian!Safe'
<1> DEFINE next == IF v3[c].auto THEN "graph" ELSE "done"
           k == [text |-> v9 + 1, links |-> v3[c].to]
<1>0. /\ v4[c] = "start" /\ v3[c].op = "upsert" /\ UNCHANGED <<v1, v3, v6, v7, v8, v10, v11, v12>>
      /\ Obsidian!Types /\ ~Obsidian!Putting(c)
  BY DEF Obsidian!Upsert, Obsidian!Safe, Obsidian!Putting
<1>1. CASE Obsidian!Go(c, next) /\ UNCHANGED <<v5, v9>>
  BY <1>0, <1>1, NotesGo DEF Obsidian!Go
<1>2. CASE Obsidian!Put(c, v3[c].note, k, next) /\ v9' = v9 + 1
  <2>1. v3[c].note \in NotesPath /\ v3[c].to \in SUBSET NotesPath /\ v9 \in Nat
    BY <1>0, NotesAsked DEF Obsidian!Types
  <2>2. k \in Obsidian!Contents /\ k.text = v9 + 1
    BY <2>1 DEF Obsidian!Contents
  <2>3. v5' = [v5 EXCEPT ![c] = [note |-> v3[c].note, content |-> k, next |-> next]] /\ v4' = [v4 EXCEPT ![c] = "truncate"]
    BY <1>2 DEF Obsidian!Put, Obsidian!Go
  <2>4. next \in {"graph", "done"}
    OBVIOUS
  <2> HIDE DEF k, next
  <2> QED BY <1>0, <1>2, <2>1, <2>2, <2>3, <2>4, NotesMake
<1> QED BY <1>1, <1>2 DEF Obsidian!Upsert

LEMMA NotesList ==
  ASSUME Obsidian!Assumed, Obsidian!Safe, NEW c \in NotesCall, Obsidian!List(c) PROVE Obsidian!Safe'
<1>1. /\ v4[c] = "list" /\ v4' = [v4 EXCEPT ![c] = "patch"] /\ v8' = [v8 EXCEPT ![c] = Obsidian!Existing]
      /\ v12' = [v12 EXCEPT ![c] = {}] /\ UNCHANGED <<v1, v3, v5, v6, v7, v9, v10, v11>>
  BY DEF Obsidian!List, Obsidian!Go
<1>2. Obsidian!Types /\ v3[c].op = "move" /\ ~Obsidian!Putting(c)
  BY <1>1 DEF Obsidian!Safe, Obsidian!Places, Obsidian!Putting
<1>3. v3[c].note \in NotesPath /\ Obsidian!Gone \notin NotesPath
  BY <1>2, NotesAsked
<1>4. ASSUME NEW n \in NotesPath \ Obsidian!Existing PROVE v3[c].note \notin v1[n].links
  <2>1. v1[n] = Obsidian!None
    BY DEF Obsidian!Existing, Obsidian!Exists
  <2> QED BY <1>3, <2>1, NotesContents
<1>5. Obsidian!Existing \in SUBSET NotesPath /\ {} \in SUBSET NotesPath
  BY DEF Obsidian!Existing
<1>6. /\ v7[c] \in [notes : SUBSET NotesPath, links : SUBSET (NotesPath \X NotesPath)]
      /\ v7' = [v7 EXCEPT ![c] = v7[c]]
  BY <1>1, <1>2 DEF Obsidian!Types
<1> QED BY <1>1, <1>2, <1>4, <1>5, <1>6, NotesPass

LEMMA NotesPatch ==
  ASSUME Obsidian!Assumed, Obsidian!Safe, NEW c \in NotesCall, NEW n \in NotesPath, Obsidian!Patch(c, n) PROVE Obsidian!Safe'
<1> DEFINE s == v3[c].note
           t == v3[c].to
           new == Obsidian!Replaced(v1[n], s, t)
<1>1. Obsidian!Types /\ v4[c] = "patch" /\ v3[c].op = "move" /\ ~Obsidian!Putting(c) /\ Obsidian!MoveKeeps(c)
  BY DEF Obsidian!Safe, Obsidian!Places, Obsidian!Patch, Obsidian!Goes, Obsidian!Putting
<1>2. s \in NotesPath /\ t \in NotesPath /\ v1[n] \in Obsidian!Contents
  BY <1>1, NotesAsked DEF Obsidian!Types
<1>3. new \in Obsidian!Contents /\ new.text = v1[n].text /\ (s # t => s \notin new.links) /\ (new = v1[n] \/ new # v1[n])
  BY <1>2 DEF Obsidian!Replaced, Obsidian!Contents
<1>4. CASE Obsidian!Answer(c)
  BY <1>1, <1>4, NotesAnswer
<1>5. CASE new = v1[n] /\ v8' = [v8 EXCEPT ![c] = @ \ {n}] /\ UNCHANGED <<v1, v2, v3, v5, v6, v7, v4, Obsidian!history>>
  <2>1. s # t => \A m \in NotesPath \ (v8[c] \ {n}) : s \in v1[m].links => m \in v12[c]
    BY <1>1, <1>3, <1>5 DEF Obsidian!MoveKeeps, Obsidian!Goes, Obsidian!Behind
  <2>2. /\ v7[c] \in [notes : SUBSET NotesPath, links : SUBSET (NotesPath \X NotesPath)]
        /\ v8[c] \ {n} \in SUBSET NotesPath /\ v12[c] \in SUBSET NotesPath
        /\ v7' = [v7 EXCEPT ![c] = v7[c]] /\ v12' = [v12 EXCEPT ![c] = v12[c]] /\ v4' = [v4 EXCEPT ![c] = "patch"]
        /\ v8' = [v8 EXCEPT ![c] = v8[c] \ {n}] /\ UNCHANGED <<v1, v3, v5, v6, v9, v10, v11>>
    BY <1>1, <1>5 DEF Obsidian!Types, Obsidian!history
  <2> DEFINE g == v7[c]
             left == v8[c] \ {n}
             f == v12[c]
             w == "patch"
  <2>4. /\ g \in [notes : SUBSET NotesPath, links : SUBSET (NotesPath \X NotesPath)]
        /\ left \in SUBSET NotesPath /\ f \in SUBSET NotesPath
        /\ v7' = [v7 EXCEPT ![c] = g] /\ v8' = [v8 EXCEPT ![c] = left] /\ v12' = [v12 EXCEPT ![c] = f]
        /\ w = "patch" /\ v3[c].to # v3[c].note =>
             \A m \in NotesPath \ left : v3[c].note \in v1[m].links => m \in f
    BY <2>1, <2>2
  <2>5. /\ w \in {"graph", "backlink", "rename", "list", "patch", "from", "to", "done"}
        /\ v4' = [v4 EXCEPT ![c] = w]
        /\ (w \in {"patch", "rename", "list"} => v3[c].op = "move")
        /\ (w \in {"from", "to"} => v3[c].op = "link")
    BY <1>1, <2>2
  <2>6. UNCHANGED <<v1, v3, v5, v6, v9, v10, v11>> /\ ~Obsidian!Putting(c)
    BY <1>1, <2>2
  <2> HIDE DEF new, g, left, f, w, s, t
  <2> QED BY <2>4, <2>5, <2>6, NotesPass
<1>6. CASE /\ Obsidian!Put(c, n, new, "patch")
           /\ v11' = v11 \cup Obsidian!AtRisk(c, n, v1[n].text)
           /\ UNCHANGED <<v1, v2, v3, v6, v7, v8, v9, v10, v12>>
  <2>1. v5' = [v5 EXCEPT ![c] = [note |-> n, content |-> new, next |-> "patch"]] /\ v4' = [v4 EXCEPT ![c] = "truncate"]
    BY <1>6 DEF Obsidian!Put, Obsidian!Go
  <2> HIDE DEF new
  <2> QED BY <1>1, <1>3, <1>6, <2>1, NotesTake
<1> QED BY <1>4, <1>5, <1>6 DEF Obsidian!Patch

LEMMA NotesStep ==
  ASSUME Obsidian!Assumed, Obsidian!Safe, Obsidian!Next PROVE Obsidian!Safe'
<1>0. Obsidian!Types /\ Obsidian!Places
  BY DEF Obsidian!Safe
<1>1. CASE Obsidian!Crash
  BY <1>1, NotesCrash
<1>2. CASE \E n \in NotesPath : Obsidian!Edit(n)
  BY <1>2, NotesEdit
<1>3. ASSUME NEW c \in NotesCall, Obsidian!Step(c) PROVE Obsidian!Safe'
  <2>0. /\ v4[c] \notin {"truncate", "write"} => ~Obsidian!Putting(c)
        /\ v3[c].note \in NotesPath /\ (v3[c].op = "link" => v3[c].to \in NotesPath)
        /\ v4[c] \in {"from", "to"} => v3[c].op = "link"
    BY <1>0, NotesAsked DEF Obsidian!Putting, Obsidian!Places, Obsidian!Goes
  <2>1. CASE Obsidian!Upsert(c)
    BY <2>1, NotesUpsert
  <2>2. CASE Obsidian!StartMove(c)
    <3>1. PICK w \in {"rename", "done"} : v4' = [v4 EXCEPT ![c] = w]
      BY <2>2 DEF Obsidian!StartMove, Obsidian!Go
    <3>2. v4[c] = "start" /\ v3[c].op = "move" /\ UNCHANGED <<v1, v3, v5, v6, v7, v8, v9, v10, v11, v12>>
      BY <2>2 DEF Obsidian!StartMove, Obsidian!mine, Obsidian!history
    <3> QED BY <2>0, <3>1, <3>2, NotesGo
  <2>3. CASE Obsidian!Rename(c)
    BY <2>3, NotesRename
  <2>4. CASE Obsidian!RenameFails(c) \/ Obsidian!Patched(c)
    BY <2>0, <2>4, NotesAnswer DEF Obsidian!RenameFails, Obsidian!Patched
  <2>5. CASE Obsidian!List(c)
    BY <2>5, NotesList
  <2>6. CASE \E n \in NotesPath : Obsidian!Patch(c, n)
    BY <2>6, NotesPatch
  <2>7. CASE Obsidian!StartLink(c)
    <3>1. PICK w \in {"from", "done"} : v4' = [v4 EXCEPT ![c] = w]
      BY <2>7 DEF Obsidian!StartLink, Obsidian!Go
    <3>2. v4[c] = "start" /\ v3[c].op = "link" /\ UNCHANGED <<v1, v3, v5, v6, v7, v8, v9, v10, v11, v12>>
      BY <2>7 DEF Obsidian!StartLink, Obsidian!mine, Obsidian!history
    <3> QED BY <2>0, <3>1, <3>2, NotesGo
  <2>8. CASE Obsidian!LinkFrom(c)
    <3>1. PICK next \in {"to", "done"} : Obsidian!AddLink(c, v3[c].note, v3[c].to, next)
      BY <2>8 DEF Obsidian!LinkFrom
    <3>2. v4[c] = "from"
      BY <2>8 DEF Obsidian!LinkFrom
    <3> QED BY <2>0, <3>1, <3>2, NotesLink
  <2>9. CASE Obsidian!LinkTo(c)
    <3>1. Obsidian!AddLink(c, v3[c].to, v3[c].note, "done") /\ v4[c] = "to"
      BY <2>9 DEF Obsidian!LinkTo
    <3> QED BY <2>0, <3>1, NotesLink
  <2>10. CASE Obsidian!StartSuggest(c)
    <3>1. v4[c] = "start" /\ v4' = [v4 EXCEPT ![c] = "graph"] /\ UNCHANGED <<v1, v3, v5, v6, v7, v8, v9, v10, v11, v12>>
      BY <2>10 DEF Obsidian!StartSuggest, Obsidian!Go, Obsidian!mine, Obsidian!history
    <3> QED BY <2>0, <3>1, NotesGo
  <2>11. CASE Obsidian!ReadGraph(c)
    <3> DEFINE g == [notes |-> Obsidian!Existing, links |-> Obsidian!Links]
    <3>1. v4[c] = "graph" /\ v4' = [v4 EXCEPT ![c] = "backlink"] /\ v7' = [v7 EXCEPT ![c] = g]
          /\ UNCHANGED <<v1, v3, v5, v6, v8, v9, v10, v11, v12>>
      BY <2>11 DEF Obsidian!ReadGraph, Obsidian!Go, Obsidian!history
    <3>2. g \in [notes : SUBSET NotesPath, links : SUBSET (NotesPath \X NotesPath)]
      BY DEF Obsidian!Existing, Obsidian!Links
    <3>3. /\ v8[c] \in SUBSET NotesPath /\ v12[c] \in SUBSET NotesPath
          /\ v8' = [v8 EXCEPT ![c] = v8[c]] /\ v12' = [v12 EXCEPT ![c] = v12[c]]
      BY <1>0, <3>1 DEF Obsidian!Types
    <3> HIDE DEF g
    <3> QED BY <2>0, <3>1, <3>2, <3>3, NotesPass
  <2>12. CASE Obsidian!Backlink(c)
    <3>1. v4[c] = "backlink" /\ (\/ Obsidian!Answer(c)
                               \/ \E m \in Obsidian!Sources(v3[c].note, v7[c].notes) : Obsidian!AddLink(c, m, v3[c].note, "done"))
      BY <2>12 DEF Obsidian!Backlink
    <3>2. v7[c].notes \in SUBSET NotesPath
      BY <1>0 DEF Obsidian!Types
    <3>3. Obsidian!Sources(v3[c].note, v7[c].notes) \subseteq NotesPath
      BY <3>2 DEF Obsidian!Sources
    <3> QED BY <2>0, <3>1, <3>3, NotesAnswer, NotesLink
  <2>13. CASE Obsidian!Truncate(c)
    BY <2>13, NotesTruncate
  <2>14. CASE Obsidian!Write(c)
    BY <2>14, NotesWrite
  <2>15. CASE Obsidian!WriteFails(c)
    BY <2>15, NotesFails
  <2> QED BY <1>3, <2>1, <2>2, <2>3, <2>4, <2>5, <2>6, <2>7, <2>8, <2>9, <2>10, <2>11, <2>12, <2>13, <2>14, <2>15
         DEF Obsidian!Step
<1> QED BY <1>1, <1>2, <1>3 DEF Obsidian!Next

LEMMA NotesSame ==
  ASSUME Obsidian!Safe, UNCHANGED <<v1, v2, v3, v4, v5, v6, v7, v8, v9, v10, v11, v12>> PROVE Obsidian!Safe'
BY DEF Obsidian!Safe, Obsidian!Types, Obsidian!Places, Obsidian!HandsKeep, Obsidian!TextsKept, Obsidian!MoveKeeps,
       Obsidian!Goes, Obsidian!Putting, Obsidian!InHand, Obsidian!Fresh, Obsidian!Covers, Obsidian!Behind

LEMMA NotesMeans == Obsidian!Safe => Obsidian!TextsKept /\ Obsidian!LinksFollow
<1> SUFFICES ASSUME Obsidian!Safe PROVE Obsidian!LinksFollow
  BY DEF Obsidian!Safe
<1> SUFFICES ASSUME NEW c \in NotesCall, v4[c] = "patch", v3[c].to # v3[c].note, NEW n \in NotesPath \ v8[c],
                    v3[c].note \in v1[n].links
             PROVE  n \in v12[c]
  BY DEF Obsidian!LinksFollow
<1>1. Obsidian!MoveKeeps(c)
  BY DEF Obsidian!Safe
<1> QED BY <1>1 DEF Obsidian!MoveKeeps, Obsidian!Goes, Obsidian!Behind

\* Calls of the memory server that overlap, with each other, with a person's
\* edits and with the end of the process, lose no text and leave no link to the
\* old place of a note that moved, but in the ways that NotesKept lists
\* (codex/tools/mcp-obsidian-memory, index.mjs).
THEOREM NotesAreKept == Spec => []NotesKept
<1> DEFINE Safe == program = "obsidian" => Obsidian!Safe
<1>0. Obsidian!Assumed
  BY NotesAssumption
<1>1. Init => Safe
  BY <1>0, NotesInit DEF Init
<1>2. ASSUME Safe, [Next]_vars PROVE Safe'
  <2>1. CASE Next
    <3>1. program' = program
      BY <2>1 DEF Next
    <3>2. ASSUME program = "obsidian" PROVE Obsidian!Safe'
      <4>1. Obsidian!Next /\ Obsidian!Safe
        BY <1>2, <2>1, <3>2 DEF Next
      <4> QED BY <1>0, <4>1, NotesStep
    <3> QED BY <3>1, <3>2
  <2>2. CASE UNCHANGED vars
    <3>1. program' = program /\ UNCHANGED <<v1, v2, v3, v4, v5, v6, v7, v8, v9, v10, v11, v12>>
      BY <2>2 DEF vars
    <3> QED BY <1>2, <3>1, NotesSame
  <2> QED BY <1>2, <2>1, <2>2
<1>3. Safe => NotesKept
  BY NotesMeans DEF NotesKept
<1> QED BY <1>1, <1>2, <1>3, PTL DEF Spec

-----------------------------------------------------------------------------
(* The upkeep of the vault: v1 to v16 are files, far, writes, latest, exposed, todo, *)
(* pc, listing, cur, runs, clean, now, gc, stamp, archives and gcs of VaultUpkeep.   *)

\* In the beginning the vault is empty.
LEMMA VaultInit == ASSUME Vault!Assumed, Vault!Init PROVE Vault!Safe
<1>1. /\ v1 = {[root |-> "legacy", stamp |-> 0, name |-> <<"inbox", TRUE>>, write |-> 0]}
      /\ v2 \in BOOLEAN /\ v3 = 0 /\ v4 = [m \in VaultNames |-> 0] /\ v6 = <<>> /\ v7 = "idle" /\ v8 = {} /\ v9 = {}
      /\ v11 = 0 /\ v12 = 1 /\ v13 = "idle" /\ v14 = 0
  BY DEF Vault!Init
<1>2. \A f \in v1 : Vault!Proper(f) /\ f.root = "legacy"
  <2> DEFINE r == [root |-> "legacy", stamp |-> 0, name |-> <<"inbox", TRUE>>, write |-> 0]
  <2>1. r.root = "legacy" /\ r \in [root : {"vault", "tools", "legacy"} \cup Vault!Runtime, stamp : Nat,
                                   name : VaultNames \cup {<<"inbox", TRUE>>}, write : Nat]
    OBVIOUS
  <2>2. \A f \in v1 : f = r
    BY <1>1
  <2> HIDE DEF r
  <2> QED BY <2>1, <2>2 DEF Vault!Proper
<1>3. Vault!Vault = {}
  BY <1>2 DEF Vault!Vault, Vault!InUse
<1>4. Vault!Types
  <2>1. v6 \in Seq(Vault!Moves)
    BY <1>1
  <2>2. v4 \in [VaultNames -> Nat]
    BY <1>1
  <2> QED BY <1>1, <1>2, <2>1, <2>2 DEF Vault!Types
<1>5. Vault!LatestKept
  BY <1>1 DEF Vault!LatestKept, Vault!Safely
<1> QED BY <1>1, <1>3, <1>4, <1>5
      DEF Vault!Safe, Vault!VaultLatest, Vault!CopyKept, Vault!MergeListed, Vault!AllToMove, Vault!SecondRunClean

\* The move under way.
LEMMA VaultAction ==
  ASSUME Vault!Types, v6 # <<>>
  PROVE  /\ Vault!Action = v6[1] /\ Vault!Action \in Vault!Moves /\ Tail(v6) \in Seq(Vault!Moves)
         /\ Vault!Action.names \in SUBSET VaultNames
<1>1. v6 \in Seq(Vault!Moves)
  BY DEF Vault!Types
<1>2. Vault!Action = v6[1] /\ Vault!Action \in Vault!Moves /\ Tail(v6) \in Seq(Vault!Moves)
  BY <1>1 DEF Vault!Action
<1> QED BY <1>2 DEF Vault!Moves

LEMMA VaultFile ==
  ASSUME Vault!Assumed, Vault!Types, NEW f \in Vault!Vault
  PROVE  /\ f \in v1 /\ f.root = "vault" /\ f.stamp = 0 /\ f.name \in VaultNames /\ Vault!Proper(f) /\ f.write \in Nat
         /\ f = [root |-> "vault", stamp |-> 0, name |-> f.name, write |-> f.write]
         /\ f.name \in {"hist", "tmp", "notes", "agents", "inbox"} \X BOOLEAN
<1>1. f \in v1 /\ f.root = "vault" /\ f.stamp = 0
  BY DEF Vault!Vault, Vault!InUse
<1>2. Vault!Proper(f)
  BY <1>1 DEF Vault!Types
<1>3. f.name \in VaultNames
  BY <1>1, <1>2 DEF Vault!Proper
<1>4. f.write \in Nat /\ f = [root |-> f.root, stamp |-> f.stamp, name |-> f.name, write |-> f.write]
  BY <1>2 DEF Vault!Proper
<1> QED BY <1>1, <1>2, <1>3, <1>4 DEF Vault!Assumed

\* A name has one file in the vault.
LEMMA VaultOne ==
  ASSUME Vault!Assumed, Vault!Types, Vault!VaultLatest, NEW f \in Vault!Vault, NEW g \in Vault!Vault, f.name = g.name
  PROVE  f = g
<1>1. f.write = g.write
  BY DEF Vault!VaultLatest
<1> QED BY <1>1, VaultFile

\* Where a move puts a file.
LEMMA VaultMoved ==
  ASSUME Vault!Assumed, Vault!Types, v6 # <<>>, NEW f \in Vault!Source
  PROVE  /\ f \in Vault!Vault /\ f.name \in Vault!Action.names
         /\ Vault!Proper(Vault!Moved(f)) /\ Vault!Moved(f).write = f.write /\ Vault!Moved(f).stamp = 0
         /\ Vault!Action.to = "agents" =>
              /\ f.name[1] = "notes" /\ Vault!Moved(f).root = "vault"
              /\ Vault!Moved(f).name = <<"agents", f.name[2]>> /\ Vault!Moved(f).name \in VaultNames
         /\ Vault!Action.to # "agents" => Vault!Moved(f).root # "vault" /\ Vault!Moved(f).name = f.name
<1>1. f \in Vault!Vault /\ f.name \in Vault!Action.names
  BY DEF Vault!Source
<1>2. f.name \in VaultNames /\ Vault!Proper(f) /\ f.root = "vault" /\ f.stamp = 0
  BY <1>1, VaultFile
<1>3. Vault!Action \in Vault!Moves
  BY VaultAction
<1>4. CASE Vault!Action.to = "agents"
  <2>1. f.name \in Vault!In({"notes"})
    BY <1>1, <1>3, <1>4 DEF Vault!Moves
  <2>2. f.name[1] = "notes" /\ f.name[2] \in BOOLEAN /\ f.name = <<"notes", f.name[2]>>
    BY <1>2, <2>1 DEF Vault!In, Vault!Assumed
  <2>3. <<"agents", f.name[2]>> \in VaultNames
    BY <1>2, <2>2 DEF Vault!Assumed
  <2>4. Vault!Moved(f) = [f EXCEPT !.name = <<"agents", f.name[2]>>]
    BY <1>4 DEF Vault!Moved
  <2> QED BY <1>1, <1>2, <1>4, <2>2, <2>3, <2>4 DEF Vault!Proper
<1>5. CASE Vault!Action.to # "agents"
  <2>1. Vault!Action.to \in {"tools"} \cup Vault!Runtime
    BY <1>3, <1>5 DEF Vault!Moves
  <2>2. Vault!Moved(f) = [f EXCEPT !.root = Vault!Action.to]
    BY <1>5 DEF Vault!Moved
  <2> QED BY <1>1, <1>2, <1>5, <2>1, <2>2 DEF Vault!Proper, Vault!Runtime
<1> QED BY <1>4, <1>5

\* What the names of the vault are after files were moved.
LEMMA VaultRenamed ==
  ASSUME Vault!Assumed, Vault!Safe, v6 # <<>>, NEW F \in SUBSET Vault!Source
  PROVE  /\ Vault!Renamed(F) \in [VaultNames -> Nat]
         /\ Vault!Action.to # "agents" => Vault!Renamed(F) = v4
         /\ Vault!Action.to = "agents" =>
              /\ \A f \in F : Vault!Renamed(F)[f.name] = 0 /\ Vault!Renamed(F)[Vault!Moved(f).name] = f.write
              /\ \A m \in VaultNames : (\A f \in F : m # f.name /\ m # Vault!Moved(f).name) => Vault!Renamed(F)[m] = v4[m]
<1>0. Vault!Types /\ Vault!VaultLatest /\ v4 \in [VaultNames -> Nat]
  BY DEF Vault!Safe, Vault!Types
<1>1. CASE Vault!Action.to # "agents"
  BY <1>0, <1>1 DEF Vault!Renamed
<1>2. CASE Vault!Action.to = "agents"
  <2> DEFINE R(m) == IF \E f \in F : f.name = m THEN 0
                     ELSE IF \E f \in F : Vault!Moved(f).name = m
                          THEN (CHOOSE f \in F : Vault!Moved(f).name = m).write
                     ELSE v4[m]
  <2>1. Vault!Renamed(F) = [m \in VaultNames |-> R(m)]
    BY <1>2 DEF Vault!Renamed
  <2>2. \A f \in F : /\ f \in Vault!Vault /\ f.name \in VaultNames /\ f.name[1] = "notes" /\ f.write \in Nat
                     /\ Vault!Moved(f).name = <<"agents", f.name[2]>> /\ Vault!Moved(f).name \in VaultNames
                     /\ f.name = <<"notes", f.name[2]>>
    <3> TAKE f \in F
    <3>1. f \in Vault!Vault /\ f.name[1] = "notes" /\ Vault!Moved(f).name = <<"agents", f.name[2]>> /\ Vault!Moved(f).name \in VaultNames
      BY <1>0, <1>2, VaultMoved
    <3>2. f.name \in VaultNames /\ f.write \in Nat /\ f.name \in {"hist", "tmp", "notes", "agents", "inbox"} \X BOOLEAN
      BY <1>0, <3>1, VaultFile
    <3> QED BY <3>1, <3>2
  <2>3. ASSUME NEW f \in F, NEW g \in F, Vault!Moved(f).name = Vault!Moved(g).name PROVE f = g
    <3>1. f.name[2] = g.name[2]
      <4>1. <<"agents", f.name[2]>> = <<"agents", g.name[2]>>
        BY <2>2, <2>3
      <4> QED BY <4>1
    <3>2. f.name = g.name
      BY <2>2, <3>1
    <3> QED BY <1>0, <2>2, <3>2, VaultOne
  <2>4. ASSUME NEW f \in F PROVE R(Vault!Moved(f).name) = f.write
    <3>1. ~ \E g \in F : g.name = Vault!Moved(f).name
      <4>1. \A g \in F : g.name[1] = "notes" /\ Vault!Moved(f).name[1] = "agents"
        BY <2>2
      <4> QED BY <4>1
    <3>2. (CHOOSE g \in F : Vault!Moved(g).name = Vault!Moved(f).name) = f
      <4> DEFINE h == CHOOSE g \in F : Vault!Moved(g).name = Vault!Moved(f).name
      <4>1. h \in F /\ Vault!Moved(h).name = Vault!Moved(f).name
        OBVIOUS
      <4> HIDE DEF h
      <4>2. h = f
        BY <2>3, <4>1
      <4> QED BY <4>2 DEF h
    <3> QED BY <3>1, <3>2
  <2>5. ASSUME NEW m \in VaultNames PROVE R(m) \in Nat
    <3>1. CASE \E f \in F : Vault!Moved(f).name = m
      <4>1. PICK f \in F : Vault!Moved(f).name = m
        BY <3>1
      <4> QED BY <2>2, <2>4, <4>1
    <3>2. CASE ~ \E f \in F : Vault!Moved(f).name = m
      BY <1>0, <3>2
    <3> QED BY <3>1, <3>2
  <2>6. \A f \in F : R(f.name) = 0
    OBVIOUS
  <2>7. \A m \in VaultNames : (\A f \in F : m # f.name /\ m # Vault!Moved(f).name) => R(m) = v4[m]
    OBVIOUS
  <2> HIDE DEF R
  <2> QED BY <1>2, <2>1, <2>2, <2>4, <2>5, <2>6, <2>7
<1> QED BY <1>1, <1>2

\* Files F of the source are put where they go, in the place of what is there,
\* and all of them, or none, are gone from the source.
LEMMA VaultPut ==
  ASSUME Vault!Assumed, Vault!Safe, v6 # <<>>, NEW F \in SUBSET Vault!Source, NEW D \in {F, {}},
         Vault!Action.to = "agents" => D = F,
         NEW rest, rest = {g \in v1 : \A f \in F : ~Vault!SameSlot(g, Vault!Moved(f))},
         v1' = (rest \ D) \cup {Vault!Moved(f) : f \in F}, v4' = Vault!Renamed(F), v5' = v5, v11' = v11
  PROVE  /\ \A f \in v1' : Vault!Proper(f)
         /\ v4' \in [VaultNames -> Nat]
         /\ Vault!VaultLatest' /\ Vault!LatestKept' /\ Vault!SecondRunClean'
         /\ Vault!Action.to # "agents" => Vault!Vault' = Vault!Vault \ D
         /\ \A g \in Vault!Vault' : g \in Vault!Vault \ D \/ (Vault!Action.to = "agents" /\ \E f \in F : g = Vault!Moved(f))
         /\ Vault!Action.to # "agents" => \A m \in VaultNames :
              (\E f \in F : f.name = m) => \E g \in v1' \ Vault!Vault' : g.name = m /\ g.write = v4'[m]
<1>0. Vault!Types /\ Vault!VaultLatest /\ Vault!LatestKept /\ v4 \in [VaultNames -> Nat] /\ Vault!SecondRunClean
  BY DEF Vault!Safe, Vault!Types
<1> DEFINE toAgents == Vault!Action.to = "agents"
<1>1. \A f \in F : /\ f \in Vault!Vault /\ f.name \in VaultNames /\ v4[f.name] = f.write
                   /\ Vault!Proper(Vault!Moved(f)) /\ Vault!Moved(f).write = f.write /\ Vault!Moved(f).stamp = 0
                   /\ toAgents => /\ f.name[1] = "notes" /\ Vault!Moved(f).root = "vault"
                                  /\ Vault!Moved(f).name = <<"agents", f.name[2]>> /\ Vault!Moved(f).name \in VaultNames
                   /\ ~toAgents => Vault!Moved(f).root # "vault" /\ Vault!Moved(f).name = f.name
  <2> TAKE f \in F
  <2>1. f \in Vault!Source
    OBVIOUS
  <2>2. f \in Vault!Vault
    BY <1>0, <2>1, VaultMoved
  <2>3. f.name \in VaultNames /\ v4[f.name] = f.write
    BY <1>0, <2>2, VaultFile DEF Vault!VaultLatest
  <2> QED BY <1>0, <2>1, <2>2, <2>3, VaultMoved
<1>2. /\ v4' \in [VaultNames -> Nat] /\ (~toAgents => v4' = v4)
      /\ toAgents =>
           /\ \A f \in F : v4'[f.name] = 0 /\ v4'[Vault!Moved(f).name] = f.write
           /\ \A m \in VaultNames : (\A f \in F : m # f.name /\ m # Vault!Moved(f).name) => v4'[m] = v4[m]
  BY VaultRenamed
<1>3. \A g : g \in Vault!Vault <=> g \in v1 /\ g.root = "vault" /\ g.stamp = 0
  BY DEF Vault!Vault, Vault!InUse
<1>4. \A g : g \in Vault!Vault' <=> g \in v1' /\ g.root = "vault" /\ g.stamp = 0
  BY DEF Vault!Vault, Vault!InUse
<1>5. \A f \in v1' : Vault!Proper(f)
  BY <1>0, <1>1 DEF Vault!Types
<1>6. \A g \in v1 \ rest : \E f \in F : g.root = Vault!Moved(f).root /\ g.stamp = 0 /\ g.name = Vault!Moved(f).name
  BY <1>1 DEF Vault!SameSlot
<1>7. \A g \in Vault!Vault' : g \in (Vault!Vault \cap rest) \ D \/ (toAgents /\ \E f \in F : g = Vault!Moved(f))
  BY <1>1, <1>3, <1>4
<1>8. ~toAgents => Vault!Vault' = Vault!Vault \ D
  BY <1>1, <1>3, <1>4, <1>6, <1>7
<1> HIDE DEF toAgents
<1>9. Vault!VaultLatest'
  <2> SUFFICES ASSUME NEW g \in Vault!Vault' PROVE v4'[g.name] = g.write
    BY DEF Vault!VaultLatest
  <2>1. CASE ~toAgents
    BY <1>0, <1>2, <1>8, <2>1 DEF Vault!VaultLatest
  <2>2. CASE toAgents /\ \E f \in F : g = Vault!Moved(f)
    BY <1>1, <1>2, <2>2
  <2>3. CASE toAgents /\ g \in (Vault!Vault \cap rest) \ D
    <3>1. g.name \in VaultNames /\ g.root = "vault" /\ g.stamp = 0 /\ D = F
      BY <1>0, <2>3, VaultFile DEF toAgents
    <3>2. ASSUME NEW f \in F PROVE g.name # f.name
      <4>1. g # f /\ f \in Vault!Vault
        BY <1>1, <2>3, <3>1
      <4> QED BY <1>0, <2>3, <4>1, VaultOne
    <3>3. ASSUME NEW f \in F PROVE g.name # Vault!Moved(f).name
      <4>1. ~Vault!SameSlot(g, Vault!Moved(f))
        BY <2>3
      <4> QED BY <1>1, <2>3, <3>1, <4>1 DEF Vault!SameSlot
    <3>4. v4'[g.name] = v4[g.name]
      BY <1>2, <2>3, <3>1, <3>2, <3>3
    <3> QED BY <1>0, <2>3, <3>4 DEF Vault!VaultLatest
  <2> QED BY <1>7, <2>1, <2>2, <2>3
<1>10. ASSUME NEW m \in VaultNames PROVE Vault!Safely(m, v1)'
  <2>1. CASE toAgents /\ \E f \in F : f.name = m
    BY <1>2, <2>1 DEF Vault!Safely
  <2>2. CASE \E f \in F : Vault!Moved(f).name = m /\ v4'[m] = f.write
    BY <1>1, <2>2 DEF Vault!Safely
  <2>3. CASE v4'[m] = v4[m] /\ \A f \in F : Vault!Moved(f).name # m /\ f.name # m
    <3>1. CASE v4[m] \in {0} \cup v5
      BY <2>3, <3>1 DEF Vault!Safely
    <3>2. CASE \E g \in v1 : g.name = m /\ g.write = v4[m]
      <4>1. PICK g \in v1 : g.name = m /\ g.write = v4[m]
        BY <3>2
      <4>2. g \in rest /\ g \notin D
        BY <1>6, <2>3, <4>1
      <4> QED BY <2>3, <4>1, <4>2 DEF Vault!Safely
    <3> QED BY <1>0, <3>1, <3>2 DEF Vault!LatestKept, Vault!Safely
  <2>4. CASE ~toAgents /\ \E f \in F : f.name = m
    BY <1>1, <1>2, <2>2, <2>4
  <2>5. CASE toAgents /\ \A f \in F : f.name # m
    <3>1. CASE \E f \in F : Vault!Moved(f).name = m
      BY <1>2, <2>2, <2>5, <3>1
    <3>2. CASE \A f \in F : Vault!Moved(f).name # m
      BY <1>2, <2>3, <2>5, <3>2
    <3> QED BY <3>1, <3>2
  <2>6. CASE ~toAgents /\ \A f \in F : f.name # m
    BY <1>1, <1>2, <2>3, <2>6
  <2> QED BY <2>1, <2>4, <2>5, <2>6
<1>11. Vault!LatestKept'
  BY <1>10 DEF Vault!LatestKept
<1>12. Vault!SecondRunClean'
  <2>1. ASSUME NEW g \in Vault!Vault' PROVE g \in Vault!Vault \/ \E f \in Vault!Vault : g.name = <<"agents", f.name[2]>>
    BY <1>1, <1>7, <2>1
  <2> QED BY <1>0, <2>1 DEF Vault!SecondRunClean
<1>13. ~toAgents => \A m \in VaultNames :
         (\E f \in F : f.name = m) => \E g \in v1' \ Vault!Vault' : g.name = m /\ g.write = v4'[m]
  BY <1>1, <1>2, <1>4
<1>14. \A g \in Vault!Vault' : g \in Vault!Vault \ D \/ (Vault!Action.to = "agents" /\ \E f \in F : g = Vault!Moved(f))
  BY <1>7 DEF toAgents
<1>15. /\ Vault!Action.to # "agents" => Vault!Vault' = Vault!Vault \ D
       /\ Vault!Action.to # "agents" => \A m \in VaultNames :
            (\E f \in F : f.name = m) => \E g \in v1' \ Vault!Vault' : g.name = m /\ g.write = v4'[m]
  BY <1>8, <1>13 DEF toAgents
<1> QED BY <1>2, <1>5, <1>9, <1>11, <1>12, <1>14, <1>15

\* The move under way ends.
LEMMA VaultPop ==
  ASSUME Vault!Types, v6 # <<>>, v6' = Tail(v6), NEW f, Vault!ToBeMoved(f),
         Vault!Action.dir \/ f.name \notin Vault!Action.names
  PROVE  Vault!ToBeMoved(f)'
<1>1. PICK n \in DOMAIN v6 : ~v6[n].dir /\ f.name \in v6[n].names
  BY DEF Vault!ToBeMoved
<1>2. v6 \in Seq(Vault!Moves) /\ Vault!Action = v6[1]
  BY VaultAction DEF Vault!Types
<1>3. n \in 1 .. Len(v6) /\ n # 1
  BY <1>1, <1>2
<1>4. n - 1 \in DOMAIN Tail(v6) /\ Tail(v6)[n - 1] = v6[n]
  BY <1>2, <1>3
<1> QED BY <1>1, <1>4 DEF Vault!ToBeMoved

\* A note that moves within the vault may be left there by a first run, and has
\* an allowed suffix in a second.
LEMMA VaultComes ==
  ASSUME Vault!Assumed, Vault!Safe, v6 # <<>>, NEW f \in Vault!Source, Vault!Action.to = "agents", v11 \in {0, 1}
  PROVE  Vault!Moved(f).name[2] \/ (v11 = 0 /\ Vault!Moved(f).name[1] = "agents")
<1>1. Vault!Types /\ Vault!SecondRunClean
  BY DEF Vault!Safe
<1>2. f \in Vault!Vault /\ f.name[1] = "notes" /\ Vault!Moved(f).name = <<"agents", f.name[2]>>
  BY <1>1, VaultMoved
<1>3. v11 = 1 => f.name[2]
  BY <1>1, <1>2 DEF Vault!SecondRunClean
<1> QED BY <1>2, <1>3

\* The clock, and what the collector does without the files.
LEMMA VaultCalm ==
  ASSUME Vault!Safe, UNCHANGED <<v1, v2, v3, v4, v5, v6, v7, v8, v9, v11>>,
         v12' \in Nat \ {0}, v14' \in Nat, v13' # "idle" => v14' # 0
  PROVE  Vault!Safe'
BY DEF Vault!Safe, Vault!Types, Vault!VaultLatest, Vault!LatestKept, Vault!CopyKept, Vault!Safely, Vault!MergeListed,
       Vault!AllToMove, Vault!ToBeMoved, Vault!SecondRunClean, Vault!Vault, Vault!InUse, Vault!Source, Vault!Action

\* A step of the sanitizer that leaves the files.
LEMMA VaultControl ==
  ASSUME Vault!Assumed, Vault!Safe, UNCHANGED <<v1, v2, v3, v4, v5, v12, v13, v14>>,
         v6' \in Seq(Vault!Moves), v7' \in {"idle", "act", "merge"}, v7' = "merge" => v6' # <<>>,
         v8' \subseteq VaultNames, v9' \subseteq VaultNames, v11' \in -1 .. 2,
         Vault!MergeListed', Vault!AllToMove', Vault!SecondRunClean'
  PROVE  Vault!Safe'
<1>1. Vault!Vault' = Vault!Vault
  BY DEF Vault!Vault, Vault!InUse
<1>2. Vault!Types'
  BY DEF Vault!Safe, Vault!Types
<1>3. Vault!VaultLatest' /\ Vault!LatestKept' /\ Vault!CopyKept'
  BY <1>1 DEF Vault!Safe, Vault!VaultLatest, Vault!LatestKept, Vault!Safely, Vault!CopyKept
<1> QED BY <1>2, <1>3 DEF Vault!Safe

LEMMA VaultSkip ==
  ASSUME Vault!Assumed, Vault!Safe, Vault!SkipAction PROVE Vault!Safe'
<1>1. /\ v7 = "act" /\ v6 # <<>> /\ Vault!Source = {} /\ v6' = Tail(v6)
      /\ UNCHANGED <<v1, v2, v3, v4, v5, v7, v8, v9, v11, v12, v13, v14>>
  BY DEF Vault!SkipAction, Vault!people, Vault!collect
<1>2. Vault!Types /\ Vault!AllToMove /\ Vault!SecondRunClean
  BY DEF Vault!Safe
<1>3. v6' \in Seq(Vault!Moves) /\ v8' \subseteq VaultNames /\ v9' \subseteq VaultNames /\ v11' \in -1 .. 2
  BY <1>1, <1>2, VaultAction DEF Vault!Types
<1>4. Vault!Vault' = Vault!Vault /\ Vault!SecondRunClean'
  BY <1>1, <1>2 DEF Vault!Vault, Vault!InUse, Vault!SecondRunClean
<1>5. \A f \in Vault!Vault : f.name \notin Vault!Action.names
  BY <1>1 DEF Vault!Source
<1>6. Vault!AllToMove'
  BY <1>1, <1>2, <1>4, <1>5, VaultPop DEF Vault!AllToMove
<1>7. Vault!MergeListed'
  BY <1>1 DEF Vault!MergeListed
<1> QED BY <1>1, <1>3, <1>4, <1>6, <1>7, VaultControl

LEMMA VaultStartMerge ==
  ASSUME Vault!Assumed, Vault!Safe, Vault!StartMerge PROVE Vault!Safe'
<1>1. /\ v7 = "act" /\ v6 # <<>> /\ v8' = {f.name : f \in Vault!Source} /\ v7' = "merge"
      /\ UNCHANGED <<v1, v2, v3, v4, v5, v6, v9, v11, v12, v13, v14>>
  BY DEF Vault!StartMerge, Vault!people, Vault!collect
<1>2. Vault!Types /\ Vault!AllToMove /\ Vault!SecondRunClean
  BY DEF Vault!Safe
<1>3. v8' \subseteq VaultNames
  <2>1. \A f \in Vault!Source : f.name \in VaultNames
    BY <1>2, VaultFile DEF Vault!Source
  <2> QED BY <1>1, <2>1
<1>4. Vault!Vault' = Vault!Vault /\ Vault!SecondRunClean' /\ Vault!Source' = Vault!Source
  BY <1>1, <1>2 DEF Vault!Vault, Vault!InUse, Vault!SecondRunClean, Vault!Source, Vault!Action
<1>5. Vault!AllToMove'
  BY <1>1, <1>2, <1>4 DEF Vault!AllToMove, Vault!ToBeMoved
<1>6. Vault!MergeListed'
  BY <1>1, <1>4 DEF Vault!MergeListed
<1>7. v6' \in Seq(Vault!Moves) /\ v9' \subseteq VaultNames /\ v11' \in -1 .. 2
  BY <1>1, <1>2 DEF Vault!Types
<1> QED BY <1>1, <1>3, <1>4, <1>5, <1>6, <1>7, VaultControl

LEMMA VaultEndMerge ==
  ASSUME Vault!Assumed, Vault!Safe, Vault!EndMerge PROVE Vault!Safe'
<1>1. /\ v7 = "merge" /\ v8 = {} /\ UNCHANGED <<v1, v2, v3, v4, v5, v8, v9, v11, v12, v13, v14>>
      /\ \/ v7' = "idle" /\ v6' = <<>>
         \/ v7' = "act" /\ v6' = Tail(v6) /\ (~Vault!Action.dir \/ Vault!Source = {})
  BY DEF Vault!EndMerge, Vault!people, Vault!collect
<1>2. Vault!Types /\ Vault!AllToMove /\ Vault!SecondRunClean /\ Vault!MergeListed /\ v6 # <<>>
  BY <1>1 DEF Vault!Safe, Vault!Types
<1>3. v6' \in Seq(Vault!Moves) /\ v8' \subseteq VaultNames /\ v9' \subseteq VaultNames /\ v11' \in -1 .. 2
  <2>1. Tail(v6) \in Seq(Vault!Moves) /\ <<>> \in Seq(Vault!Moves)
    BY <1>2, VaultAction
  <2>2. v6' \in Seq(Vault!Moves)
    BY <1>1, <2>1
  <2> QED BY <1>1, <1>2, <2>2 DEF Vault!Types
<1>4. Vault!Vault' = Vault!Vault /\ Vault!SecondRunClean'
  BY <1>1, <1>2 DEF Vault!Vault, Vault!InUse, Vault!SecondRunClean
<1>5. v11 # -1 => Vault!Source = {}
  BY <1>1, <1>2 DEF Vault!MergeListed
<1>6. Vault!AllToMove'
  <2>1. CASE v7' = "idle"
    BY <2>1 DEF Vault!AllToMove
  <2>2. CASE v7' = "act" /\ v6' = Tail(v6) /\ (~Vault!Action.dir \/ Vault!Source = {})
    <3> SUFFICES ASSUME v11 \in {0, 1}, NEW f \in Vault!Vault, ~f.name[2], ~(v11 = 0 /\ f.name[1] = "agents")
                 PROVE  Vault!ToBeMoved(f)'
      BY <1>1, <1>4 DEF Vault!AllToMove
    <3>1. Vault!ToBeMoved(f)
      BY <1>1, <1>2 DEF Vault!AllToMove
    <3>2. f.name \notin Vault!Action.names
      BY <1>5 DEF Vault!Source
    <3> QED BY <1>2, <2>2, <3>1, <3>2, VaultPop
  <2> QED BY <1>1, <2>1, <2>2
<1>7. Vault!MergeListed'
  BY <1>1 DEF Vault!MergeListed
<1> QED BY <1>1, <1>3, <1>4, <1>6, <1>7, VaultControl

LEMMA VaultEnd ==
  ASSUME Vault!Assumed, Vault!Safe, Vault!EndSanitize \/ Vault!StopSanitize PROVE Vault!Safe'
<1>1. /\ UNCHANGED <<v1, v2, v3, v4, v5, v12, v13, v14>> /\ v7' = "idle" /\ v6' = <<>>
      /\ v8' \in {v8, {}} /\ v9' \in {v9, {}}
      /\ v11' = v11 \/ (v7 = "act" /\ v6 = <<>> /\ v11 < 2 /\ v11' = v11 + 1)
  BY DEF Vault!EndSanitize, Vault!StopSanitize, Vault!people, Vault!collect
<1>2. Vault!Types /\ Vault!AllToMove /\ Vault!SecondRunClean
  BY DEF Vault!Safe
<1>3. v6' \in Seq(Vault!Moves) /\ v8' \subseteq VaultNames /\ v9' \subseteq VaultNames /\ v11 \in -1 .. 2 /\ v11' \in -1 .. 2
  BY <1>1, <1>2 DEF Vault!Types
<1>4. Vault!Vault' = Vault!Vault
  BY <1>1 DEF Vault!Vault, Vault!InUse
<1>5. Vault!SecondRunClean'
  <2>1. CASE v11' = v11
    BY <1>2, <1>4, <2>1 DEF Vault!SecondRunClean
  <2>2. CASE v7 = "act" /\ v6 = <<>> /\ v11 < 2 /\ v11' = v11 + 1
    <3>1. v11 \in {-1, 0, 1}
      BY <1>3, <2>2
    <3>2. v11 \in {0, 1} => \A f \in Vault!Vault : f.name[2] \/ (v11 = 0 /\ f.name[1] = "agents")
      BY <1>2, <2>2 DEF Vault!AllToMove, Vault!ToBeMoved
    <3> QED BY <1>4, <2>2, <3>1, <3>2 DEF Vault!SecondRunClean
  <2> QED BY <1>1, <2>1, <2>2
<1>6. Vault!AllToMove' /\ Vault!MergeListed'
  BY <1>1 DEF Vault!AllToMove, Vault!MergeListed
<1> QED BY <1>1, <1>3, <1>5, <1>6, VaultControl

LEMMA VaultCounts == \A S : Vault!Cardinality(S) = Cardinality(S) /\ (Vault!IsFiniteSet(S) <=> IsFiniteSet(S))
BY DEF Vault!Cardinality, Cardinality, Vault!IsFiniteSet, IsFiniteSet

\* InOneOrder has each member of a finite set.
LEMMA VaultOrder ==
  ASSUME NEW S, IsFiniteSet(S)
  PROVE  /\ Cardinality(S) \in Nat /\ Vault!InOneOrder(S) \in [1 .. Cardinality(S) -> S]
         /\ \A x \in S : \E n \in DOMAIN Vault!InOneOrder(S) : Vault!InOneOrder(S)[n] = x
<1> DEFINE Good(s) == s \in [1 .. Cardinality(S) -> S] /\ \A x \in S : \E n \in DOMAIN s : s[n] = x
<1>1. Cardinality(S) \in Nat
  BY FS_CardinalityType
<1>2. \E s : Good(s)
  <2>1. ExistsBijection(1 .. Cardinality(S), S)
    BY FS_CardinalityType
  <2>2. PICK s \in Bijection(1 .. Cardinality(S), S) : TRUE
    BY <2>1 DEF ExistsBijection
  <2>3. Good(s)
    BY <2>2 DEF Bijection, Injection, Surjection
  <2> QED BY <2>3
<1>3. Vault!InOneOrder(S) = CHOOSE s \in [1 .. Cardinality(S) -> S] : \A x \in S : \E n \in DOMAIN s : s[n] = x
  BY VaultCounts DEF Vault!InOneOrder
<1>4. Good(Vault!InOneOrder(S))
  BY <1>2, <1>3
<1> QED BY <1>1, <1>4

LEMMA VaultConcat ==
  ASSUME NEW T, NEW s \in Seq(T), NEW t \in Seq(T), NEW n \in 1 .. Len(t)
  PROVE  Len(s) + n \in DOMAIN (s \o t) /\ (s \o t)[Len(s) + n] = t[n]
OBVIOUS

LEMMA VaultStart ==
  ASSUME Vault!Assumed, Vault!Safe, Vault!StartSanitize PROVE Vault!Safe'
<1> DEFINE S == Vault!ScanNonWhitelist
           bad == Vault!InOneOrder(S)
           last == [i \in DOMAIN bad |-> Vault!MoveFile(bad[i])]
<1>1. /\ v7 = "idle" /\ UNCHANGED <<v1, v2, v3, v4, v5, v8, v9, v12, v13, v14>> /\ v7' = "act"
      /\ v6' = Vault!DefaultActions \o last
      /\ v11' = IF v11 = -1 THEN 0 ELSE v11
  BY DEF Vault!StartSanitize, Vault!people, Vault!collect
<1>2. Vault!Types /\ Vault!SecondRunClean
  BY DEF Vault!Safe
<1>3. S \subseteq VaultNames
  <2>1. \A f \in Vault!Vault : f.name \in VaultNames
    BY <1>2, VaultFile
  <2> QED BY <2>1 DEF Vault!ScanNonWhitelist
<1>4. IsFiniteSet(S)
  BY <1>3, FS_Subset, VaultCounts DEF Vault!Assumed
<1>5. /\ Cardinality(S) \in Nat /\ bad \in [1 .. Cardinality(S) -> S]
      /\ \A x \in S : \E n \in DOMAIN bad : bad[n] = x
  BY <1>4, VaultOrder
<1> HIDE DEF bad
<1>6. \A i \in DOMAIN bad : Vault!MoveFile(bad[i]) \in Vault!Moves
  <2> TAKE i \in DOMAIN bad
  <2>1. bad[i] \in VaultNames
    BY <1>3, <1>5
  <2> QED BY <2>1 DEF Vault!MoveFile, Vault!Moves, Vault!Runtime
<1>7. last \in Seq(Vault!Moves) /\ Len(last) = Cardinality(S)
  <2>1. last \in [1 .. Cardinality(S) -> Vault!Moves]
    BY <1>5, <1>6
  <2> QED BY <1>5, <2>1
<1>8. Vault!DefaultActions \in Seq(Vault!Moves) /\ Len(Vault!DefaultActions) = 3
  <2>1. \A dirs : Vault!In(dirs) \in SUBSET VaultNames
    BY DEF Vault!In
  <2>2. /\ Vault!MoveDir({"hist"}, "tools") \in Vault!Moves /\ Vault!MoveDir({"notes"}, "agents") \in Vault!Moves
        /\ Vault!MoveDir({"tmp", "hist"}, "artifacts") \in Vault!Moves
    BY <2>1 DEF Vault!MoveDir, Vault!Moves, Vault!Runtime
  <2> QED BY <2>2 DEF Vault!DefaultActions
<1>9. \A n \in DOMAIN bad : v6'[3 + n] = Vault!MoveFile(bad[n]) /\ 3 + n \in DOMAIN v6'
  <2> TAKE n \in DOMAIN bad
  <2>1. n \in 1 .. Len(last) /\ last[n] = Vault!MoveFile(bad[n])
    BY <1>5, <1>7
  <2>2. /\ 3 + n \in DOMAIN (Vault!DefaultActions \o last)
        /\ (Vault!DefaultActions \o last)[3 + n] = last[n]
    <3> DEFINE first == Vault!DefaultActions
    <3>1. first \in Seq(Vault!Moves) /\ last \in Seq(Vault!Moves) /\ n \in 1 .. Len(last)
      BY <1>7, <1>8, <2>1
    <3>2. Len(first) = 3
      BY <1>8
    <3> HIDE DEF last, first
    <3>3. Len(first) + n \in DOMAIN (first \o last) /\ (first \o last)[Len(first) + n] = last[n]
      BY <3>1, VaultConcat
    <3> QED BY <3>2, <3>3 DEF first
  <2> QED BY <1>1, <2>1, <2>2
<1>10. v6' \in Seq(Vault!Moves)
  BY <1>1, <1>7, <1>8
<1> HIDE DEF last
<1>11. Vault!Vault' = Vault!Vault
  BY <1>1 DEF Vault!Vault, Vault!InUse
<1>12. Vault!AllToMove'
  <2> SUFFICES ASSUME NEW f \in Vault!Vault, ~f.name[2] PROVE Vault!ToBeMoved(f)'
    BY <1>11 DEF Vault!AllToMove
  <2>1. f.name \in S
    BY DEF Vault!ScanNonWhitelist
  <2>2. PICK n \in DOMAIN bad : bad[n] = f.name
    BY <1>5, <2>1
  <2>a. v6'[3 + n] = Vault!MoveFile(f.name)
    BY <1>9, <2>2
  <2>3. ~v6'[3 + n].dir /\ f.name \in v6'[3 + n].names
    BY <2>a DEF Vault!MoveFile
  <2> QED BY <1>9, <2>3 DEF Vault!ToBeMoved
<1>13. Vault!SecondRunClean' /\ Vault!MergeListed'
  BY <1>1, <1>2, <1>11 DEF Vault!SecondRunClean, Vault!MergeListed
<1>14. v8' \subseteq VaultNames /\ v9' \subseteq VaultNames /\ v11' \in -1 .. 2
  BY <1>1, <1>2 DEF Vault!Types
<1> QED BY <1>1, <1>10, <1>12, <1>13, <1>14, VaultControl

LEMMA VaultWhole ==
  ASSUME Vault!Whole, NEW F \in SUBSET Vault!Source
  PROVE  v1 = {g \in v1 : \A f \in F : ~Vault!SameSlot(g, Vault!Moved(f))}
BY DEF Vault!Whole

\* A move as a whole, within one device.
LEMMA VaultMoveWhole ==
  ASSUME Vault!Assumed, Vault!Safe, Vault!MoveWhole PROVE Vault!Safe'
<1> DEFINE F == Vault!Source
<1>1. /\ v7 = "act" /\ v6 # <<>> /\ Vault!Action.dir /\ Vault!Whole
      /\ v1' = (v1 \ F) \cup {Vault!Moved(f) : f \in F} /\ v4' = Vault!Renamed(F) /\ v6' = Tail(v6)
      /\ UNCHANGED <<v2, v3, v5, v7, v8, v9, v11, v12, v13, v14>>
  BY DEF Vault!MoveWhole, Vault!Whole, Vault!collect
<1>2. Vault!Types /\ Vault!AllToMove
  BY DEF Vault!Safe
<1>3. F \in SUBSET Vault!Source
  OBVIOUS
<1>4. v1 = {g \in v1 : \A f \in F : ~Vault!SameSlot(g, Vault!Moved(f))}
  BY <1>1, <1>3, VaultWhole
<1> HIDE DEF F
<1>5. /\ \A f \in v1' : Vault!Proper(f)
      /\ v4' \in [VaultNames -> Nat]
      /\ Vault!VaultLatest' /\ Vault!LatestKept' /\ Vault!SecondRunClean'
      /\ \A g \in Vault!Vault' : g \in Vault!Vault \ F \/ (Vault!Action.to = "agents" /\ \E f \in F : g = Vault!Moved(f))
  BY <1>1, <1>3, <1>4, VaultPut
<1>6. Vault!Types'
  BY <1>1, <1>2, <1>5, VaultAction DEF Vault!Types
<1>7. Vault!AllToMove'
  <2> SUFFICES ASSUME v11 \in {0, 1}, NEW g \in Vault!Vault', ~g.name[2], ~(v11 = 0 /\ g.name[1] = "agents")
               PROVE  Vault!ToBeMoved(g)'
    BY <1>1 DEF Vault!AllToMove
  <2>1. CASE Vault!Action.to = "agents" /\ \E f \in F : g = Vault!Moved(f)
    BY <1>1, <1>3, <2>1, VaultComes
  <2>2. CASE g \in Vault!Vault
    <3>1. Vault!ToBeMoved(g)
      BY <1>1, <1>2, <2>2 DEF Vault!AllToMove
    <3> QED BY <1>1, <1>2, <3>1, VaultPop
  <2> QED BY <1>5, <2>1, <2>2
<1>8. Vault!CopyKept' /\ Vault!MergeListed'
  BY <1>1 DEF Vault!CopyKept, Vault!MergeListed
<1> QED BY <1>5, <1>6, <1>7, <1>8 DEF Vault!Safe

\* The copy of a whole tree to another device, or of a part of it.
LEMMA VaultCopyWhole ==
  ASSUME Vault!Assumed, Vault!Safe, Vault!CopyWhole PROVE Vault!Safe'
<1>1. PICK F \in SUBSET Vault!Source :
        /\ v1' = v1 \cup {Vault!Moved(f) : f \in F}
        /\ \/ F = Vault!Source /\ v7' = "copied" /\ v9' = Vault!Action.names /\ v6' = v6
           \/ v7' = "idle" /\ v6' = <<>> /\ v9' = v9
  BY DEF Vault!CopyWhole
<1>2. /\ v7 = "act" /\ v6 # <<>> /\ Vault!Whole /\ Vault!Action.to # "agents"
      /\ UNCHANGED <<v2, v3, v4, v5, v8, v11, v12, v13, v14>>
  BY DEF Vault!CopyWhole, Vault!Whole, Vault!Across, Vault!people, Vault!collect
<1>3. Vault!Types /\ Vault!AllToMove /\ Vault!LatestKept
  BY DEF Vault!Safe
<1>4. v4' = Vault!Renamed(F)
  BY <1>2, VaultRenamed
<1>5. v1 = {g \in v1 : \A f \in F : ~Vault!SameSlot(g, Vault!Moved(f))} /\ {} \in {F, {}}
  BY <1>2, VaultWhole
<1>6. v1' = (v1 \ {}) \cup {Vault!Moved(f) : f \in F}
  BY <1>1
<1>7. /\ \A f \in v1' : Vault!Proper(f)
      /\ v4' \in [VaultNames -> Nat]
      /\ Vault!VaultLatest' /\ Vault!LatestKept' /\ Vault!SecondRunClean'
      /\ Vault!Vault' = Vault!Vault \ {}
      /\ \A m \in VaultNames : (\E f \in F : f.name = m) => \E g \in v1' \ Vault!Vault' : g.name = m /\ g.write = v4'[m]
  BY <1>2, <1>4, <1>5, <1>6, VaultPut
<1>8. Vault!Action.names \in SUBSET VaultNames /\ v6 \in Seq(Vault!Moves)
  BY <1>2, <1>3, VaultAction DEF Vault!Types
<1>9. Vault!Types'
  <2>1. v6' \in Seq(Vault!Moves)
    <3>1. <<>> \in Seq(Vault!Moves)
      OBVIOUS
    <3> QED BY <1>1, <1>8, <3>1
  <2>2. v9 \subseteq VaultNames
    BY <1>3 DEF Vault!Types
  <2>3. v9' \subseteq VaultNames
    BY <1>1, <1>8, <2>2
  <2>4. v7' \in {"idle", "copied"} /\ (v7' = "copied" => v6' # <<>>)
    BY <1>1, <1>2
  <2> QED BY <1>2, <1>3, <1>7, <2>1, <2>3, <2>4 DEF Vault!Types
<1>10. CASE v7' = "idle"
  <2>1. Vault!CopyKept' /\ Vault!MergeListed' /\ Vault!AllToMove'
    BY <1>10 DEF Vault!CopyKept, Vault!MergeListed, Vault!AllToMove
  <2> QED BY <1>7, <1>9, <2>1 DEF Vault!Safe
<1>11. CASE F = Vault!Source /\ v7' = "copied" /\ v9' = Vault!Action.names /\ v6' = v6
  <2>1. Vault!CopyKept'
    <3> SUFFICES ASSUME NEW m \in Vault!Action.names PROVE Vault!Safely(m, v1 \ Vault!Vault)'
      BY <1>11 DEF Vault!CopyKept
    <3>1. m \in VaultNames
      BY <1>8
    <3>2. CASE \E f \in F : f.name = m
      BY <1>7, <3>1, <3>2 DEF Vault!Safely
    <3>3. CASE \A f \in F : f.name # m
      <4>1. \A g \in Vault!Vault : g.name # m
        BY <1>11, <3>3 DEF Vault!Source
      <4>2. v4[m] \in {0} \cup v5 \/ \E g \in v1 : g.name = m /\ g.write = v4[m]
        BY <1>3, <3>1 DEF Vault!LatestKept, Vault!Safely
      <4>3. \A g \in v1 : g \in v1' /\ (g.name = m => g \notin Vault!Vault')
        BY <1>1, <1>7, <4>1
      <4> QED BY <1>2, <4>2, <4>3 DEF Vault!Safely
    <3> QED BY <3>2, <3>3
  <2>2. Vault!AllToMove'
    BY <1>2, <1>3, <1>7, <1>11 DEF Vault!AllToMove, Vault!ToBeMoved
  <2>3. Vault!MergeListed'
    BY <1>7, <1>11 DEF Vault!MergeListed, Vault!Source, Vault!Action
  <2> QED BY <1>7, <1>9, <2>1, <2>2, <2>3 DEF Vault!Safe
<1> QED BY <1>1, <1>10, <1>11

\* What is in the place of the next child is unlinked.
LEMMA VaultMakeRoom ==
  ASSUME Vault!Assumed, Vault!Safe, Vault!MakeRoom PROVE Vault!Safe'
<1>1. PICK f \in Vault!Source :
        LET there == {g \in v1 : Vault!SameSlot(g, Vault!Moved(f))} IN
        /\ v1' = v1 \ there
        /\ v4' = [m \in VaultNames |-> IF \E g \in there \cap Vault!Vault : g.name = m THEN 0 ELSE v4[m]]
        /\ v9' = {f.name} /\ v8' = v8 \ {f.name}
  BY DEF Vault!MakeRoom
<1> DEFINE there == {g \in v1 : Vault!SameSlot(g, Vault!Moved(f))}
<1>2. v7 = "merge" /\ v7' = "place" /\ UNCHANGED <<v2, v3, v5, v6, v11, v12, v13, v14>>
  BY DEF Vault!MakeRoom, Vault!collect
<1>3. /\ Vault!Types /\ Vault!VaultLatest /\ Vault!LatestKept /\ Vault!MergeListed /\ Vault!AllToMove /\ Vault!SecondRunClean
      /\ v6 # <<>> /\ v4 \in [VaultNames -> Nat]
  BY <1>2 DEF Vault!Safe, Vault!Types
<1>4. /\ f \in Vault!Vault /\ f.name \in Vault!Action.names /\ f.name \in VaultNames /\ f.root = "vault" /\ f \in v1
      /\ v4[f.name] = f.write
      /\ Vault!Moved(f).stamp = 0 /\ (Vault!Action.to = "agents" => Vault!Moved(f).root = "vault")
      /\ Vault!Action.to # "agents" => Vault!Moved(f).root # "vault" /\ Vault!Moved(f).name = f.name
  <2>1. f \in Vault!Vault
    BY <1>3, VaultMoved
  <2> QED BY <1>3, <2>1, VaultMoved, VaultFile DEF Vault!VaultLatest
<1>5. /\ v1' = v1 \ there
      /\ v4' = [m \in VaultNames |-> IF \E g \in there \cap Vault!Vault : g.name = m THEN 0 ELSE v4[m]]
      /\ \A g \in there : g.root = Vault!Moved(f).root /\ g.stamp = 0 /\ g.name = Vault!Moved(f).name
  BY <1>1, <1>4 DEF Vault!SameSlot
<1> HIDE DEF there
<1>6. Vault!Vault' = Vault!Vault \ there
  BY <1>5 DEF Vault!Vault, Vault!InUse
<1>7. Vault!Types'
  <2>1. v9' \subseteq VaultNames /\ v8' \subseteq VaultNames /\ v9' \subseteq Vault!Action.names
    BY <1>1, <1>3, <1>4 DEF Vault!Types
  <2>2. v4' \in [VaultNames -> Nat] /\ \A g \in v1' : Vault!Proper(g)
    BY <1>3, <1>5 DEF Vault!Types
  <2>3. Vault!Action' = Vault!Action
    BY <1>2 DEF Vault!Action
  <2> QED BY <1>2, <1>3, <2>1, <2>2, <2>3 DEF Vault!Types
<1>8. Vault!VaultLatest'
  <2> SUFFICES ASSUME NEW g \in Vault!Vault, g \notin there PROVE v4'[g.name] = g.write
    BY <1>6 DEF Vault!VaultLatest
  <2>1. g.name \in VaultNames /\ v4[g.name] = g.write
    BY <1>3, VaultFile DEF Vault!VaultLatest
  <2>2. ~ \E h \in there \cap Vault!Vault : h.name = g.name
    BY <1>3, VaultOne
  <2> QED BY <1>5, <2>1, <2>2
<1>9. Vault!LatestKept'
  <2> SUFFICES ASSUME NEW m \in VaultNames PROVE Vault!Safely(m, v1)'
    BY DEF Vault!LatestKept
  <2>1. CASE \E g \in there \cap Vault!Vault : g.name = m
    BY <1>5, <2>1 DEF Vault!Safely
  <2>2. CASE ~ \E g \in there \cap Vault!Vault : g.name = m
    <3>1. v4'[m] = v4[m]
      BY <1>5, <2>2
    <3>2. CASE v4[m] \in {0} \cup v5
      BY <1>2, <3>1, <3>2 DEF Vault!Safely
    <3>3. CASE \E g \in v1 : g.name = m /\ g.write = v4[m]
      <4>1. PICK g \in v1 : g.name = m /\ g.write = v4[m]
        BY <3>3
      <4>2. CASE g \notin there
        BY <1>5, <3>1, <4>1, <4>2 DEF Vault!Safely
      <4>3. CASE g \in there
        <5>1. g.root # "vault"
          BY <1>5, <2>2, <4>1, <4>3 DEF Vault!Vault, Vault!InUse
        <5>2. Vault!Action.to # "agents"
          BY <1>4, <1>5, <4>3, <5>1
        <5>3. f.name = m /\ f \in v1' /\ f.write = v4[m]
          BY <1>4, <1>5, <4>1, <4>3, <5>2
        <5> QED BY <3>1, <5>3 DEF Vault!Safely
      <4> QED BY <4>2, <4>3
    <3> QED BY <1>3, <3>2, <3>3 DEF Vault!LatestKept, Vault!Safely
  <2> QED BY <2>1, <2>2
<1>10. Vault!MergeListed'
  BY <1>1, <1>2, <1>3, <1>6 DEF Vault!MergeListed, Vault!Source, Vault!Action
<1>11. Vault!AllToMove' /\ Vault!SecondRunClean' /\ Vault!CopyKept'
  BY <1>2, <1>3, <1>6 DEF Vault!AllToMove, Vault!ToBeMoved, Vault!SecondRunClean, Vault!CopyKept
<1> QED BY <1>7, <1>8, <1>9, <1>10, <1>11 DEF Vault!Safe

\* The child is put there.
LEMMA VaultPlace ==
  ASSUME Vault!Assumed, Vault!Safe, Vault!Place PROVE Vault!Safe'
<1>a. PICK F, D, rest :
        /\ F = {f \in Vault!Source : f.name \in v9}
        /\ D = IF Vault!Across THEN {} ELSE F
        /\ rest = {g \in v1 : \A f \in F : ~Vault!SameSlot(g, Vault!Moved(f))}
  OBVIOUS
<1>1. /\ v7 = "place" /\ v1' = (rest \ D) \cup {Vault!Moved(f) : f \in F} /\ v4' = Vault!Renamed(F)
      /\ v7' = (IF Vault!Across THEN "copied" ELSE "merge") /\ v9' = (IF Vault!Across THEN v9 ELSE {})
      /\ UNCHANGED <<v2, v3, v5, v6, v8, v11, v12, v13, v14>>
  BY <1>a DEF Vault!Place, Vault!collect
<1>2. /\ Vault!Types /\ Vault!MergeListed /\ Vault!AllToMove /\ v6 # <<>> /\ v9 \subseteq Vault!Action.names
      /\ v9 \subseteq VaultNames
  BY <1>1 DEF Vault!Safe, Vault!Types
<1>3. F \in SUBSET Vault!Source /\ D \in {F, {}} /\ (Vault!Action.to = "agents" => D = F)
      /\ (Vault!Across => D = {} /\ Vault!Action.to # "agents") /\ (~Vault!Across => D = F)
  BY <1>a DEF Vault!Across
<1>4. rest = {g \in v1 : \A f \in F : ~Vault!SameSlot(g, Vault!Moved(f))}
  BY <1>a
<1>5. \A f \in Vault!Source : f.name \in v9 => f \in F
  BY <1>a
<1>6. /\ v1' = (rest \ D) \cup {Vault!Moved(f) : f \in F} /\ v4' = Vault!Renamed(F) /\ v5' = v5 /\ v11' = v11
      /\ D \in {F, {}} /\ F \in SUBSET Vault!Source /\ v6 # <<>> /\ (Vault!Action.to = "agents" => D = F)
  BY <1>1, <1>2, <1>3
<1>7. /\ \A f \in v1' : Vault!Proper(f)
      /\ v4' \in [VaultNames -> Nat]
      /\ Vault!VaultLatest' /\ Vault!LatestKept' /\ Vault!SecondRunClean'
      /\ Vault!Action.to # "agents" => Vault!Vault' = Vault!Vault \ D
      /\ \A g \in Vault!Vault' : g \in Vault!Vault \ D \/ (Vault!Action.to = "agents" /\ \E f \in F : g = Vault!Moved(f))
      /\ Vault!Action.to # "agents" => \A m \in VaultNames :
           (\E f \in F : f.name = m) => \E g \in v1' \ Vault!Vault' : g.name = m /\ g.write = v4'[m]
  <2>1. CASE D = {}
    <3>1. v1' = (rest \ {}) \cup {Vault!Moved(f) : f \in F} /\ (Vault!Action.to = "agents" => {} = F) /\ {} \in {F, {}}
      BY <1>6, <2>1
    <3>2. /\ \A f \in v1' : Vault!Proper(f)
          /\ v4' \in [VaultNames -> Nat]
          /\ Vault!VaultLatest' /\ Vault!LatestKept' /\ Vault!SecondRunClean'
          /\ Vault!Action.to # "agents" => Vault!Vault' = Vault!Vault \ {}
          /\ \A g \in Vault!Vault' : g \in Vault!Vault \ {} \/ (Vault!Action.to = "agents" /\ \E f \in F : g = Vault!Moved(f))
          /\ Vault!Action.to # "agents" => \A m \in VaultNames :
               (\E f \in F : f.name = m) => \E g \in v1' \ Vault!Vault' : g.name = m /\ g.write = v4'[m]
      BY <1>4, <1>6, <3>1, VaultPut
    <3> QED BY <2>1, <3>2
  <2>2. CASE D = F
    <3>1. v1' = (rest \ F) \cup {Vault!Moved(f) : f \in F} /\ (Vault!Action.to = "agents" => F = F) /\ F \in {F, {}}
      BY <1>6, <2>2
    <3>2. /\ \A f \in v1' : Vault!Proper(f)
          /\ v4' \in [VaultNames -> Nat]
          /\ Vault!VaultLatest' /\ Vault!LatestKept' /\ Vault!SecondRunClean'
          /\ Vault!Action.to # "agents" => Vault!Vault' = Vault!Vault \ F
          /\ \A g \in Vault!Vault' : g \in Vault!Vault \ F \/ (Vault!Action.to = "agents" /\ \E f \in F : g = Vault!Moved(f))
          /\ Vault!Action.to # "agents" => \A m \in VaultNames :
               (\E f \in F : f.name = m) => \E g \in v1' \ Vault!Vault' : g.name = m /\ g.write = v4'[m]
      BY <1>4, <1>6, <3>1, VaultPut
    <3> QED BY <2>2, <3>2
  <2> QED BY <1>6, <2>1, <2>2
<1>8. Vault!Action' = Vault!Action /\ Vault!Action \in Vault!Moves
  BY <1>1, <1>2, VaultAction DEF Vault!Action
<1>9. Vault!Types'
  <2>1. v7' \in {"merge", "copied"} /\ v9' \subseteq VaultNames
    BY <1>1, <1>2
  <2> QED BY <1>1, <1>2, <1>7, <2>1 DEF Vault!Types
<1>10. Vault!CopyKept'
  <2> SUFFICES ASSUME Vault!Across, NEW m \in v9 PROVE Vault!Safely(m, v1 \ Vault!Vault)'
    BY <1>1 DEF Vault!CopyKept
  <2>1. m \in VaultNames /\ m \in Vault!Action.names
    BY <1>2
  <2>2. CASE \E f \in F : f.name = m
    BY <1>3, <1>7, <2>1, <2>2 DEF Vault!Safely
  <2>3. CASE \A f \in F : f.name # m
    <3>1. v4'[m] \in {0} \cup v5' \/ \E g \in v1' : g.name = m /\ g.write = v4'[m]
      BY <1>7, <2>1 DEF Vault!LatestKept, Vault!Safely
    <3>2. \A g \in Vault!Vault' : g.name # m
      <4>1. \A g \in Vault!Vault : g.name = m => g \in F
        BY <1>5, <2>1 DEF Vault!Source
      <4> QED BY <1>3, <1>7, <2>3, <4>1
    <3> QED BY <3>1, <3>2 DEF Vault!Safely
  <2> QED BY <2>2, <2>3
<1>11. \A g \in Vault!Vault' : g.name \in Vault!Action.names => g \in Vault!Vault \ D
  <2> SUFFICES ASSUME Vault!Action.to = "agents", NEW f \in F PROVE Vault!Moved(f).name \notin Vault!Action.names
    BY <1>7
  <2>1. Vault!Moved(f).name[1] = "agents"
    <3>1. Vault!Moved(f).name = <<"agents", f.name[2]>>
      BY <1>2, <1>3, VaultMoved
    <3> QED BY <3>1
  <2>2. Vault!Action.names = Vault!In({"notes"})
    BY <1>8 DEF Vault!Moves
  <2> QED BY <2>1, <2>2 DEF Vault!In
<1>12. Vault!MergeListed'
  <2> SUFFICES ASSUME v11 # -1, NEW g \in Vault!Vault', g.name \in Vault!Action.names
               PROVE  g.name \in v8 \/ (v7' # "merge" /\ g.name \in v9')
    BY <1>1, <1>8 DEF Vault!MergeListed, Vault!Source
  <2>1. g \in Vault!Source /\ g \notin D
    BY <1>11 DEF Vault!Source
  <2>2. g.name \in v8 \/ g.name \in v9
    BY <1>1, <1>2, <2>1 DEF Vault!MergeListed
  <2>3. CASE g.name \in v9
    <3>1. Vault!Across
      BY <1>3, <1>5, <2>1, <2>3
    <3> QED BY <1>1, <2>3, <3>1
  <2> QED BY <2>2, <2>3
<1>13. Vault!AllToMove'
  <2> SUFFICES ASSUME v11 \in {0, 1}, NEW g \in Vault!Vault', ~g.name[2], ~(v11 = 0 /\ g.name[1] = "agents")
               PROVE  Vault!ToBeMoved(g)'
    BY <1>1 DEF Vault!AllToMove
  <2>1. CASE Vault!Action.to = "agents" /\ \E f \in F : g = Vault!Moved(f)
    BY <1>2, <1>3, <2>1, VaultComes
  <2>2. CASE g \in Vault!Vault
    <3>1. Vault!ToBeMoved(g)
      BY <1>1, <1>2, <2>2 DEF Vault!AllToMove
    <3> QED BY <1>1, <3>1 DEF Vault!ToBeMoved
  <2> QED BY <1>7, <2>1, <2>2
<1> QED BY <1>7, <1>9, <1>10, <1>12, <1>13 DEF Vault!Safe

\* The source of a copy goes.
LEMMA VaultRemove ==
  ASSUME Vault!Assumed, Vault!Safe, Vault!RemoveSource PROVE Vault!Safe'
<1> DEFINE gone == {f \in Vault!Vault : f.name \in v9}
<1>1. /\ v7 = "copied" /\ v1' = v1 \ gone /\ v9' = {}
      /\ \/ v7' = "act" /\ v6' = Tail(v6) /\ Vault!Action.dir
         \/ v7' = "merge" /\ v6' = v6
      /\ UNCHANGED <<v2, v3, v4, v5, v8, v11, v12, v13, v14>>
  BY DEF Vault!RemoveSource, Vault!people, Vault!collect
<1>2. /\ Vault!Types /\ Vault!VaultLatest /\ Vault!LatestKept /\ Vault!CopyKept /\ Vault!MergeListed
      /\ Vault!AllToMove /\ Vault!SecondRunClean /\ v6 # <<>>
  BY <1>1 DEF Vault!Safe, Vault!Types
<1>3. Vault!Vault' = Vault!Vault \ gone
  BY <1>1 DEF Vault!Vault, Vault!InUse
<1>4. \A f \in Vault!Vault : f.name \in v9 <=> f \in gone
  OBVIOUS
<1>5. gone \subseteq Vault!Vault
  OBVIOUS
<1> HIDE DEF gone
<1>6. Vault!Types'
  <2>1. v6' \in Seq(Vault!Moves)
    BY <1>1, <1>2, VaultAction DEF Vault!Types
  <2>2. v7' \in {"act", "merge"} /\ (v7' = "merge" => v6' # <<>>)
    BY <1>1, <1>2
  <2>3. \A f \in v1' : Vault!Proper(f)
    BY <1>1, <1>2 DEF Vault!Types
  <2> QED BY <1>1, <1>2, <2>1, <2>2, <2>3 DEF Vault!Types
<1>7. Vault!VaultLatest' /\ Vault!SecondRunClean'
  BY <1>1, <1>2, <1>3 DEF Vault!VaultLatest, Vault!SecondRunClean
<1>8. Vault!LatestKept'
  <2> SUFFICES ASSUME NEW m \in VaultNames PROVE Vault!Safely(m, v1)'
    BY DEF Vault!LatestKept
  <2>1. CASE m \in v9
    <3>1. v4[m] \in {0} \cup v5 \/ \E g \in v1 \ Vault!Vault : g.name = m /\ g.write = v4[m]
      BY <1>1, <1>2, <2>1 DEF Vault!CopyKept, Vault!Safely
    <3> QED BY <1>1, <1>5, <3>1 DEF Vault!Safely
  <2>2. CASE m \notin v9
    <3>1. v4[m] \in {0} \cup v5 \/ \E g \in v1 : g.name = m /\ g.write = v4[m]
      BY <1>2 DEF Vault!LatestKept, Vault!Safely
    <3>2. \A g \in v1 : g.name = m => g \in v1'
      BY <1>1, <1>4, <1>5, <2>2
    <3> QED BY <1>1, <3>1, <3>2 DEF Vault!Safely
  <2> QED BY <2>1, <2>2
<1>9. Vault!CopyKept'
  BY <1>1 DEF Vault!CopyKept
<1>10. Vault!MergeListed'
  BY <1>1, <1>2, <1>3, <1>4 DEF Vault!MergeListed, Vault!Source, Vault!Action
<1>11. Vault!AllToMove'
  <2> SUFFICES ASSUME v11 \in {0, 1}, NEW g \in Vault!Vault', ~g.name[2], ~(v11 = 0 /\ g.name[1] = "agents")
               PROVE  Vault!ToBeMoved(g)'
    BY <1>1 DEF Vault!AllToMove
  <2>1. Vault!ToBeMoved(g)
    BY <1>1, <1>2, <1>3 DEF Vault!AllToMove
  <2>2. CASE v6' = Tail(v6) /\ Vault!Action.dir
    BY <1>2, <2>1, <2>2, VaultPop
  <2>3. CASE v6' = v6
    BY <2>1, <2>3 DEF Vault!ToBeMoved
  <2> QED BY <1>1, <2>2, <2>3
<1> QED BY <1>6, <1>7, <1>8, <1>9, <1>10, <1>11 DEF Vault!Safe

\* Somebody writes a file.
LEMMA VaultWrite ==
  ASSUME Vault!Assumed, Vault!Safe, NEW m \in VaultNames, Vault!Write(m) PROVE Vault!Safe'
<1>1. PICK old, new, w :
        /\ old = {f \in Vault!Vault : f.name = m} /\ new = [root |-> "vault", stamp |-> 0, name |-> m, write |-> w]
        /\ w = v3 + 1 /\ v3' = w /\ v1' = (v1 \ old) \cup {new} /\ v4' = [v4 EXCEPT ![m] = w]
        /\ v5' = IF v7 = "copied" /\ m \in v9 THEN v5 \cup {w} ELSE v5
        /\ v11' = IF v7 = "idle" THEN 0 ELSE -1
        /\ UNCHANGED <<v2, v6, v7, v8, v9, v12, v13, v14>>
  BY DEF Vault!Write, Vault!collect
<1>2. /\ Vault!Types /\ Vault!VaultLatest /\ Vault!LatestKept /\ Vault!CopyKept /\ v4 \in [VaultNames -> Nat] /\ v3 \in Nat
  BY DEF Vault!Safe, Vault!Types
<1>3. /\ new.root = "vault" /\ new.stamp = 0 /\ new.name = m /\ new.write = w /\ Vault!Proper(new) /\ w \in Nat
  <2>1. w \in Nat
    BY <1>1, <1>2
  <2>2. new \in [root : {"vault", "tools", "legacy"} \cup Vault!Runtime, stamp : Nat, name : VaultNames \cup {<<"inbox", TRUE>>}, write : Nat]
    BY <1>1, <2>1
  <2>3. new.root = "vault" /\ new.stamp = 0 /\ new.name = m /\ new.write = w
    BY <1>1
  <2> QED BY <2>1, <2>2, <2>3 DEF Vault!Proper
<1>4. \A f : f \in old <=> f \in v1 /\ f.root = "vault" /\ f.stamp = 0 /\ f.name = m
  BY <1>1 DEF Vault!Vault, Vault!InUse
<1>5. \A f : f \in Vault!Vault' <=> (f \in Vault!Vault /\ f.name # m) \/ f = new
  BY <1>1, <1>3, <1>4 DEF Vault!Vault, Vault!InUse
<1>6. v4'[m] = w /\ v4' \in [VaultNames -> Nat] /\ \A x \in VaultNames : x # m => v4'[x] = v4[x]
  BY <1>1, <1>2, <1>3
<1>7. Vault!Types'
  <2>1. \A f \in v1' : Vault!Proper(f)
    BY <1>1, <1>2, <1>3 DEF Vault!Types
  <2>2. v3' \in Nat /\ v11' \in -1 .. 2 /\ Vault!Action' = Vault!Action
    BY <1>1, <1>3 DEF Vault!Action
  <2> QED BY <1>1, <1>2, <1>6, <2>1, <2>2 DEF Vault!Types
<1>8. Vault!VaultLatest'
  <2> SUFFICES ASSUME NEW f \in Vault!Vault' PROVE v4'[f.name] = f.write
    BY DEF Vault!VaultLatest
  <2>1. CASE f = new
    BY <1>3, <1>6, <2>1
  <2>2. CASE f \in Vault!Vault /\ f.name # m
    <3>1. f.name \in VaultNames /\ v4[f.name] = f.write
      BY <1>2, <2>2, VaultFile DEF Vault!VaultLatest
    <3> QED BY <1>6, <2>2, <3>1
  <2> QED BY <1>5, <2>1, <2>2
<1>9. v5 \subseteq v5' /\ (v7 = "copied" /\ m \in v9 => w \in v5')
  BY <1>1
<1>10. Vault!LatestKept'
  <2> SUFFICES ASSUME NEW x \in VaultNames PROVE Vault!Safely(x, v1)'
    BY DEF Vault!LatestKept
  <2>1. CASE x = m
    BY <1>1, <1>3, <1>6, <2>1 DEF Vault!Safely
  <2>2. CASE x # m
    <3>1. v4[x] \in {0} \cup v5 \/ \E g \in v1 : g.name = x /\ g.write = v4[x]
      BY <1>2 DEF Vault!LatestKept, Vault!Safely
    <3>2. \A g \in v1 : g.name = x => g \in v1'
      BY <1>1, <1>4, <2>2
    <3> QED BY <1>6, <1>9, <2>2, <3>1, <3>2 DEF Vault!Safely
  <2> QED BY <2>1, <2>2
<1>11. Vault!CopyKept'
  <2> SUFFICES ASSUME v7 = "copied", NEW x \in v9 PROVE Vault!Safely(x, v1 \ Vault!Vault)'
    BY <1>1 DEF Vault!CopyKept
  <2>1. CASE x = m
    BY <1>6, <1>9, <2>1 DEF Vault!Safely
  <2>2. CASE x # m
    <3>1. v4[x] \in {0} \cup v5 \/ \E g \in v1 \ Vault!Vault : g.name = x /\ g.write = v4[x]
      BY <1>2 DEF Vault!CopyKept, Vault!Safely
    <3>2. \A g \in v1 \ Vault!Vault : g.name = x => g \in v1' \ Vault!Vault'
      BY <1>1, <1>3, <1>4, <1>5, <2>2
    <3>3. x \in VaultNames
      BY <1>2 DEF Vault!Types
    <3> QED BY <1>6, <1>9, <2>2, <3>1, <3>2, <3>3 DEF Vault!Safely
  <2> QED BY <2>1, <2>2
<1>12. Vault!MergeListed' /\ Vault!AllToMove'
  BY <1>1 DEF Vault!MergeListed, Vault!AllToMove
<1>13. Vault!SecondRunClean'
  BY <1>1 DEF Vault!SecondRunClean
<1> QED BY <1>7, <1>8, <1>10, <1>11, <1>12, <1>13 DEF Vault!Safe

\* A tree outside the vault goes to an archive, or stays.
LEMMA VaultArchive ==
  ASSUME Vault!Assumed, Vault!Safe, NEW what, NEW roots, "vault" \notin roots, NEW next, v13 # "idle",
         Vault!Archive(what, roots, next)
  PROVE  Vault!Safe'
<1> DEFINE U == Vault!InUse(roots)
<1>1. v1' = v1 \/ v1' = (v1 \ U) \cup {[f EXCEPT !.stamp = v14] : f \in U}
  BY DEF Vault!Archive
<1>2. /\ v14' = (IF v13' = "idle" THEN 0 ELSE v14)
      /\ UNCHANGED <<v2, v3, v4, v5, v6, v7, v8, v9, v11, v12>>
  BY DEF Vault!Archive, Vault!people, Vault!sanitize
<1>3. /\ Vault!Types /\ Vault!VaultLatest /\ Vault!LatestKept /\ Vault!CopyKept /\ Vault!MergeListed
      /\ Vault!AllToMove /\ Vault!SecondRunClean /\ v14 \in Nat /\ v14 # 0
  BY DEF Vault!Safe, Vault!Types
<1>4. \A f \in U : f \in v1 /\ f.root # "vault"
  BY DEF Vault!InUse
<1>5. \A f \in U : LET g == [f EXCEPT !.stamp = v14] IN
                   /\ Vault!Proper(g) /\ g.name = f.name /\ g.write = f.write /\ g.root = f.root
  <2> TAKE f \in U
  <2>1. Vault!Proper(f)
    BY <1>3, <1>4 DEF Vault!Types
  <2> QED BY <1>3, <2>1 DEF Vault!Proper
<1> HIDE DEF U
<1>6. Vault!Vault' = Vault!Vault
  <2>1. \A f : f \in Vault!Vault <=> f \in v1 /\ f.root = "vault" /\ f.stamp = 0
    BY DEF Vault!Vault, Vault!InUse
  <2>2. \A f : f \in Vault!Vault' <=> f \in v1' /\ f.root = "vault" /\ f.stamp = 0
    BY DEF Vault!Vault, Vault!InUse
  <2>3. CASE v1' = v1
    BY <2>1, <2>2, <2>3
  <2>4. CASE v1' = (v1 \ U) \cup {[f EXCEPT !.stamp = v14] : f \in U}
    <3>1. \A f \in U : [f EXCEPT !.stamp = v14].root # "vault"
      BY <1>4, <1>5
    <3>2. \A f : f.root = "vault" => (f \in v1' <=> f \in v1)
      BY <1>4, <2>4, <3>1
    <3> QED BY <2>1, <2>2, <3>2
  <2> QED BY <1>1, <2>3, <2>4
<1>7. \A f \in v1 : \E g \in v1' : g.name = f.name /\ g.write = f.write
  BY <1>1, <1>5
<1>8. \A f \in v1 \ Vault!Vault : \E g \in v1' \ Vault!Vault' : g.name = f.name /\ g.write = f.write
  <2> TAKE f \in v1 \ Vault!Vault
  <2>1. CASE f \in v1'
    BY <1>6, <2>1
  <2>2. CASE f \notin v1'
    <3> DEFINE g == [f EXCEPT !.stamp = v14]
    <3>1. f \in U /\ g \in v1'
      BY <1>1, <2>2
    <3>2. g.name = f.name /\ g.write = f.write /\ g.root # "vault"
      BY <1>4, <1>5, <3>1
    <3>3. g \notin Vault!Vault'
      BY <3>2 DEF Vault!Vault, Vault!InUse
    <3> HIDE DEF g
    <3> QED BY <3>1, <3>2, <3>3
  <2> QED BY <2>1, <2>2
<1>9. Vault!Types'
  <2>1. \A f \in v1' : Vault!Proper(f)
    BY <1>1, <1>3, <1>5 DEF Vault!Types
  <2>2. v14' \in Nat /\ (v13' # "idle" => v14' # 0) /\ Vault!Action' = Vault!Action
    BY <1>2, <1>3 DEF Vault!Action
  <2> QED BY <1>2, <1>3, <2>1, <2>2 DEF Vault!Types
<1>10. Vault!VaultLatest' /\ Vault!SecondRunClean'
  BY <1>2, <1>3, <1>6 DEF Vault!VaultLatest, Vault!SecondRunClean
<1>11. Vault!LatestKept' /\ Vault!CopyKept'
  BY <1>2, <1>3, <1>7, <1>8 DEF Vault!LatestKept, Vault!CopyKept, Vault!Safely
<1>12. Vault!MergeListed' /\ Vault!AllToMove'
  BY <1>2, <1>3, <1>6 DEF Vault!MergeListed, Vault!AllToMove, Vault!ToBeMoved, Vault!Source, Vault!Action
<1> QED BY <1>9, <1>10, <1>11, <1>12 DEF Vault!Safe

LEMMA VaultStep == ASSUME Vault!Assumed, Vault!Safe, Vault!Next PROVE Vault!Safe'
<1>0. v12 \in Nat \ {0} /\ v14 \in Nat /\ (v13 # "idle" => v14 # 0)
  BY DEF Vault!Safe, Vault!Types
<1>1. CASE \E m \in VaultNames : Vault!Write(m)
  BY <1>1, VaultWrite
<1>2. CASE Vault!Tick
  <2>1. UNCHANGED <<v1, v2, v3, v4, v5, v6, v7, v8, v9, v11, v13, v14>> /\ v12' = v12 + 1
    BY <1>2 DEF Vault!Tick, Vault!people, Vault!sanitize, Vault!collect
  <2>2. v12' \in Nat \ {0}
    BY <1>0, <2>1
  <2> QED BY <1>0, <2>1, <2>2, VaultCalm
<1>3. CASE Vault!Sanitize
  BY <1>3, VaultStart, VaultSkip, VaultMoveWhole, VaultCopyWhole, VaultStartMerge, VaultMakeRoom, VaultPlace,
     VaultRemove, VaultEndMerge, VaultEnd DEF Vault!Sanitize
<1>4. CASE Vault!StartGc \/ Vault!StopGc
  <2>1. UNCHANGED <<v1, v2, v3, v4, v5, v6, v7, v8, v9, v11, v12>>
    BY <1>4 DEF Vault!StartGc, Vault!StopGc, Vault!people, Vault!sanitize
  <2>2. v12' \in Nat \ {0} /\ v14' \in Nat /\ (v13' # "idle" => v14' # 0)
    BY <1>0, <1>4, <2>1 DEF Vault!StartGc, Vault!StopGc
  <2> QED BY <2>1, <2>2, VaultCalm
<1>5. CASE Vault!ArchiveRuntime
  <2>1. v13 # "idle" /\ Vault!Archive("runtime", Vault!Runtime, "legacy") /\ "vault" \notin Vault!Runtime
    BY <1>5 DEF Vault!ArchiveRuntime, Vault!Runtime
  <2> QED BY <2>1, VaultArchive
<1>6. CASE Vault!ArchiveLegacy
  <2>1. v13 # "idle" /\ Vault!Archive("legacy", {"legacy"}, "idle") /\ "vault" \notin {"legacy"}
    BY <1>6 DEF Vault!ArchiveLegacy
  <2> QED BY <2>1, VaultArchive
<1> QED BY <1>1, <1>2, <1>3, <1>4, <1>5, <1>6 DEF Vault!Next, Vault!Collect

LEMMA VaultMeans == Vault!Safe => Vault!NewestKept /\ Vault!SecondRunClean
BY DEF Vault!Safe, Vault!LatestKept, Vault!Safely, Vault!NewestKept

\* Whatever the sanitizer and the collector do, and wherever they stop, what
\* each name of the vault last was is in one of the trees, and two complete runs
\* of the sanitizer leave no file there that must go (vault/installers,
\* vault_sanitize.py and runtime_vault_gc.py).
THEOREM VaultIsKept == Spec => []VaultKept
<1> DEFINE Safe == program = "vault" => Vault!Safe
<1>0. Vault!Assumed
  BY VaultAssumption
<1>1. Init => Safe
  BY <1>0, VaultInit DEF Init
<1>2. ASSUME Safe, [Next]_vars PROVE Safe'
  <2>1. CASE Next
    <3>1. program' = program
      BY <2>1 DEF Next
    <3>2. ASSUME program = "vault" PROVE Vault!Safe'
      <4>1. Vault!Next /\ Vault!Safe
        BY <1>2, <2>1, <3>2 DEF Next
      <4> QED BY <1>0, <4>1, VaultStep
    <3> QED BY <3>1, <3>2
  <2>2. CASE UNCHANGED vars
    <3>1. program' = program /\ UNCHANGED <<v1, v2, v3, v4, v5, v6, v7, v8, v9, v11, v12, v13, v14>>
      BY <2>2 DEF vars, from16, from13, from12, from11, from9, from8, from7, from6, from5, from4
    <3>2. ASSUME Vault!Safe PROVE Vault!Safe'
      <4>1. v12' \in Nat \ {0} /\ v14' \in Nat /\ (v13' # "idle" => v14' # 0)
        BY <3>1, <3>2 DEF Vault!Safe, Vault!Types
      <4> QED BY <3>1, <3>2, <4>1, VaultCalm
    <3> QED BY <1>2, <3>1, <3>2
  <2> QED BY <1>2, <2>1, <2>2
<1>3. Safe => VaultKept
  BY VaultMeans DEF VaultKept
<1> QED BY <1>1, <1>2, <1>3, PTL DEF Spec

-----------------------------------------------------------------------------
(* The mirror of issues: v1 to v15 are queue, torn, idOf, created, imp, raw,   *)
(* drafts, imports, syn, syncs, queued, dropped, late, cut and repeats.        *)

\* Nothing is queued.
LEMMA IssuesInit == ASSUME Issues!Init PROVE Issues!Safe
<1>1. v3 \in [IssuesDraft -> IssuesId \cup {IssuesNoId}] /\ \A d \in IssuesDraft : v4[d] = 0 /\ v15[d] = 0
  BY DEF Issues!Init
<1>2. v4 \in [IssuesDraft -> Nat] /\ v15 \in [IssuesDraft -> Nat]
  BY DEF Issues!Init
<1> QED BY <1>1, <1>2 DEF Issues!Init, Issues!Safe, Issues!Types, Issues!LeftOut, Issues!DueOnce, Issues!DraftsLost,
      Issues!RepeatsExplained

\* Agents queue drafts, and take them out.
LEMMA IssuesAgents ==
  ASSUME Issues!Safe, NEW d \in IssuesDraft, Issues!Queue(d) \/ Issues!TakeOut(d) PROVE Issues!Safe'
<1>1. CASE Issues!Queue(d)
  <2>1. /\ v1' = v1 \cup {d} /\ v11' = v11 \cup {d} /\ v4[d] = 0 /\ UNCHANGED <<v3, v4, v5, v6, v7, v12, v14, v15>>
        /\ v13 \subseteq v13' /\ (v5 # "idle" => d \in v13')
    BY <1>1 DEF Issues!Queue, Issues!import
  <2>2. Issues!Types'
    BY <2>1 DEF Issues!Safe, Issues!Types
  <2>3. \A e \in IssuesDraft : Issues!Twins(e)' = Issues!Twins(e)
    BY <2>1 DEF Issues!Twins
  <2>4. Issues!LeftOut'
    BY <2>1, <2>3 DEF Issues!Safe, Issues!LeftOut, Issues!Twins
  <2>5. Issues!DueOnce'
    BY <2>1 DEF Issues!Safe, Issues!Types, Issues!DueOnce, Issues!Due
  <2>6. Issues!DraftsLost'
    BY <2>1, <2>3 DEF Issues!Safe, Issues!DraftsLost, Issues!Kept, Issues!Twins
  <2>7. Issues!RepeatsExplained'
    BY <2>1 DEF Issues!Safe, Issues!RepeatsExplained
  <2> QED BY <2>2, <2>4, <2>5, <2>6, <2>7 DEF Issues!Safe
<1>2. CASE Issues!TakeOut(d)
  <2>1. v1' = v1 \ {d} /\ v11' = v11 \ {d} /\ UNCHANGED <<v3, v4, v5, v6, v7, v12, v13, v14, v15>>
    BY <1>2 DEF Issues!TakeOut, Issues!import
  <2> QED BY <2>1 DEF Issues!Safe, Issues!Types, Issues!LeftOut, Issues!DueOnce, Issues!Due, Issues!DraftsLost,
        Issues!Kept, Issues!Twins, Issues!RepeatsExplained
<1> QED BY <1>1, <1>2

\* An import reads the file twice.
LEMMA IssuesLoad ==
  ASSUME Issues!Safe, Issues!StartImport \/ Issues!LoadDrafts PROVE Issues!Safe'
<1>1. /\ UNCHANGED <<v1, v3, v4, v11, v12, v13, v14, v15>> /\ v5 \in {"idle", "load"} /\ v5' \in {"idle", "load", "import"}
      /\ v5 = "idle" => v6' = v1 /\ v7' = v7
      /\ v5 = "load" => v6' = v6 /\ v7' \in {v1, v7}
  BY DEF Issues!StartImport, Issues!LoadDrafts, Issues!mirror, Issues!history
<1> QED BY <1>1 DEF Issues!Safe, Issues!Types, Issues!LeftOut, Issues!DueOnce, Issues!Due, Issues!DraftsLost,
      Issues!Kept, Issues!Twins, Issues!RepeatsExplained

\* One draft is imported, in whole, in part or not at all.
LEMMA IssuesImport ==
  ASSUME Issues!Safe, NEW d \in IssuesDraft, Issues!Import(d) PROVE Issues!Safe'
<1>1. /\ v5 = "import" /\ d \in v7 /\ v7' = v7 \ {d} /\ UNCHANGED <<v1, v3, v5, v11, v12, v13, v14>>
  BY DEF Issues!Import, Issues!mirror
<1>2. v4[d] \in Nat /\ v15[d] \in Nat /\ v4[d] <= v15[d]
  BY <1>1 DEF Issues!Safe, Issues!Types, Issues!DueOnce, Issues!Due
<1>3. CASE UNCHANGED <<v4, v6, v15>>
  BY <1>1, <1>3 DEF Issues!Safe, Issues!Types, Issues!LeftOut, Issues!DueOnce, Issues!Due, Issues!DraftsLost,
     Issues!Kept, Issues!Twins, Issues!RepeatsExplained
<1>4. CASE v4' = [v4 EXCEPT ![d] = @ + 1]
  <2>1. /\ v4' \in [IssuesDraft -> Nat] /\ v4'[d] = v4[d] + 1
        /\ \A e \in IssuesDraft : (e # d => v4'[e] = v4[e]) /\ (v4[e] > 0 => v4'[e] > 0)
    BY <1>2, <1>4 DEF Issues!Safe, Issues!Types
  <2>2. \/ v6' = v6 /\ v15' = [v15 EXCEPT ![d] = @ + 1]
        \/ /\ v6' = {e \in v6 : v3[e] = IssuesNoId \/ v3[e] # v3[d]}
           /\ v15' = [v15 EXCEPT ![d] = IF v3[d] = IssuesNoId THEN @ + 1 ELSE @]
        \/ UNCHANGED <<v4, v6, v15>>
    BY DEF Issues!Import
  <2>3. CASE UNCHANGED <<v4, v6, v15>>
    BY <1>3, <2>3
  <2>4. CASE v6' = v6 /\ v15' = [v15 EXCEPT ![d] = @ + 1]
    <3>1. v15' \in [IssuesDraft -> Nat] /\ v15'[d] = v15[d] + 1 /\ \A e \in IssuesDraft : e # d => v15'[e] = v15[e]
      BY <1>2, <2>4 DEF Issues!Safe, Issues!Types
    <3>2. Issues!Types' /\ Issues!DueOnce' /\ Issues!RepeatsExplained'
      BY <1>1, <1>2, <2>1, <2>4, <3>1 DEF Issues!Safe, Issues!Types, Issues!DueOnce, Issues!Due, Issues!RepeatsExplained
    <3>3. \A e \in IssuesDraft : Issues!Twins(e)' = Issues!Twins(e) /\ Issues!Twins(e) \subseteq IssuesDraft
      BY <1>1 DEF Issues!Twins
    <3>4. Issues!LeftOut'
      BY <1>1, <2>1, <2>4, <3>3 DEF Issues!Safe, Issues!Types, Issues!LeftOut
    <3>5. Issues!DraftsLost'
      BY <1>1, <2>1, <2>4, <3>3 DEF Issues!Safe, Issues!Types, Issues!DraftsLost, Issues!Kept
    <3> QED BY <3>2, <3>4, <3>5 DEF Issues!Safe
  <2>5. CASE /\ v6' = {e \in v6 : v3[e] = IssuesNoId \/ v3[e] # v3[d]}
             /\ v15' = [v15 EXCEPT ![d] = IF v3[d] = IssuesNoId THEN @ + 1 ELSE @]
    <3>1. /\ v15' \in [IssuesDraft -> Nat] /\ v15'[d] = IF v3[d] = IssuesNoId THEN v15[d] + 1 ELSE v15[d]
          /\ \A e \in IssuesDraft : e # d => v15'[e] = v15[e]
      BY <1>2, <2>5 DEF Issues!Safe, Issues!Types
    <3>2. Issues!Types' /\ Issues!DueOnce' /\ Issues!RepeatsExplained'
      BY <1>1, <1>2, <2>1, <2>5, <3>1 DEF Issues!Safe, Issues!Types, Issues!DueOnce, Issues!Due, Issues!RepeatsExplained
    <3>3. Issues!LeftOut'
      <4> SUFFICES ASSUME NEW e \in v1, e \notin v6'
                   PROVE  e \in v13 \/ v4'[e] > 0 \/ \E f \in Issues!Twins(e)' : v4'[f] > 0
        BY <1>1 DEF Issues!LeftOut
      <4>1. \A f \in IssuesDraft : Issues!Twins(f)' = Issues!Twins(f) /\ Issues!Twins(f) \subseteq IssuesDraft
        BY <1>1 DEF Issues!Twins
      <4>2. e \in IssuesDraft /\ v4'[d] > 0
        BY <1>2, <2>1 DEF Issues!Safe, Issues!Types
      <4>3. CASE e \in v6
        <5>1. v3[e] = v3[d] /\ v3[e] # IssuesNoId
          BY <2>5, <4>3
        <5>2. e # d => d \in Issues!Twins(e)'
          BY <1>1, <5>1 DEF Issues!Twins
        <5> QED BY <4>2, <5>2
      <4>4. CASE e \notin v6
        <5>1. e \in v13 \/ v4[e] > 0 \/ \E f \in Issues!Twins(e) : v4[f] > 0
          BY <1>1, <4>4 DEF Issues!Safe, Issues!LeftOut
        <5> QED BY <2>1, <4>1, <4>2, <5>1
      <4> QED BY <4>3, <4>4
    <3>4. Issues!DraftsLost'
      BY <1>1, <2>1, <2>5 DEF Issues!Safe, Issues!Types, Issues!DraftsLost, Issues!Kept, Issues!Twins
    <3> QED BY <3>2, <3>3, <3>4 DEF Issues!Safe
  <2> QED BY <2>2, <2>3, <2>4, <2>5
<1> QED BY <1>3, <1>4 DEF Issues!Import

\* The queue is saved, or the import stops.
LEMMA IssuesSave ==
  ASSUME Issues!Safe, Issues!EmptyForImport \/ Issues!SaveQueue \/ Issues!StopImport PROVE Issues!Safe'
<1>1. CASE Issues!EmptyForImport
  <2>1. v5 = "import" /\ v5' = "write" /\ v1' = {} /\ UNCHANGED <<v3, v4, v6, v7, v11, v12, v13, v14, v15>>
    BY <1>1 DEF Issues!EmptyForImport, Issues!history
  <2>2. \A d \in v11 : Issues!Kept(d) => d \in v13 \/ Issues!Kept(d)' \/ \E e \in Issues!Twins(d) : v4[e] > 0
    BY <2>1 DEF Issues!Safe, Issues!LeftOut, Issues!Kept
  <2>3. \A d \in IssuesDraft : Issues!Twins(d)' = Issues!Twins(d)
    BY <2>1 DEF Issues!Twins
  <2>4. Issues!DraftsLost'
    BY <2>1, <2>2, <2>3 DEF Issues!Safe, Issues!Types, Issues!DraftsLost
  <2> QED BY <2>1, <2>4 DEF Issues!Safe, Issues!Types, Issues!LeftOut, Issues!DueOnce, Issues!Due,
        Issues!RepeatsExplained
<1>2. CASE Issues!SaveQueue
  <2>1. v5 = "write" /\ v5' = "idle" /\ v1' = v6 /\ UNCHANGED <<v3, v4, v6, v7, v11, v12, v13, v14, v15>>
    BY <1>2 DEF Issues!SaveQueue, Issues!history
  <2>2. \A d \in v11 : Issues!Kept(d) => d \in v13 \/ Issues!Kept(d)' \/ \E e \in Issues!Twins(d) : v4[e] > 0
    BY <2>1 DEF Issues!Safe, Issues!LeftOut, Issues!Kept
  <2>3. \A d \in IssuesDraft : Issues!Twins(d)' = Issues!Twins(d)
    BY <2>1 DEF Issues!Twins
  <2>4. Issues!DraftsLost'
    BY <2>1, <2>2, <2>3 DEF Issues!Safe, Issues!Types, Issues!DraftsLost
  <2> QED BY <2>1, <2>4 DEF Issues!Safe, Issues!Types, Issues!LeftOut, Issues!DueOnce, Issues!Due,
        Issues!RepeatsExplained
<1>3. CASE Issues!StopImport
  <2>1. /\ v5 # "idle" /\ v5' = "idle" /\ v7' = {} /\ UNCHANGED <<v1, v3, v4, v6, v11, v12, v13>>
        /\ v14 \subseteq v14' /\ (v5 = "write" => v6 \subseteq v14')
        /\ v15' = [d \in IssuesDraft |-> IF d \in v1 \ v6 THEN v15[d] + 1 ELSE v15[d]]
    BY <1>3 DEF Issues!StopImport, Issues!mirror
  <2>2. /\ v15' \in [IssuesDraft -> Nat]
        /\ \A d \in IssuesDraft : v15[d] <= v15'[d] /\ (d \in v1 \ v6 => v15'[d] = v15[d] + 1)
    BY <2>1 DEF Issues!Safe, Issues!Types
  <2>3. Issues!Types' /\ Issues!LeftOut'
    BY <2>1, <2>2 DEF Issues!Safe, Issues!Types, Issues!LeftOut
  <2>4. Issues!RepeatsExplained'
    BY <2>1, <2>2 DEF Issues!Safe, Issues!Types, Issues!RepeatsExplained
  <2>5. Issues!DueOnce'
    <3> SUFFICES ASSUME NEW d \in IssuesDraft, Issues!Due(d)' PROVE v4[d] <= v15'[d]
      BY <2>1 DEF Issues!DueOnce
    <3>1. v3[d] = IssuesNoId \/ d \in v1
      BY <2>1 DEF Issues!Due
    <3>2. CASE d \in v1 \ v6
      BY <2>2, <3>2 DEF Issues!Safe, Issues!Types, Issues!RepeatsExplained
    <3>3. CASE d \notin v1 \ v6
      <4>1. Issues!Due(d)
        BY <2>1, <3>1, <3>3 DEF Issues!Due
      <4> QED BY <2>2, <4>1 DEF Issues!Safe, Issues!Types, Issues!DueOnce
    <3> QED BY <3>2, <3>3
  <2>6. Issues!DraftsLost'
    BY <2>1 DEF Issues!Safe, Issues!Types, Issues!DraftsLost, Issues!Kept, Issues!Twins
  <2> QED BY <2>3, <2>4, <2>5, <2>6 DEF Issues!Safe
<1> QED BY <1>1, <1>2, <1>3

\* A sync writes the file over.
LEMMA IssuesSync == ASSUME Issues!Safe, Issues!SyncNext PROVE Issues!Safe'
<1>1. /\ UNCHANGED <<v3, v4, v5, v6, v7, v11, v13, v14, v15>>
      /\ (v1' = v1 /\ v12' = v12) \/ (v1' = {} /\ v12' = v12 \cup v1)
  <2>1. CASE Issues!StartSync \/ Issues!StopSync
    BY <2>1 DEF Issues!StartSync, Issues!StopSync, Issues!mirror, Issues!import, Issues!history
  <2>2. CASE Issues!EmptyForSync \/ Issues!WriteMirror
    BY <2>2 DEF Issues!EmptyForSync, Issues!WriteMirror, Issues!import
  <2> QED BY <2>1, <2>2 DEF Issues!SyncNext
<1>2. v1' \subseteq v1 /\ \A d \in v1 : d \in v1' \/ d \in v12'
  BY <1>1
<1>3. v12 \subseteq v12'
  BY <1>1
<1>4. Issues!Types' /\ Issues!LeftOut' /\ Issues!DueOnce' /\ Issues!RepeatsExplained'
  BY <1>1, <1>2 DEF Issues!Safe, Issues!Types, Issues!LeftOut, Issues!DueOnce, Issues!Due, Issues!Twins,
     Issues!RepeatsExplained
<1>5. Issues!DraftsLost'
  BY <1>1, <1>2, <1>3 DEF Issues!Safe, Issues!Types, Issues!DraftsLost, Issues!Kept, Issues!Twins
<1> QED BY <1>4, <1>5 DEF Issues!Safe

-----------------------------------------------------------------------------
(* The mirror of discussions: v1 to v11 are updated, open, ghost, files, pc, at, *)
(* cursor, read, touches, runs and missed.                                       *)

\* A set of natural numbers that has a member has a smallest one.
LEMMA Smallest ==
  ASSUME NEW S \in SUBSET Nat, S # {} PROVE \E x \in S : \A y \in S : x <= y
<1>1. PICK x \in S : \A y \in S : ~ (<<y, x>> \in OpToRel(<, Nat))
  BY NatLessThanWellFounded, WFMin, Zenon
<1>2. \A y \in S : ~ (y < x)
  BY <1>1 DEF OpToRel
<1> QED BY <1>2

\* A finite set whose members have different times can be put in the order of
\* these times.
LEMMA InOrderOfTime ==
  ASSUME NEW P, IsFiniteSet(P), NEW u, \A d \in P : u[d] \in Nat, \A d, e \in P : u[d] = u[e] => d = e
  PROVE  \E s \in [1 .. Cardinality(P) -> P] : \A i, j \in DOMAIN s : i < j => u[s[i]] > u[s[j]]
<1> DEFINE n == Cardinality(P)
           More(d) == {e \in P : u[e] > u[d]}
           rank == [d \in P |-> Cardinality(More(d)) + 1]
<1>1. n \in Nat
  BY FS_CardinalityType
<1>2. \A d \in P : Cardinality(More(d)) \in Nat /\ Cardinality(More(d)) < n
  <2> TAKE d \in P
  <2>1. More(d) \in SUBSET P /\ More(d) # P
    OBVIOUS
  <2> HIDE DEF More
  <2>2. IsFiniteSet(More(d)) /\ Cardinality(More(d)) <= n /\ Cardinality(More(d)) # n
    BY <2>1, FS_Subset
  <2> QED BY <1>1, <2>2, FS_CardinalityType
<1>3. rank \in [P -> 1 .. n]
  BY <1>1, <1>2
<1>4. \A d, e \in P : u[d] > u[e] => rank[d] < rank[e]
  <2> SUFFICES ASSUME NEW d \in P, NEW e \in P, u[d] > u[e] PROVE rank[d] < rank[e]
    OBVIOUS
  <2>1. More(d) \in SUBSET More(e) /\ d \in More(e) /\ d \notin More(d) /\ More(e) \in SUBSET P
    OBVIOUS
  <2>2. rank[d] = Cardinality(More(d)) + 1 /\ rank[e] = Cardinality(More(e)) + 1
    OBVIOUS
  <2>3. Cardinality(More(d)) \in Nat /\ Cardinality(More(e)) \in Nat
    BY <1>2
  <2> HIDE DEF More, rank
  <2>4. IsFiniteSet(More(e))
    BY <2>1, FS_Subset
  <2>5. Cardinality(More(d)) <= Cardinality(More(e)) /\ Cardinality(More(d)) # Cardinality(More(e))
    BY <2>1, <2>4, FS_Subset
  <2> QED BY <2>2, <2>3, <2>5
<1> HIDE DEF rank
<1>5. \A i \in 1 .. n : \E d \in P : rank[d] = i
  <2>1. \A d, e \in P : rank[d] = rank[e] => d = e
    <3> SUFFICES ASSUME NEW d \in P, NEW e \in P, d # e PROVE rank[d] # rank[e]
      OBVIOUS
    <3>1. u[d] > u[e] \/ u[e] > u[d]
      OBVIOUS
    <3>2. rank[d] \in Nat /\ rank[e] \in Nat
      BY <1>1, <1>3
    <3>3. rank[d] < rank[e] \/ rank[e] < rank[d]
      BY <1>4, <3>1
    <3> QED BY <3>2, <3>3
  <2>2. rank \in Injection(P, 1 .. n)
    BY <1>3, <2>1 DEF Injection, IsInjective
  <2>3. IsFiniteSet(1 .. n) /\ Cardinality(1 .. n) = n
    BY <1>1, FS_Interval
  <2>4. rank \in Surjection(P, 1 .. n)
    BY <2>2, <2>3, FS_Injection
  <2> QED BY <2>4 DEF Surjection
<1> DEFINE s == [i \in 1 .. n |-> CHOOSE d \in P : rank[d] = i]
<1>6. \A i \in 1 .. n : s[i] \in P /\ rank[s[i]] = i
  BY <1>5
<1>7. s \in [1 .. n -> P]
  BY <1>6
<1>8. ASSUME NEW i \in 1 .. n, NEW j \in 1 .. n, i < j PROVE u[s[i]] > u[s[j]]
  <2>1. s[i] \in P /\ s[j] \in P /\ rank[s[i]] = i /\ rank[s[j]] = j
    BY <1>6
  <2> HIDE DEF s
  <2>2. u[s[i]] # u[s[j]]
    BY <1>8, <2>1
  <2>3. ~ (u[s[j]] > u[s[i]])
    <3> SUFFICES ASSUME u[s[j]] > u[s[i]] PROVE FALSE
      OBVIOUS
    <3>1. j < i
      BY <1>4, <2>1
    <3> QED BY <1>1, <1>8, <3>1
  <2> QED BY <2>1, <2>2, <2>3
<1> HIDE DEF s
<1>9. DOMAIN s = 1 .. n
  BY <1>7
<1> QED BY <1>7, <1>8, <1>9

\* And such an order names every member.
LEMMA AllInOrder ==
  ASSUME NEW P, IsFiniteSet(P), NEW u, \A d \in P : u[d] \in Nat,
         NEW s \in [1 .. Cardinality(P) -> P], \A i, j \in DOMAIN s : i < j => u[s[i]] > u[s[j]]
  PROVE  \A d \in P : \E i \in DOMAIN s : s[i] = d
<1> DEFINE n == Cardinality(P)
<1>1. n \in Nat /\ DOMAIN s = 1 .. n
  BY FS_CardinalityType
<1>2. \A i, j \in 1 .. n : s[i] = s[j] => i = j
  <2> SUFFICES ASSUME NEW i \in 1 .. n, NEW j \in 1 .. n, i # j PROVE s[i] # s[j]
    OBVIOUS
  <2>1. i < j \/ j < i
    BY <1>1
  <2>2. u[s[i]] > u[s[j]] \/ u[s[j]] > u[s[i]]
    BY <1>1, <2>1
  <2>3. s[i] \in P /\ s[j] \in P
    BY <1>1
  <2> QED BY <2>2, <2>3
<1>3. s \in Injection(1 .. n, P)
  BY <1>1, <1>2 DEF Injection, IsInjective
<1>4. IsFiniteSet(1 .. n) /\ Cardinality(1 .. n) = n
  BY <1>1, FS_Interval
<1>5. s \in Surjection(1 .. n, P)
  BY <1>3, <1>4, FS_Injection
<1> QED BY <1>1, <1>5 DEF Surjection

\* The instance counts as the module does.
LEMMA MirrorCounts == \A S : Mirror!Cardinality(S) = Cardinality(S) /\ (Mirror!IsFiniteSet(S) <=> IsFiniteSet(S))
BY DEF Mirror!Cardinality, Cardinality, Mirror!IsFiniteSet, IsFiniteSet

\* Nothing is read yet.
LEMMA MirrorInit == ASSUME Mirror!Init PROVE Mirror!Safe
<1>1. \A d \in MirrorDiscussion : v1[d] = 0
  BY DEF Mirror!Init
<1>2. Mirror!Types
  <2>1. v9 = 0 /\ v7 = MirrorTouches + 1 /\ v8 = <<>> /\ MirrorTouches \in Nat
    BY MirrorAssumption DEF Mirror!Init, Mirror!Start, Mirror!Assumed
  <2>2. v1 \in [MirrorDiscussion -> 0 .. v9]
    BY <2>1 DEF Mirror!Init
  <2> QED BY <2>1, <2>2 DEF Mirror!Types, Mirror!Start
<1>3. DOMAIN v8 = {}
  BY DEF Mirror!Init
<1> QED BY <1>1, <1>2, <1>3 DEF Mirror!Init, Mirror!Safe, Mirror!OneAtATime, Mirror!Behind, Mirror!Once,
      Mirror!AsListed

\* The times, as numbers.
LEMMA MirrorTimes ==
  ASSUME Mirror!Types
  PROVE  /\ MirrorTouches \in Nat /\ v9 \in Nat /\ v9 <= MirrorTouches /\ v7 \in Nat /\ v7 <= MirrorTouches + 1
         /\ \A d \in MirrorDiscussion : v1[d] \in Nat /\ v1[d] <= v9
         /\ Len(v8) \in Nat /\ DOMAIN v8 = 1 .. Len(v8)
         /\ \A j \in DOMAIN v8 : v8[j].discussion \in MirrorDiscussion /\ v8[j].updated \in Nat
<1>1. MirrorTouches \in Nat
  BY MirrorAssumption DEF Mirror!Assumed
<1> DEFINE E == [discussion : MirrorDiscussion, updated : Nat]
<1>2. v8 \in Seq(E)
  BY DEF Mirror!Types
<1>3. /\ Len(v8) \in Nat /\ DOMAIN v8 = 1 .. Len(v8) /\ \A j \in DOMAIN v8 : v8[j] \in E
  <2> HIDE DEF E
  <2> QED BY <1>2
<1>4. v9 \in Nat /\ v9 <= MirrorTouches /\ v7 \in Nat /\ v7 <= MirrorTouches + 1
  BY <1>1 DEF Mirror!Types, Mirror!Start
<1>5. \A d \in MirrorDiscussion : v1[d] \in Nat /\ v1[d] <= v9
  BY <1>4 DEF Mirror!Types
<1> QED BY <1>1, <1>3, <1>4, <1>5

\* What people do to a discussion of the category that is read is known as
\* missed, and what they do to another one is not read.
LEMMA MirrorTouch ==
  ASSUME Mirror!Safe, NEW d \in MirrorDiscussion, Mirror!Touch(d) PROVE Mirror!Safe'
<1>1. Mirror!Types
  BY DEF Mirror!Safe
<1>2. v9' = v9 + 1 /\ v9 < MirrorTouches /\ UNCHANGED <<v5, v6, v7, v8>>
  BY DEF Mirror!Touch
<1>3. v9' \in 0 .. MirrorTouches /\ v9 \in Nat
  BY <1>1, <1>2, MirrorTimes
<1>4. CASE UNCHANGED <<v1, v2, v11>>
  <2>1. v1' \in [MirrorDiscussion -> 0 .. v9']
    <3>1. \A e \in MirrorDiscussion : v1[e] \in 0 .. v9'
      BY <1>1, <1>2, MirrorTimes
    <3> QED BY <1>1, <1>4, <3>1 DEF Mirror!Types
  <2>2. Mirror!Types'
    BY <1>1, <1>2, <1>3, <2>1 DEF Mirror!Types, Mirror!Start
  <2>3. Mirror!Listed' = Mirror!Listed /\ \A e : Mirror!Entry(e)' = Mirror!Entry(e)
    BY <1>2, <1>4 DEF Mirror!Listed, Mirror!Entry
  <2> QED BY <1>2, <1>4, <2>2, <2>3 DEF Mirror!Safe, Mirror!OneAtATime, Mirror!Behind, Mirror!Once, Mirror!AsListed
<1>5. CASE /\ v2' = v2 \cup {d} \/ v2' = v2 \ {d}
           /\ v1' = [v1 EXCEPT ![d] = v9']
           /\ v11' = IF Mirror!Reading(d) THEN v11 \cup {d} ELSE v11
  <2>1. v1'[d] = v9' /\ \A e \in MirrorDiscussion : e # d => v1'[e] = v1[e]
    BY <1>1, <1>5 DEF Mirror!Types
  <2>2. \A e \in MirrorDiscussion : v1'[e] \in 0 .. v9' /\ v1[e] <= v1'[e] /\ v1[e] < v9'
    BY <1>1, <1>2, <2>1, MirrorTimes
  <2>3. v1' \in [MirrorDiscussion -> 0 .. v9']
    BY <1>1, <1>5, <2>2 DEF Mirror!Types
  <2>4. Mirror!Types'
    BY <1>1, <1>2, <1>3, <2>3 DEF Mirror!Types, Mirror!Start
  <2>5. Mirror!OneAtATime'
    <3>1. \A e \in MirrorDiscussion : v1[e] # v9' /\ v1'[d] = v9'
      BY <1>1, <1>3, <2>1, <2>2, MirrorTimes
    <3> QED BY <2>1, <3>1 DEF Mirror!Safe, Mirror!OneAtATime
  <2>6. Mirror!Behind'
    <3> SUFFICES ASSUME NEW j \in DOMAIN v8 PROVE v7 <= v8[j].updated /\ v8[j].updated <= v1'[v8[j].discussion]
      BY <1>2 DEF Mirror!Behind
    <3>1. v7 <= v8[j].updated /\ v8[j].updated <= v1[v8[j].discussion]
      BY DEF Mirror!Safe, Mirror!Behind
    <3>2. v8[j].discussion \in MirrorDiscussion /\ v8[j].updated \in Nat
      BY <1>1, MirrorTimes
    <3> QED BY <1>1, <1>3, <2>2, <3>1, <3>2, MirrorTimes
  <2>7. Mirror!Once'
    BY <1>2 DEF Mirror!Safe, Mirror!Once
  <2>8. Mirror!AsListed'
    <3> SUFFICES ASSUME v5 # "idle", NEW e \in MirrorDiscussion \ v11'
                 PROVE  e \in Mirror!Listed' /\ (v1'[e] >= v7 \/ v5 = "write")
                          <=> \E k \in DOMAIN v8 : v8[k] = Mirror!Entry(e)'
      BY <1>2 DEF Mirror!AsListed
    <3>1. e \notin v11
      BY <1>5
    <3>2. e \in Mirror!Listed /\ (v1[e] >= v7 \/ v5 = "write") <=> \E k \in DOMAIN v8 : v8[k] = Mirror!Entry(e)
      BY <3>1 DEF Mirror!Safe, Mirror!AsListed
    <3>3. CASE e # d
      <4>1. v1'[e] = v1[e] /\ Mirror!Entry(e)' = Mirror!Entry(e)
        BY <2>1, <3>3 DEF Mirror!Entry
      <4>2. e \in Mirror!Listed' <=> e \in Mirror!Listed
        BY <1>2, <1>5, <3>3, <4>1 DEF Mirror!Listed
      <4> QED BY <3>2, <4>1, <4>2
    <3>4. CASE e = d
      <4>1. MirrorCategoryOf(e) # MirrorCategories[v6]
        BY <1>5, <3>4 DEF Mirror!Reading
      <4>2. e \notin Mirror!Listed'
        BY <1>2, <4>1 DEF Mirror!Listed
      <4>3. \A k \in DOMAIN v8 : v8[k].updated # v9'
        <5> TAKE k \in DOMAIN v8
        <5>1. v8[k].updated <= v1[v8[k].discussion] /\ v8[k].discussion \in MirrorDiscussion /\ v8[k].updated \in Nat
          BY <1>1, MirrorTimes DEF Mirror!Safe, Mirror!Behind
        <5>2. v1[v8[k].discussion] < v9' /\ v1[v8[k].discussion] \in Nat
          BY <1>1, <2>2, <5>1, MirrorTimes
        <5> QED BY <1>3, <5>1, <5>2
      <4>4. Mirror!Entry(e)'.updated = v9'
        BY <2>1, <3>4 DEF Mirror!Entry
      <4> QED BY <4>2, <4>3, <4>4
    <3> QED BY <3>3, <3>4
  <2> QED BY <2>4, <2>5, <2>6, <2>7, <2>8 DEF Mirror!Safe
<1> QED BY <1>4, <1>5 DEF Mirror!Touch

\* A page is the ones behind the cursor that were touched last, in that order.
LEMMA MirrorReadPage == ASSUME Mirror!Safe, Mirror!ReadPage PROVE Mirror!Safe'
<1> DEFINE L == Mirror!Listed
           P == Mirror!Page
           after == {d \in L : v1[d] < v7}
           More(d) == {e \in after : v1[e] > v1[d]}
           last == IF P = {} THEN v7 ELSE CHOOSE u \in {v1[d] : d \in P} : \A d \in P : u <= v1[d]
           s == CHOOSE s \in [1 .. Mirror!Cardinality(P) -> P] :
                  \A i, j \in DOMAIN s : i < j => v1[s[i]] > v1[s[j]]
<1>1. /\ v5 = "pages" /\ UNCHANGED <<v1, v2, v6, v9, v11>> /\ v7' = last
      /\ v8' = v8 \o [i \in DOMAIN s |-> Mirror!Entry(s[i])]
      /\ v5' = IF {d \in L : v1[d] < last} \ P = {} THEN "write" ELSE "pages"
  BY DEF Mirror!ReadPage
<1>2. Mirror!Types
  BY DEF Mirror!Safe
<1>3. L \subseteq MirrorDiscussion /\ P \subseteq after /\ IsFiniteSet(after) /\ IsFiniteSet(P)
  <2>1. L \subseteq MirrorDiscussion
    BY DEF Mirror!Listed
  <2>2. P \subseteq after
    BY DEF Mirror!Page
  <2>3. IsFiniteSet(MirrorDiscussion)
    BY MirrorAssumption, MirrorCounts DEF Mirror!Assumed
  <2>4. after \in SUBSET MirrorDiscussion /\ P \in SUBSET MirrorDiscussion
    BY <2>1, <2>2
  <2> HIDE DEF L, P, after
  <2> QED BY <2>1, <2>2, <2>3, <2>4, FS_Subset
<1>4. \A d \in L, x \in P : v1[d] < v7 /\ v1[d] >= v1[x] => d \in P
  <2> SUFFICES ASSUME NEW d \in L, NEW x \in P, v1[d] < v7, v1[d] >= v1[x] PROVE d \in P
    OBVIOUS
  <2>1. P = {e \in after : Mirror!Cardinality(More(e)) < MirrorPage}
    BY DEF Mirror!Page
  <2>2. Cardinality(More(x)) < MirrorPage /\ d \in after
    BY <2>1, MirrorCounts
  <2>3. More(d) \in SUBSET More(x) /\ More(x) \in SUBSET after
    <3>1. v1[d] \in Nat /\ v1[x] \in Nat /\ \A e \in after : v1[e] \in Nat
      BY <1>2, <1>3, MirrorTimes
    <3> QED BY <3>1
  <2> HIDE DEF More, after, L, P
  <2>4. IsFiniteSet(More(x)) /\ IsFiniteSet(More(d))
    BY <1>3, <2>3, FS_Subset
  <2>5. Cardinality(More(d)) <= Cardinality(More(x)) /\ Cardinality(More(d)) \in Nat /\ Cardinality(More(x)) \in Nat
    BY <2>3, <2>4, FS_Subset, FS_CardinalityType
  <2>6. MirrorPage \in Nat
    BY MirrorAssumption DEF Mirror!Assumed
  <2>7. Cardinality(More(d)) < MirrorPage
    BY <2>2, <2>5, <2>6
  <2> QED BY <2>1, <2>2, <2>7, MirrorCounts
<1>5. \A d \in P : d \in L /\ d \in MirrorDiscussion /\ v1[d] \in Nat /\ v1[d] < v7 /\ v1[d] # 0
  <2>1. \A d \in L : v1[d] # 0
    BY DEF Mirror!Listed
  <2> QED BY <1>2, <1>3, <2>1, MirrorTimes
<1>6. /\ s \in [1 .. Cardinality(P) -> P] /\ \A i, j \in DOMAIN s : i < j => v1[s[i]] > v1[s[j]]
  <2>1. \A d, e \in P : v1[d] = v1[e] => d = e
    BY <1>5 DEF Mirror!Safe, Mirror!OneAtATime
  <2> HIDE DEF P
  <2>2. \E t \in [1 .. Cardinality(P) -> P] : \A i, j \in DOMAIN t : i < j => v1[t[i]] > v1[t[j]]
    BY <1>3, <1>5, <2>1, InOrderOfTime
  <2> QED BY <2>2, MirrorCounts
<1>7. last \in Nat /\ last <= v7 /\ (\A d \in P : last <= v1[d]) /\ (P # {} => \E x \in P : last = v1[x])
  <2>1. CASE P = {}
    BY <1>2, <2>1, MirrorTimes
  <2>2. CASE P # {}
    <3> DEFINE T == {v1[d] : d \in P}
    <3>1. T \in SUBSET Nat /\ T # {}
      BY <1>5, <2>2
    <3> HIDE DEF T
    <3>2. \E u \in T : \A y \in T : u <= y
      BY <3>1, Smallest
    <3>3. \E u \in T : \A d \in P : u <= v1[d]
      BY <3>2 DEF T
    <3>4. last = CHOOSE u \in T : \A d \in P : u <= v1[d]
      BY <2>2 DEF T
    <3> HIDE DEF last, P
    <3>5. last \in T /\ \A d \in P : last <= v1[d]
      BY <3>3, <3>4
    <3>6. PICK x \in P : last = v1[x]
      BY <3>5 DEF T
    <3>7. v7 \in Nat
      BY <1>2, MirrorTimes
    <3> QED BY <1>5, <3>5, <3>6, <3>7
  <2> QED BY <2>1, <2>2
<1> DEFINE n == Cardinality(P)
           m == Len(v8)
           new == [i \in DOMAIN s |-> Mirror!Entry(s[i])]
<1>8. n \in Nat /\ m \in Nat /\ DOMAIN s = 1 .. n /\ (\A d \in P : \E i \in 1 .. n : s[i] = d)
  <2>1. n \in Nat
    <3> HIDE DEF P
    <3> QED BY <1>3, FS_CardinalityType
  <2>2. m \in Nat
    BY <1>2, MirrorTimes
  <2>3. DOMAIN s = 1 .. n
    BY <1>6
  <2>4. IsFiniteSet(P) /\ (\A d \in P : v1[d] \in Nat) /\ s \in [1 .. Cardinality(P) -> P]
    BY <1>3, <1>5, <1>6
  <2>5. \A i, j \in DOMAIN s : i < j => v1[s[i]] > v1[s[j]]
    BY <1>6
  <2> HIDE DEF P, s, n
  <2>6. \A d \in P : \E i \in DOMAIN s : s[i] = d
    BY <2>4, <2>5, AllInOrder
  <2> QED BY <2>1, <2>2, <2>3, <2>6
<1>9. \A i \in 1 .. n : s[i] \in P /\ new[i] = Mirror!Entry(s[i])
  BY <1>6, <1>8
<1> HIDE DEF s, P, last, L
<1> DEFINE E == [discussion : MirrorDiscussion, updated : Nat]
<1>10. new \in Seq(E) /\ Len(new) = n
  <2>1. \A i \in 1 .. n : new[i] \in E
    <3> SUFFICES ASSUME NEW i \in 1 .. n PROVE new[i] \in E
      OBVIOUS
    <3>1. s[i] \in MirrorDiscussion /\ v1[s[i]] \in Nat
      BY <1>5, <1>9
    <3>2. new[i] = [discussion |-> s[i], updated |-> v1[s[i]]]
      BY <1>9 DEF Mirror!Entry
    <3> HIDE DEF new
    <3> QED BY <3>1, <3>2
  <2>2. new \in [1 .. n -> E]
    BY <1>8, <2>1
  <2> HIDE DEF E, new
  <2> QED BY <1>8, <2>2
<1> HIDE DEF new
<1>11. /\ v8' \in Seq(E) /\ DOMAIN v8' = 1 .. m + n
       /\ \A k \in 1 .. m : v8'[k] = v8[k]
       /\ \A k \in 1 .. n : v8'[m + k] = new[k]
  <2>1. v8 \in Seq(E) /\ v8' = v8 \o new
    BY <1>1, <1>2 DEF Mirror!Types, new
  <2> HIDE DEF E
  <2> QED BY <1>8, <1>10, <2>1
<1>12. \A k \in DOMAIN v8' : k \in DOMAIN v8 \/ \E i \in 1 .. n : k = m + i
  <2> SUFFICES ASSUME NEW k \in 1 .. m + n, k \notin 1 .. m PROVE \E i \in 1 .. n : k = m + i
    BY <1>2, <1>11, MirrorTimes
  <2>1. k - m \in 1 .. n /\ k = m + (k - m)
    BY <1>8
  <2> QED BY <2>1
<1>13. DOMAIN v8 = 1 .. m /\ DOMAIN v8 \subseteq DOMAIN v8' /\ \A i \in 1 .. n : m + i \in DOMAIN v8'
  BY <1>2, <1>8, <1>11, MirrorTimes
<1> HIDE DEF n, m
<1>14. Mirror!Types'
  <2>1. MirrorTouches \in Nat /\ v7 \in Nat /\ v7 <= MirrorTouches + 1
    BY <1>2, MirrorTimes
  <2>2. v7' \in 0 .. Mirror!Start
    BY <1>1, <1>7, <2>1 DEF Mirror!Start
  <2> QED BY <1>1, <1>2, <1>11, <2>2 DEF Mirror!Types, Mirror!Start
<1>15. Mirror!OneAtATime'
  BY <1>1 DEF Mirror!Safe, Mirror!OneAtATime
<1>16. \A j \in DOMAIN v8 : v7 <= v8[j].updated /\ v8[j].updated <= v1[v8[j].discussion] /\ v8'[j] = v8[j]
                            /\ v8[j].discussion \in MirrorDiscussion /\ v8[j].updated \in Nat
  BY <1>2, <1>11, <1>13, MirrorTimes DEF Mirror!Safe, Mirror!Behind
<1>17. \A i \in 1 .. n : /\ v8'[m + i].discussion = s[i] /\ v8'[m + i].updated = v1[s[i]] /\ s[i] \in P
                         /\ v8'[m + i] = Mirror!Entry(s[i])
  BY <1>9, <1>11 DEF Mirror!Entry
<1>18. Mirror!Behind'
  <2> SUFFICES ASSUME NEW k \in DOMAIN v8' PROVE last <= v8'[k].updated /\ v8'[k].updated <= v1[v8'[k].discussion]
    BY <1>1 DEF Mirror!Behind
  <2>1. CASE k \in DOMAIN v8
    <3>1. v7 \in Nat
      BY <1>2, MirrorTimes
    <3> QED BY <1>7, <1>16, <2>1, <3>1
  <2>2. CASE k \notin DOMAIN v8
    <3>1. PICK i \in 1 .. n : k = m + i
      BY <1>12, <2>2
    <3> QED BY <1>5, <1>7, <1>17, <3>1
  <2> QED BY <2>1, <2>2
<1>19. Mirror!Once'
  <2>1. ASSUME NEW j \in DOMAIN v8, NEW i \in 1 .. n PROVE v8'[j].discussion # v8'[m + i].discussion
    <3>1. v7 <= v1[v8'[j].discussion] /\ v8'[j].discussion \in MirrorDiscussion
      <4>1. v7 \in Nat /\ v1[v8[j].discussion] \in Nat
        BY <1>2, <1>16, MirrorTimes
      <4> QED BY <1>16, <4>1
    <3>2. v1[s[i]] < v7 /\ v1[s[i]] \in Nat /\ v7 \in Nat
      BY <1>2, <1>5, <1>17, MirrorTimes
    <3> QED BY <1>17, <3>1, <3>2
  <2>2. ASSUME NEW i \in 1 .. n, NEW j \in 1 .. n, i # j PROVE v8'[m + i].discussion # v8'[m + j].discussion
    <3>1. i < j \/ j < i
      BY <1>8, <2>2
    <3>2. v1[s[i]] > v1[s[j]] \/ v1[s[j]] > v1[s[i]]
      BY <1>6, <1>8, <3>1
    <3>3. v1[s[i]] \in Nat /\ v1[s[j]] \in Nat
      BY <1>5, <1>17
    <3>4. s[i] # s[j]
      BY <3>2, <3>3
    <3> QED BY <1>17, <3>4
  <2> SUFFICES ASSUME NEW j \in DOMAIN v8', NEW k \in DOMAIN v8', j # k
               PROVE  v8'[j].discussion # v8'[k].discussion
    BY DEF Mirror!Once
  <2>3. CASE j \in DOMAIN v8 /\ k \in DOMAIN v8
    BY <1>16, <2>3 DEF Mirror!Safe, Mirror!Once
  <2>4. CASE j \in DOMAIN v8 /\ k \notin DOMAIN v8
    BY <1>12, <2>1, <2>4
  <2>5. CASE j \notin DOMAIN v8 /\ k \in DOMAIN v8
    BY <1>12, <2>1, <2>5
  <2>6. CASE j \notin DOMAIN v8 /\ k \notin DOMAIN v8
    <3>1. PICK a \in 1 .. n : j = m + a
      BY <1>12, <2>6
    <3>2. PICK b \in 1 .. n : k = m + b
      BY <1>12, <2>6
    <3> QED BY <2>2, <3>1, <3>2
  <2> QED BY <2>3, <2>4, <2>5, <2>6
<1>20. Mirror!AsListed'
  <2> SUFFICES ASSUME NEW d \in MirrorDiscussion \ v11
               PROVE  d \in L /\ (v1[d] >= last \/ v5' = "write") <=> \E k \in DOMAIN v8' : v8'[k] = Mirror!Entry(d)
    <3>1. Mirror!Listed' = Mirror!Listed /\ \A d \in MirrorDiscussion : Mirror!Entry(d)' = Mirror!Entry(d)
      BY <1>1 DEF Mirror!Listed, Mirror!Entry
    <3> QED BY <1>1, <3>1 DEF Mirror!AsListed, L
  <2>1. d \in L /\ v1[d] >= v7 <=> \E k \in DOMAIN v8 : v8[k] = Mirror!Entry(d)
    BY <1>1 DEF Mirror!Safe, Mirror!AsListed, L
  <2>2. v1[d] \in Nat /\ v7 \in Nat
    BY <1>2, MirrorTimes
  <2>3. ASSUME d \in L, v1[d] >= last \/ v5' = "write" PROVE \E k \in DOMAIN v8' : v8'[k] = Mirror!Entry(d)
    <3>1. CASE v1[d] >= v7
      BY <1>13, <1>16, <2>1, <2>3, <3>1
    <3>2. CASE v1[d] < v7
      <4>1. d \in P
        <5>1. CASE v1[d] >= last /\ P # {}
          BY <1>4, <1>7, <2>3, <3>2, <5>1
        <5>2. CASE v1[d] >= last /\ P = {}
          <6>1. last = v7
            BY <5>2 DEF last
          <6> QED BY <2>2, <3>2, <5>2, <6>1
        <5>3. CASE v1[d] < last
          <6>1. v5' = "write"
            BY <1>7, <2>2, <2>3, <5>3
          <6>2. {e \in L : v1[e] < last} \ P = {}
            BY <1>1, <6>1
          <6> QED BY <2>3, <5>3, <6>2
        <5> QED BY <1>7, <2>2, <5>1, <5>2, <5>3
      <4>2. PICK i \in 1 .. n : s[i] = d
        BY <1>8, <4>1 DEF n
      <4> QED BY <1>13, <1>17, <4>2
    <3> QED BY <2>2, <3>1, <3>2
  <2>4. ASSUME NEW k \in DOMAIN v8', v8'[k] = Mirror!Entry(d) PROVE d \in L /\ v1[d] >= last
    <3>1. CASE k \in DOMAIN v8
      <4>1. d \in L /\ v1[d] >= v7
        BY <1>16, <2>1, <2>4, <3>1
      <4> QED BY <1>7, <2>2, <4>1
    <3>2. CASE k \notin DOMAIN v8
      <4>1. PICK i \in 1 .. n : k = m + i
        BY <1>12, <3>2
      <4>2. d = s[i]
        <5>1. Mirror!Entry(s[i]) = Mirror!Entry(d)
          BY <1>17, <2>4, <4>1
        <5>2. Mirror!Entry(s[i]).discussion = s[i] /\ Mirror!Entry(d).discussion = d
          BY DEF Mirror!Entry
        <5> QED BY <5>1, <5>2
      <4> QED BY <1>5, <1>7, <1>17, <4>2
    <3> QED BY <3>1, <3>2
  <2> QED BY <2>3, <2>4
<1> QED BY <1>14, <1>15, <1>18, <1>19, <1>20 DEF Mirror!Safe

\* A run begins, a page fails, a file is written: nothing is read any more, or
\* nothing yet.
LEMMA MirrorTurns ==
  ASSUME Mirror!Safe, Mirror!Run \/ Mirror!FailPage \/ Mirror!WriteFile PROVE Mirror!Safe'
<1>1. /\ UNCHANGED <<v1, v2, v9>> /\ v5' \in {"idle", "pages"}
      /\ \/ v7' = Mirror!Start /\ v8' = <<>>
         \/ v7' = v7 /\ v8' = v8 /\ v5' = "idle"
  BY DEF Mirror!Run, Mirror!FailPage, Mirror!WriteFile
<1>2. Mirror!Types
  BY DEF Mirror!Safe
<1>3. CASE v7' = v7 /\ v8' = v8 /\ v5' = "idle"
  BY <1>1, <1>3 DEF Mirror!Safe, Mirror!Types, Mirror!Start, Mirror!OneAtATime, Mirror!Behind, Mirror!Once,
     Mirror!AsListed
<1>4. CASE v7' = Mirror!Start /\ v8' = <<>>
  <2>1. DOMAIN v8' = {} /\ v8' \in Seq([discussion : MirrorDiscussion, updated : Nat])
    BY <1>4
  <2>2. MirrorTouches \in Nat
    BY <1>2, MirrorTimes
  <2>3. Mirror!Types'
    BY <1>1, <1>2, <1>4, <2>1, <2>2 DEF Mirror!Types, Mirror!Start
  <2>4. \A d \in MirrorDiscussion : ~ (v1'[d] >= v7') /\ v5' # "write"
    BY <1>1, <1>2, <1>4, MirrorTimes DEF Mirror!Start
  <2> QED BY <1>1, <2>1, <2>3, <2>4 DEF Mirror!Safe, Mirror!OneAtATime, Mirror!Behind, Mirror!Once, Mirror!AsListed
<1> QED BY <1>1, <1>3, <1>4

\* The mirrors, for any drafts, discussions and pages: no draft is lost and none
\* becomes two items but in the listed ways, and a file of discussions is what
\* its category lists, but for what was touched meanwhile.
THEOREM MirrorsAreAccounted == Spec => []MirrorsAccounted
<1> DEFINE Safe == /\ program = "issues" => Issues!Safe
                   /\ program = "mirror" => Mirror!Safe
<1>1. Init => Safe
  BY IssuesInit, MirrorInit DEF Init
<1>2. ASSUME Safe, [Next]_vars PROVE Safe'
  <2>1. CASE Next
    <3>1. program' = program
      BY <2>1 DEF Next
    <3>2. ASSUME program = "issues" PROVE Issues!Safe'
      <4>1. Issues!Next /\ Issues!Safe
        BY <1>2, <2>1, <3>2 DEF Next
      <4>2. CASE \E d \in IssuesDraft : Issues!Queue(d) \/ Issues!TakeOut(d)
        BY <4>1, <4>2, IssuesAgents
      <4>3. CASE Issues!ImportNext
        BY <4>1, <4>3, IssuesLoad, IssuesImport, IssuesSave DEF Issues!ImportNext
      <4>4. CASE Issues!SyncNext
        BY <4>1, <4>4, IssuesSync
      <4> QED BY <4>1, <4>2, <4>3, <4>4 DEF Issues!Next
    <3>3. ASSUME program = "mirror" PROVE Mirror!Safe'
      <4>1. Mirror!Next /\ Mirror!Safe
        BY <1>2, <2>1, <3>3 DEF Next
      <4> QED BY <4>1, MirrorTouch, MirrorReadPage, MirrorTurns DEF Mirror!Next
    <3> QED BY <3>1, <3>2, <3>3
  <2>2. CASE UNCHANGED vars
    <3>1. /\ program' = program
          /\ UNCHANGED <<v1, v2, v3, v4, v5, v6, v7, v8, v9, v10, v11, v12, v13, v14, v15>>
      BY <2>2 DEF vars
    <3>2. Issues!Safe => Issues!Safe'
      BY <3>1 DEF Issues!Safe, Issues!Types, Issues!LeftOut, Issues!DueOnce, Issues!Due, Issues!DraftsLost,
         Issues!Kept, Issues!Twins, Issues!RepeatsExplained
    <3>3. Mirror!Safe => Mirror!Safe'
      BY <3>1 DEF Mirror!Safe, Mirror!Types, Mirror!OneAtATime, Mirror!Behind, Mirror!Once, Mirror!AsListed,
         Mirror!Listed, Mirror!Entry
    <3> QED BY <1>2, <3>1, <3>2, <3>3
  <2> QED BY <1>2, <2>1, <2>2
<1>3. Safe => MirrorsAccounted
  <2>1. Issues!Safe => Issues!DraftsLost /\ Issues!RepeatsExplained
    BY DEF Issues!Safe
  <2>2. Mirror!Safe => Mirror!MirrorExact
    BY DEF Mirror!Safe, Mirror!Once, Mirror!AsListed, Mirror!MirrorExact
  <2> QED BY <2>1, <2>2 DEF MirrorsAccounted
<1> QED BY <1>1, <1>2, <1>3, PTL DEF Spec
=============================================================================
