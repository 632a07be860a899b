-------------------------------- MODULE IdStack --------------------------------
(***************************************************************************)
(* delivery/devops/setup_keycloak_killbill.sh: start and restart bring the *)
(* identity stack up and provision it from the environment, by the admin   *)
(* interfaces of Keycloak and Kill Bill: the realm, its clients one by     *)
(* one, then the realm's URLs and its theme, each by reading the whole     *)
(* representation and writing it back, then the tenant.  Under set -e a    *)
(* function that returns a failure ends the script; a plain `return` after *)
(* a message is a success.  Two runs may overlap, administrators write to  *)
(* the same realm, and a request may fail before or after it took effect   *)
(* (its answer is lost, a timeout of 20 s, a token that expired).          *)
(***************************************************************************)
EXTENDS Naturals, Sequences

CONSTANTS
  Run,         \* invocations of the script
  Env,         \* the environments: entries, urls, theme, secret of the admin client
  ClientId,    \* the names of clients
  MaxEdits,    \* bound on what administrators write
  MaxFaults    \* bound on the requests that fail

\* An environment has its entries, each for a client of its own.
Assumed ==
  /\ Env # {}
  /\ \A env \in Env :
       LET places == 1..Len(env.entries)
       IN /\ Len(env.entries) \in Nat \ {0}
          /\ env.confidential \in BOOLEAN /\ env.disabled \in BOOLEAN
          /\ \A i \in places : env.entries[i].id \in ClientId
          /\ \A i, j \in places : env.entries[i].id = env.entries[j].id => i = j

Missing == [payload |-> <<>>, secret |-> 0]
NoRealm == [exists |-> FALSE, urls |-> 0, theme |-> 0, other |-> 0]

VARIABLES
  realm,     \* the representation of the realm
  clients,   \* the clients of the realm by their name
  tenant,    \* the tenant of Kill Bill is there
  run,       \* by run: environment, place in the script, entry, the realm it read,
             \* entries in error, an early `return`, a write by somebody else,
             \* one between its read of the realm and its write
  slip,      \* a representation was written back that was not the current one
  other,     \* what an administrator last gave the field the script never changes
  edits, faults

vars == <<realm, clients, tenant, run, slip, other, edits, faults>>

-----------------------------------------------------------------------------
\* What a builder makes of an entry: a client of a page is public and has the
\* redirects of the environment or those of its domain; one of an interface has none.
Payload(e) ==
  LET redirects == IF e.redirects # <<>> THEN e.redirects ELSE e.defaults
  IN [public    |-> e.kind = "spa",
      redirects |-> redirects,
      logout    |-> IF e.logout # <<>> THEN e.logout ELSE SubSeq(redirects, 1, 1),
      flow      |-> e.kind = "spa" \/ (e.kind = "web" /\ redirects # <<>>)]

\* Only a client that is not public has a secret of the environment's.
Secret(e) == IF e.kind = "spa" THEN 0 ELSE e.secret

Idle == [env |-> CHOOSE v \in Env : TRUE, pc |-> "idle", i |-> 1, rep |-> NoRealm, bad |-> {},
         silent |-> FALSE, foreign |-> FALSE, stale |-> FALSE]

Init ==
  /\ realm \in {NoRealm, [NoRealm EXCEPT !.exists = TRUE]}
  /\ clients = [c \in ClientId |-> Missing]
  /\ tenant = FALSE
  /\ run = [r \in Run |-> Idle]
  /\ slip = FALSE
  /\ other = 0
  /\ edits = 0
  /\ faults = 0

Entries(r) == run[r].env.entries
Entry(r) == Entries(r)[run[r].i]

At(r, pc) == run[r].pc = pc
Move(r, pc) == run' = [run EXCEPT ![r].pc = pc]
Fault == faults < MaxFaults /\ faults' = faults + 1
NoFault == UNCHANGED faults
Keep == UNCHANGED <<realm, clients, tenant, slip, other, edits>>

\* `return` after a message: the script goes on to Kill Bill and ends with 0.
Silent(r, pc) == run' = [run EXCEPT ![r].pc = pc, ![r].silent = TRUE]

\* Every other run in progress, or over, hears that somebody else wrote; one
\* of the same environment writes the same.
Missed(s) == run[s].stale \/ (run[s].pc \in {"put urls", "put theme"} /\ realm' # realm)
Heard(r, s) ==
  [run[s] EXCEPT !.foreign = @ \/ (run[s].pc # "idle" /\ run[s].env # run[r].env), !.stale = Missed(s)]
Others(r, mine) == run' = [s \in Run |-> IF s = r THEN mine ELSE Heard(r, s)]
Writes(r, pc) == Others(r, [run[r] EXCEPT !.pc = pc])

-----------------------------------------------------------------------------
\* start, restart: the containers come up; the bootstrap may be switched off.
Start(r, env) ==
  /\ At(r, "idle")
  /\ run' = [run EXCEPT ![r] = [Idle EXCEPT !.env = env, !.silent = env.disabled,
                                            !.pc = IF env.disabled THEN "done" ELSE "keycloak"]]
  /\ Keep /\ NoFault

\* wait_for_http and the token of the shell: a server that never answers ends
\* the script, a token that is refused only ends this function.
Reach(r) ==
  /\ At(r, "keycloak") /\ Keep
  /\ \/ Move(r, "realm") /\ NoFault
     \/ Move(r, "failed") /\ Fault
     \/ Silent(r, "killbill") /\ Fault

\* The realm is made if the answer is that it is not there; any other status,
\* a refusal or an error of the server too, counts as a realm that is there.
EnsureRealm(r) ==
  /\ At(r, "realm")
  /\ UNCHANGED <<clients, tenant, slip, other, edits>>
  /\ \/ realm.exists /\ Move(r, "token") /\ UNCHANGED realm /\ NoFault
     \/ Move(r, "token") /\ UNCHANGED realm /\ Fault
     \/ ~realm.exists /\ realm' = [realm EXCEPT !.exists = TRUE] /\ Writes(r, "token") /\ NoFault
     \/ ~realm.exists /\ realm' \in {realm, [realm EXCEPT !.exists = TRUE]} /\ Silent(r, "killbill") /\ Fault
     \/ Move(r, "failed") /\ UNCHANGED realm /\ Fault

\* ensure_keycloak_clients takes a token of its own, without the secret of the
\* admin client.
ClientsToken(r) ==
  /\ At(r, "token") /\ Keep
  /\ \/ ~run[r].env.confidential /\ Move(r, "query") /\ NoFault
     \/ run[r].env.confidential /\ Move(r, "failed") /\ NoFault
     \/ Move(r, "failed") /\ Fault

\* After an entry: the next one, or the end of the loop, which fails if one did.
After(r, bad) ==
  LET last == run[r].i = Len(Entries(r))
  IN [run[r] EXCEPT !.i = IF last THEN @ ELSE @ + 1, !.bad = bad,
                    !.pc = IF ~last THEN "query" ELSE IF bad = {} THEN "urls" ELSE "failed"]
NextEntry(r) == run' = [run EXCEPT ![r] = After(r, run[r].bad)]
BadEntry(r) == run' = [run EXCEPT ![r] = After(r, run[r].bad \cup {run[r].i})]
BadWrite(r) == Others(r, After(r, run[r].bad \cup {run[r].i}))

\* A realm that is not there has no clients to be asked for.
QueryClient(r) ==
  /\ At(r, "query") /\ Keep
  /\ \/ realm.exists /\ Move(r, IF clients[Entry(r).id] # Missing THEN "put" ELSE "post") /\ NoFault
     \/ ~realm.exists /\ BadEntry(r) /\ NoFault
     \/ BadEntry(r) /\ Fault

\* The client that was there is given the payload; it may be gone by now.
Put(r) == [clients EXCEPT ![Entry(r).id].payload = Payload(Entry(r))]

\* A secret is set for a new client only.
PutClient_NoSecret(r) ==
  /\ At(r, "put")
  /\ UNCHANGED <<realm, tenant, slip, other, edits>>
  /\ \/ clients[Entry(r).id] # Missing /\ clients' = Put(r) /\ Others(r, After(r, run[r].bad)) /\ NoFault
     \/ clients[Entry(r).id] = Missing /\ BadEntry(r) /\ UNCHANGED clients /\ NoFault
     \/ BadEntry(r) /\ UNCHANGED clients /\ Fault

PutClient(r) ==
  /\ At(r, "put")
  /\ UNCHANGED <<realm, tenant, slip, other, edits>>
  /\ \/ clients[Entry(r).id] # Missing /\ clients' = Put(r) /\ Writes(r, "secret") /\ NoFault
     \/ clients[Entry(r).id] = Missing /\ BadEntry(r) /\ UNCHANGED clients /\ NoFault
     \/ BadEntry(r) /\ UNCHANGED clients /\ Fault
     \/ clients[Entry(r).id] # Missing /\ clients' = Put(r) /\ BadWrite(r) /\ Fault

\* A new client has a secret of Keycloak's; a name that is taken is refused.
\* A create without Location is looked up, and an error there ends the script.
Post(r) == [clients EXCEPT ![Entry(r).id] = [payload |-> Payload(Entry(r)), secret |-> 9]]
PostClient(r) ==
  /\ At(r, "post")
  /\ UNCHANGED <<realm, tenant, slip, other, edits>>
  /\ \/ clients[Entry(r).id] = Missing /\ clients' = Post(r) /\ Writes(r, "secret") /\ NoFault
     \/ clients[Entry(r).id] # Missing /\ BadEntry(r) /\ UNCHANGED clients /\ NoFault
     \/ BadEntry(r) /\ UNCHANGED clients /\ Fault
     \/ clients[Entry(r).id] = Missing /\ clients' = Post(r) /\ (BadWrite(r) \/ Writes(r, "failed")) /\ Fault

SetSecret(r) ==
  LET given == Secret(Entry(r))
      set == [clients EXCEPT ![Entry(r).id].secret = given]
  IN /\ At(r, "secret")
     /\ UNCHANGED <<realm, tenant, slip, other, edits>>
     /\ \/ given = 0 /\ NextEntry(r) /\ UNCHANGED clients /\ NoFault
        \/ given # 0 /\ clients[Entry(r).id] # Missing /\ clients' = set /\ Others(r, After(r, run[r].bad)) /\ NoFault
        \/ given # 0 /\ clients[Entry(r).id] = Missing /\ BadEntry(r) /\ UNCHANGED clients /\ NoFault
        \/ given # 0 /\ BadEntry(r) /\ UNCHANGED clients /\ Fault
        \/ given # 0 /\ clients[Entry(r).id] # Missing /\ clients' = set /\ BadWrite(r) /\ Fault

\* ensure_keycloak_realm_urls and ensure_keycloak_theme: the representation is
\* read whole, and written back if it is not as the environment says.
Field(pc) == IF pc \in {"urls", "put urls"} THEN "urls" ELSE "theme"
Putting(pc) == IF pc = "urls" THEN "put urls" ELSE "put theme"
Then(pc) == IF Field(pc) = "urls" THEN "theme" ELSE "killbill"

\* The theme starts from the representation that was read for the URLs.
ReadRealm_Once(r) ==
  LET pc == run[r].pc
      rep == IF pc = "urls" THEN realm ELSE run[r].rep
      right == rep[Field(pc)] = run[r].env[Field(pc)]
      next == IF right THEN Then(pc) ELSE Putting(pc)
  IN /\ pc \in {"urls", "theme"} /\ Keep
     /\ \/ run' = [run EXCEPT ![r].rep = rep, ![r].stale = FALSE, ![r].pc = next] /\ NoFault
        \/ Move(r, "failed") /\ Fault

ReadRealm(r) ==
  LET pc == run[r].pc
      right == realm[Field(pc)] = run[r].env[Field(pc)]
      next == IF right THEN Then(pc) ELSE Putting(pc)
  IN /\ pc \in {"urls", "theme"} /\ Keep
     /\ \/ run' = [run EXCEPT ![r].rep = realm, ![r].stale = FALSE, ![r].pc = next] /\ NoFault
        \/ Move(r, "failed") /\ Fault

Representation(r) == [run[r].rep EXCEPT ![Field(run[r].pc)] = run[r].env[Field(run[r].pc)]]
WriteRealm(r) ==
  LET pc == run[r].pc
      put == realm' = Representation(r) /\ slip' = (slip \/ run[r].stale)
  IN /\ pc \in {"put urls", "put theme"}
     /\ UNCHANGED <<clients, tenant, other, edits>>
     /\ \/ put /\ Writes(r, Then(pc)) /\ NoFault
        \/ put /\ Writes(r, "failed") /\ Fault
        \/ Move(r, "failed") /\ UNCHANGED <<realm, slip>> /\ Fault

\* bootstrap_killbill: a server that never answers ends the script, an answer
\* other than created or already there only a message.
Tenant(r) ==
  /\ At(r, "killbill")
  /\ UNCHANGED <<realm, clients, slip, other, edits>>
  /\ \/ tenant' = TRUE /\ Move(r, "done") /\ NoFault
     \/ tenant' \in {tenant, TRUE} /\ Silent(r, "done") /\ Fault
     \/ Move(r, "failed") /\ UNCHANGED tenant /\ Fault

\* An administrator changes a field of the realm, or removes a client.
Administer ==
  /\ edits < MaxEdits /\ realm.exists
  /\ edits' = edits + 1
  /\ \/ /\ realm' = [realm EXCEPT !.other = @ + 1] /\ other' = other + 1
        /\ run' = [r \in Run |-> [run[r] EXCEPT !.stale = Missed(r)]]
        /\ UNCHANGED clients
     \/ \E c \in ClientId :
          /\ clients[c] # Missing
          /\ clients' = [clients EXCEPT ![c] = Missing]
          /\ run' = [r \in Run |-> [run[r] EXCEPT !.foreign = run[r].pc # "idle"]]
          /\ UNCHANGED <<realm, other>>
  /\ UNCHANGED <<tenant, slip, faults>>

Step(r) ==
  \/ \E env \in Env : Start(r, env)
  \/ Reach(r) \/ EnsureRealm(r) \/ ClientsToken(r)
  \/ QueryClient(r) \/ PutClient(r) \/ PostClient(r) \/ SetSecret(r)
  \/ ReadRealm(r) \/ WriteRealm(r) \/ Tenant(r)

Next == Administer \/ \E r \in Run : Step(r)

Spec == Init /\ [][Next]_vars

-----------------------------------------------------------------------------
Served(e) ==
  /\ clients[e.id].payload = Payload(e)
  /\ Secret(e) # 0 => clients[e.id].secret = Secret(e)

\* An exit with 0 is worth what it says, and an error with one client does not
\* keep the others from what the environment gives them, unless a run of another
\* environment or an administrator wrote since, a representation was written back
\* over a newer one, or the run returned early from a function.
StackAsEnv ==
  \A r \in Run :
    /\ run[r].pc = "done" /\ ~run[r].silent /\ ~run[r].foreign /\ ~slip =>
         /\ realm.exists /\ realm.urls = run[r].env.urls /\ realm.theme = run[r].env.theme
         /\ tenant
         /\ \A i \in 1..Len(Entries(r)) : Served(Entries(r)[i])
    /\ run[r].pc = "failed" /\ run[r].bad # {} /\ ~run[r].foreign =>
         \A i \in 1..run[r].i - 1 : i \notin run[r].bad => Served(Entries(r)[i])

\* The bootstrap takes no change of an administrator's back that was not made
\* between a read of the realm and its write.
EditsKept == ~slip => realm.other = other

-----------------------------------------------------------------------------
\* What holds in every state, of which the two properties are a part.
Value == {0} \cup {env.urls : env \in Env} \cup {env.theme : env \in Env}
Realms == [exists : BOOLEAN, urls : Value, theme : Value, other : Nat]
AllEntries == UNION {{env.entries[i] : i \in 1..Len(env.entries)} : env \in Env}
Clients == [payload : {Missing.payload} \cup {Payload(e) : e \in AllEntries},
            secret  : {0, 9} \cup {Secret(e) : e \in AllEntries}]

Looping == {"query", "put", "post", "secret"}
Writing == {"put urls", "put theme"}
Shaping == {"urls", "theme"} \cup Writing
Place == {"idle", "keycloak", "realm", "token", "killbill", "done", "failed"} \cup Looping \cup Shaping
Runs == [env : Env, pc : Place, i : Nat, rep : Realms, bad : SUBSET Nat,
         silent : BOOLEAN, foreign : BOOLEAN, stale : BOOLEAN]

Types ==
  /\ realm \in Realms /\ clients \in [ClientId -> Clients] /\ tenant \in BOOLEAN
  /\ run \in [Run -> Runs] /\ slip \in BOOLEAN /\ other \in Nat

\* The run has done all of Keycloak's part.
Ended(r) == run[r].pc \in {"killbill", "done"} /\ ~run[r].silent
PastLoop(r) == run[r].pc \in Shaping \/ Ended(r)
Finished(r) == {i \in 1..Len(Entries(r)) : i < run[r].i \/ PastLoop(r)} \ run[r].bad

\* A request about a client of the realm was answered.
Met(r) == run[r].pc \in {"put", "post", "secret"} \/ PastLoop(r) \/ Finished(r) # {}

Progress(r) ==
  /\ run[r].i \in 1..Len(Entries(r)) /\ (run[r].pc = "idle" => run[r].i = 1)
  /\ PastLoop(r) => run[r].bad = {}
  /\ Met(r) => realm.exists
  /\ run[r].pc = "done" /\ ~run[r].silent => tenant

\* A representation that is to be written back is the realm's, or known not to be.
ReadTrue(r) == run[r].pc \in Writing => run[r].rep.exists /\ (run[r].stale \/ run[r].rep = realm)

Given(r) ==
  ~run[r].foreign =>
    /\ \A i \in Finished(r) : Served(Entries(r)[i])
    /\ run[r].pc = "secret" => clients[Entry(r).id].payload = Payload(Entry(r))

Shaped(r) ==
  ~run[r].foreign /\ ~slip =>
    /\ run[r].pc \in {"theme", "put theme"} \/ Ended(r) => realm.urls = run[r].env.urls
    /\ Ended(r) => realm.theme = run[r].env.theme

RunSafe(r) == Progress(r) /\ ReadTrue(r) /\ Given(r) /\ Shaped(r)
Safe == Types /\ EditsKept /\ \A r \in Run : RunSafe(r)

=============================================================================
