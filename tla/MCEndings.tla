------------------------------ MODULE MCEndings ------------------------------
(***************************************************************************)
(* More programs that share nothing (see MCPrograms): those that must come *)
(* to an end, the debate bridge, the deadline guardian, and amoCRM serving *)
(* one call at a time; and what reads a registry, once, the checks of the  *)
(* platform's contracts and the router of tools.                           *)
(***************************************************************************)
EXTENDS Naturals, Sequences, FiniteSets, TLC

VARIABLE program

-----------------------------------------------------------------------------
\* The debate.
CONSTANTS Preface, Rounds, Chunks, Lines, InRoom, OutRoom
VARIABLES stdin, stdout, owed, said, agent, todo, step, buf, texts, handled, lost

debate == <<stdin, stdout, owed, said, agent, todo, step, buf, texts, handled, lost>>

Bridge == INSTANCE DuplexBridge WITH pc <- step

ASSUME DebateAssumption == Preface \in Nat /\ Rounds \in Nat /\ Chunks \in Nat /\ Lines \in Nat

\* The project.
CONSTANTS Card, Issue, Locked, PageSize, MaxNow, MaxMoves, MaxFails, MaxComments
VARIABLES now, expired, due, order, comments, assigned, run, moves, fails, returned

project == <<now, expired, due, order, comments, assigned, run, moves, fails, returned>>

Guardian == INSTANCE DeadlineGuardian

ASSUME ProjectAssumption == IsFiniteSet(Card) /\ PageSize \in Nat /\ MaxNow \in Nat

\* amoCRM, one call at a time.
CONSTANTS Proc, Task, MaxRetries, UmnicoRetries, MaxGen, Loops, Faults
VARIABLES cur, refreshable, live, disk, up, mem, pc, tok, req, replyLost, unsaved

client == <<cur, refreshable, live, disk, up, mem, pc, tok, req, replyLost, unsaved>>

Amo == INSTANCE AmoClient WITH Kinds <- Loops

ASSUME OneCallAssumption ==
  /\ (\E p \in Proc : Proc = {p}) /\ \E t \in Task : Task = {t}
  /\ MaxRetries \in Nat \ {0} /\ UmnicoRetries \in Nat /\ MaxGen \in Nat
  /\ Loops \subseteq Amo!AllKinds /\ Faults \subseteq Amo!AllFaults

\* What reads a registry shares these.
VARIABLES v1, v2, v3, v4, v5, v6, v7, v8, v9, v10

registries == <<v1, v2, v3, v4, v5, v6, v7, v8, v9, v10>>
vars == <<program, debate, project, client, registries>>

from7 == <<v7, v8, v9, v10>>
from6 == <<v6, from7>>
from4 == <<v4, v5, from6>>

NoDebate ==
  /\ stdin = 0 /\ stdout = 0 /\ owed = 0 /\ said = 0 /\ agent = 0 /\ todo = 0
  /\ step = 0 /\ buf = 0 /\ texts = 0 /\ handled = 0 /\ lost = 0
NoProject ==
  /\ now = 0 /\ expired = 0 /\ due = 0 /\ order = 0 /\ comments = 0 /\ assigned = 0
  /\ run = 0 /\ moves = 0 /\ fails = 0 /\ returned = 0
NoClient ==
  /\ cur = 0 /\ refreshable = 0 /\ live = 0 /\ disk = 0 /\ up = 0 /\ mem = 0
  /\ pc = 0 /\ tok = 0 /\ req = 0 /\ replyLost = 0 /\ unsaved = 0
None7 == v7 = 0 /\ v8 = 0 /\ v9 = 0 /\ v10 = 0
None6 == v6 = 0 /\ None7
None4 == v4 = 0 /\ v5 = 0 /\ None6
NoRegistry == v1 = 0 /\ v2 = 0 /\ v3 = 0 /\ None4

-----------------------------------------------------------------------------
\* For the runs: an application (1), which migrates, over a store (2) of which version 1
\* conflicts with a lighter one (3) and version 2 is made for it.
Manifest(provides, requires, depends, conflicts) ==
  [provides |-> provides, requires |-> requires, depends |-> depends, conflicts |-> conflicts,
   artifacts |-> {}, routes |-> {}, web |-> {}, migrations |-> {}, units |-> {}, needs |-> {}]
Artifact(id, path, sha) == [id |-> id, path |-> path, sha |-> sha]
Route(id, endpoint, mcp) == [id |-> id, endpoint |-> endpoint, unit |-> 1, mcp |-> mcp]
Migration(id, place, parent) == [id |-> id, order |-> place, parent |-> parent, artifact |-> 1]
Unit(capabilities, keys) == [id |-> 1, artifact |-> 1, capabilities |-> capabilities, keys |-> keys]

\* In version 2 a migration has an order before that of its parent.
App(v) ==
  [Manifest({}, {<<1, 1>>}, {[module |-> 3, version |-> 1, optional |-> TRUE]}, {}) EXCEPT
     !.artifacts = {Artifact(1, 1, 1), Artifact(2, 2, 2)}, !.routes = {Route(1, 1, FALSE)},
     !.web = {[id |-> 1, artifact |-> 2, route |-> 1]},
     !.migrations = {Migration(1, 2, 2), Migration(2, IF v = 1 THEN 1 ELSE 3, 0)},
     !.units = {Unit({}, {1})}, !.needs = {[id |-> 1, required |-> TRUE]}]
Store(v) ==
  [Manifest({<<1, v>>}, {}, IF v = 1 THEN {} ELSE {[module |-> 3, version |-> 1, optional |-> FALSE]},
            IF v = 1 THEN {3} ELSE {}) EXCEPT
     !.artifacts = {Artifact(1, 1, 3)}, !.routes = {Route(1, 2, TRUE)}, !.units = {Unit({1}, {})}]
Lite ==
  [Manifest({<<1, 1>>}, {}, {}, {}) EXCEPT
     !.artifacts = {Artifact(1, 1, 4)}, !.routes = {Route(1, 1, FALSE), Route(2, 3, TRUE)},
     !.units = {Unit({1}, {2})}, !.needs = {[id |-> 2, required |-> FALSE]}]

Entry(i, v, m) == [module |-> i, version |-> v, digest |-> <<i, v>>, manifest |-> m]
Want(i, v, on) == [module |-> i, version |-> v, enabled |-> on]
Desired(modules, capabilities, present) ==
  [modules |-> modules, capabilities |-> capabilities, custody |-> [k \in {1} |-> [ref |-> 1, present |-> present]]]

FiveEntries == {Entry(1, 1, App(1)), Entry(1, 2, App(2)), Entry(2, 1, Store(1)), Entry(2, 2, Store(2)), Entry(3, 1, Lite)}
FiveWishes ==
  {Desired({Want(1, 1, TRUE)}, {}, TRUE), Desired({Want(1, 1, TRUE), Want(3, 1, FALSE)}, {}, FALSE),
   Desired({Want(1, 2, TRUE)}, {}, TRUE), Desired({Want(2, 1, FALSE)}, {<<1, 1>>}, TRUE),
   Desired({Want(2, 2, TRUE)}, {}, TRUE)}

CONSTANTS LockEntries, LockInstallations, LockRevisions

Lock == INSTANCE ResolverLock WITH
  Registry <- LockEntries, Installations <- LockInstallations, MaxRevision <- LockRevisions,
  installation <- v1, revision <- v2, lock <- v3, pc <- v4, required <- v5, pending <- v6

\* Modules and migrations are numbers here; what a manifest declares is finite.
ASSUME LockAssumption ==
  /\ IsFiniteSet(LockEntries)
  /\ \A e \in LockEntries :
       LET m == e.manifest IN
       /\ e.module \in Nat /\ \A d \in m.depends : d.module \in Nat
       /\ \A g \in m.migrations : g.order \in Nat /\ g.id \in Nat
       /\ \A s \in {m.artifacts, m.routes, m.web, m.migrations, m.units} : IsFiniteSet(s)
       /\ \A u \in m.units : IsFiniteSet(u.capabilities)
  /\ \A w \in LockInstallations : \A d \in w.modules : d.module \in Nat

\* For the runs: one capability or two, with the bindings a maintainer may write,
\* right and wrong.
Binding(origin, kind, role, platform, target) ==
  [origin |-> origin, kind |-> kind, role |-> role, platforms |-> {platform}, target |-> target]
Engine(e, role) == Binding(e, "engine", role, "linux", "none")
Adapter(role, platform, e) == Binding("a", "adapter", role, platform, e)
BindingsOf(e) ==
  {<<>>, <<Engine(e, "canonical")>>, <<Engine(e, "primary")>>, <<Engine(e, "spare")>>, <<Engine("a", "primary")>>,
   <<Engine(e, "canonical"), Adapter("primary", "linux", e)>>,
   <<Engine(e, "canonical"), Adapter("compatibility", "windows", e), Adapter("primary", "linux", e)>>,
   <<Engine(e, "primary"), Adapter("primary", "linux", e)>>,
   <<Engine(e, "canonical"), Adapter("primary", "windows", "e2")>>}
Capabilities(id, e, intents) ==
  {[id |-> id, intents |-> i, engine |-> e, status |-> "managed", bindings |-> b] : i \in intents, b \in BindingsOf(e)}

OneOrTwo ==
  {<<c>> : c \in Capabilities("c1", "e1", {{"x"}, {}})}
    \cup Capabilities("c1", "e1", {{"x"}})
         \X (Capabilities("c2", "e2", {{"x"}, {"y"}, {"y", "c1"}}) \cup Capabilities("c1", "e2", {{"y"}}))

CONSTANTS RoutingRegistries, RoutingFiles, RoutingPlatforms, RoutingEdits

Routing == INSTANCE ToolRouting WITH
  Registries <- RoutingRegistries, Files <- RoutingFiles, Platforms <- RoutingPlatforms, MaxEdits <- RoutingEdits,
  registry <- v1, files <- v2, route <- v3, check <- v4, edits <- v5

ASSUME RoutingAssumption ==
  \A r \in RoutingRegistries :
    /\ r \in Seq({r[i] : i \in DOMAIN r})
    /\ \A i \in DOMAIN r :
         {"id", "intents", "bindings"} \subseteq DOMAIN r[i] /\ DOMAIN r[i].bindings \subseteq Nat

\* For the runs: two schemas and the other files, some of them wrong, registries
\* that name them rightly or wrongly, and a change at any time.
Document(id, refs, good) == [id |-> id, refs |-> refs, good |-> good]
Filed(a, b, profile, vectors) ==
  [f \in {"a", "b", "profile", "cases", "vectors"} |->
     CASE f = "a" -> Document("a", a, TRUE)
       [] f = "b" -> Document(b, {"a"}, TRUE)
       [] f = "profile" -> Document(f, {}, profile)
       [] f = "cases"   -> Document(f, {}, TRUE)
       [] f = "vectors" -> Document(f, {}, vectors)]
Register(ids, refs, vectors, right) ==
  [good |-> TRUE,
   entries |-> [n \in DOMAIN ids |->
     [id |-> ids[n], digest |-> Document(ids[n], IF ids[n] = "a" THEN refs ELSE {"a"}, TRUE), right |-> TRUE]],
   rest |-> <<Document("profile", {}, TRUE), Document("cases", {}, TRUE), Document("vectors", {}, vectors)>>,
   items |-> [i \in {"profiles", "vectors"} |-> i = "profiles" \/ right]]

FiledContents ==
  {Filed(a, b, profile, vectors) : a \in {{}, {"z"}}, b \in {"a", "b"}, profile \in BOOLEAN, vectors \in BOOLEAN}
SixRegistries ==
  {Register(<<"a", "b">>, {}, TRUE, TRUE), Register(<<"b", "a">>, {"z"}, TRUE, TRUE),
   Register(<<"a", "b">>, {}, FALSE, TRUE), Register(<<"a", "b">>, {}, TRUE, FALSE),
   Register(<<"a", "a", "b">>, {}, TRUE, TRUE), Register(<<"a", "a">>, {}, TRUE, TRUE)}

CONSTANTS SchemasId, SchemasContents, SchemasRegistries, SchemasEdits

Schemas == INSTANCE SchemaSet WITH
  Id <- SchemasId, Contents <- SchemasContents, Registries <- SchemasRegistries, MaxEdits <- SchemasEdits,
  registry <- v1, nodes <- v2, folders <- v3, stray <- v4, pc <- v5, at <- v6, set <- v7, loaded <- v8,
  edits <- v9, changed <- v10

ASSUME SchemaAssumption ==
  /\ IsFiniteSet(SchemasId) /\ SchemasId # {}
  /\ SchemasId \cap {"profile", "cases", "vectors"} = {}
  /\ \A r \in SchemasRegistries : Len(r.entries) \in Nat /\ DOMAIN r.entries = 1 .. Len(r.entries)

\* For the runs: hosts that are written in several ways, with ports; paths of four
\* tokens, and a list of whole URIs, of which two lead to one place.
Authority(host, canon, port, ip, loopback) ==
  [host |-> host, canon |-> canon, port |-> port, ip |-> ip, loopback |-> loopback]
Site == Authority("site", "site", "none", FALSE, FALSE)
SiteAt(path) == [scheme |-> "https", authority |-> Site, path |-> path, query |-> <<"none">>]

TenAuthorities ==
  {Site, [Site EXCEPT !.port = "443"], [Site EXCEPT !.port = "8443"], [Site EXCEPT !.port = "bad"],
   [Site EXCEPT !.host = "SITE"], [Site EXCEPT !.host = "user@site", !.canon = "none"],
   Authority("127.0.0.1", "127.0.0.1", "80", TRUE, TRUE), Authority("127.0.0.1", "127.0.0.1", "8080", TRUE, TRUE),
   Authority("10.1", "10.0.0.1", "none", TRUE, FALSE), Authority("10.0.0.1", "10.0.0.1", "none", TRUE, FALSE)}
UrlTokens == {"/", "E", ".", "2", "|", "%45", "%2E", "%2e", "%2F", "%21", "%25", "%C2", "%A9", "%AD", "%"}
FiveSites == {SiteAt(<<>>), SiteAt(<<<<>>>>), SiteAt(<<<<"E">>>>), SiteAt(<<<<"%45">>>>), SiteAt(<<<<".">>>>)}

CONSTANTS UriAuthorities, UriTokens, UriPath, UriQuery, UriOffers, UriList

Uris == INSTANCE RedirectUris WITH
  Authorities <- UriAuthorities, Tokens <- UriTokens, MaxPath <- UriPath, MaxQuery <- UriQuery,
  Offers <- UriOffers, MaxList <- UriList, uri <- v1, list <- v2, admit <- v3

\* canonical_host: what a host is canonically, and what it is, depends on its text.
ASSUME UriAssumption ==
  /\ \A a, b \in UriAuthorities : a.host = b.host /\ a.port = b.port => a = b
  /\ \A u \in UriOffers :
       u \in [scheme : {"https", "http", "HTTPS"}, authority : UriAuthorities,
              path : Seq(Seq(UriTokens \ {"/"})), query : Seq(UriTokens) \cup {Uris!NoQuery}]

-----------------------------------------------------------------------------
Init ==
  \/ program = "bridge" /\ Bridge!Init /\ NoProject /\ NoClient /\ NoRegistry
  \/ program = "guardian" /\ Guardian!Init /\ NoDebate /\ NoClient /\ NoRegistry
  \/ program = "amocrm" /\ Amo!Init /\ NoDebate /\ NoProject /\ NoRegistry
  \/ /\ \/ program = "lock" /\ Lock!Init /\ None7
        \/ program = "routing" /\ Routing!Init /\ None6
        \/ program = "schemas" /\ Schemas!Init
        \/ program = "uris" /\ Uris!Init /\ None4
     /\ NoDebate /\ NoProject /\ NoClient

Next ==
  /\ UNCHANGED program
  /\ \/ program = "bridge" /\ Bridge!Next /\ UNCHANGED <<project, client, registries>>
     \/ program = "guardian" /\ Guardian!Next /\ UNCHANGED <<debate, client, registries>>
     \/ program = "amocrm" /\ Amo!Next /\ UNCHANGED <<debate, project, registries>>
     \/ /\ \/ program = "lock" /\ Lock!Next /\ UNCHANGED from7
           \/ program = "routing" /\ Routing!Next /\ UNCHANGED from6
           \/ program = "schemas" /\ Schemas!Next
           \/ program = "uris" /\ Uris!Next /\ UNCHANGED from4
        /\ UNCHANGED <<debate, project, client>>

Spec == Init /\ [][Next]_vars

\* The fairness of each program.
FairSpec ==
  /\ Spec
  /\ WF_debate(program = "bridge" /\ Bridge!Main_)
  /\ \A x \in Bridge!Who :
       /\ WF_debate(program = "bridge" /\ Bridge!Take(x))
       /\ WF_debate(program = "bridge" /\ Bridge!Speak(x))
  /\ WF_project(program = "guardian" /\ Guardian!Tick)
  /\ WF_project(program = "guardian" /\ Guardian!Start)
  /\ WF_project(program = "guardian" /\ Guardian!Work)
  /\ \A t \in Task : WF_client(program = "amocrm" /\ Amo!Progress(t))

-----------------------------------------------------------------------------
\* The registries, and what is chosen by them.  A program that was selected for an
\* intent starts exactly if it would be selected again when it starts, and in a
\* registry that validates an intent leads to the capability that declares it, but
\* in the listed ways.  validate_resolver_result_semantics:
\* an accepted lock is the least selection that serves the installation as it is,
\* its bindings fit together, and a lock of that kind is not refused.
\* SchemaSet.load: what was loaded is what the registry names, whatever changes
\* meanwhile.  normalize_uri: an accepted redirect URI has one normal form, which
\* leads where the URI does.
RegistriesSound ==
  /\ program = "routing" => Routing!SelectedStarts /\ Routing!ValidResolves
  /\ program = "lock" => Lock!SelectionSound /\ Lock!BindingsSound /\ Lock!NothingElseRefused
  /\ program = "schemas" => Schemas!LoadExact
  /\ program = "uris" => Uris!NormalFormSound

\* debate_round: what an agent said is not swallowed between two reads.
NoTextSwallowed == program = "bridge" => Bridge!NoTextSwallowed

\* main of the bridge returns, whichever pipes fill on the way, unless it writes
\* for ever to an agent that waits for a pipe the bridge does not read.
BridgeEnds ==
  ~<>[](program = "bridge" /\ Bridge!Wedged) => <>(program = "bridge" => Bridge!Ended)

\* add_overdue_comment is not repeated by stale pages and broken runs.
CommentsExplained == program = "guardian" => Guardian!CommentsExplained

\* main of the guardian gets to every card that stays overdue, run after run.
OverdueExpire ==
  \A i \in Card :
    <>[](program = "guardian" /\ Guardian!Overdue(i)) => <>[](program = "guardian" => i \in expired)

\* refresh_token and _send_request, one call at a time: the caller is told to
\* authorize anew only if the refresh token is of no use any more, and sees a
\* 401 only after a refresh or a 429.
TokensServe == program = "amocrm" => Amo!TokensServe

\* _send_request and _handle_429 end, whatever the servers answer.
CallsTerminate ==
  \A t \in Task :
    (program = "amocrm" /\ pc[t] \in Amo!Waiting) ~> (program = "amocrm" => pc[t] \in {"idle", "done"})
=============================================================================
