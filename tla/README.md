# Formal models of the intData tools repository

TLA+ models, TLC runs and TLAPS proofs for the parts of this repository that keep
state across failures or run concurrently. Every definition is translated from the
code; `PROJECT.json` names the lines each one stands for, the hazards the properties
are aimed at, and for every property at least one mutant: a plausible bug of the code
under which TLC finds the property violated.

1. [Inventory](#inventory) · 2. [Plan](#plan) · 3. [Modules](#modules) · 4. [Runs](#runs) ·
5. [Fairness](#fairness) · 6. [Proofs](#proofs) · 7. [Findings](#findings) ·
8. [Not modelled](#not-modelled) · 9. [Running the checks](#running-the-checks)

## Inventory

The repository is a collection of tools, each a small program of its own. They share
no memory; they meet through HTTP services, databases, files and the commands they
call. Many are stateless translations of one request. These keep state:

| Part | State | Operations | Talks to | What is hard | What makes it correct |
|---|---|---|---|---|---|
| `amocrm-mcp`: `auth.py`, `client.py`, `umnico_client.py`, `server.py` | an OAuth pair in memory and in a token file; per call: header, attempt, refreshed | a tool call; refresh on 401; back off on 429; write the pair; load it at start | amoCRM and Umnico APIs, the OAuth endpoint, the token file, which other processes also use | refresh tokens are single-use; calls interleave at every await; the process may die between rotation and write | the only honoured pair is never lost; the file never goes back; retries end; what the caller is told is true |
| `codex/bin/intdata_mcp_registration.py` | the codex registry, backup files | check, apply, rollback, restore after a failure | the `codex mcp` command, one call per step | a command may fail before or after its effect, or be the one that was to repair the last failure | the registry is as it was, as asked for or put back, and the report says which |
| `agent_plane`: `server.py`, `policy.py`, `dispatcher.py`, `audit.py` | audit entries in memory, in a JSONL file or in Postgres | validate, decide, run the tool, record, answer | callers over HTTP, tools, the store | effect, record and answer are separate steps; a record may fail or tear | whoever is answered is in the journal; the journal never contradicts what ran |
| `punkt-b-admin-mcp` | rate-limit deques, reserved idempotency keys; executor threads | verify the token, limit, gate, reserve, run an adapter with a timeout | Supabase auth, PunktB, mail, calendar, the amoCRM client above | a timed-out adapter goes on in its thread; permissions change; keys and windows race; threads run out | one effect per key; no effect without a fresh permission; never more than the limit; every call is answered |
| `codex/lib/intbrain_memory.py` | byte offsets and hashes in a state file | extract from session files, import trees of files, mark stored, save | the session files Codex is writing, the caller that stores items | the file grows while it is read; offsets move in memory first; two objects write one state file | no message is skipped silently; nothing is stored twice; imports come to every file |
| `dba/lib/dba.py` | exported files, temporary tables, target databases, local runtimes | prod to dev refresh; legacy import; copy, clone, dump, restore, sql, file; local-test | Postgres through `psql`, `pg_dump`, `pg_restore`; the Supabase command | three snapshots; users write between statements; a connection breaks after COMMIT; directories named after a second | references and logins stay whole; all or nothing; success means what was read was written |
| `review-sql-fix`: `fix_pipeline.py`, `safety_guard.py`, `backup_snapshot.py` | files of repositories, a database, backups, coord sessions, artifacts | snapshot, guard, runtime lane, repo lane, postchecks, artifacts | psql, git, the coord service, other agents | files are read and written in two calls; a lane fails half-way; runs overlap | every gate is passed first; artifacts say what was done; no edit and no first text is lost |
| `codex/duplex_bridge.py` | two child processes and their pipes | prime, relay, read chunks, stop | agents on pipes | both ends may write before they read; chunks end anywhere | no text swallowed; the bridge ends unless it and an agent wait for each other for ever |
| `delivery/devops/project_deadline_guardian.py` | cards, comments, assignees on GitHub | mark, comment, assign, page by page | GitHub, people | the first call decides whether a later run does the others | an overdue card is marked in the end, and not commented twice |
| `delivery/devops`: issue and discussion mirrors | `AGENTS/issues.json`, files of discussions | queue, import, sync; read pages, write files | GitHub, agents that are offline | two scripts write one file without a lock; a listing moves while it is read | no draft is lost or imported twice; a file is what the category lists |
| `delivery/devops/setup_keycloak_killbill.sh` | a Keycloak realm, its clients, a Kill Bill tenant | start, restart, provision | admin interfaces, administrators | a realm is read whole and written back; requests fail after they took effect | a run that says 0 left what its environment says |
| `delivery/devops`: redeploys | images, services, reports | build, restart, collect logs, smoke, scan | docker, systemd, services | steps are masked, logs are older or younger than the restart | the verdict is that of the steps |
| `vault/installers` | vault directories, archives | move, merge, archive, remove | the file system, people who write | a run that stops half-way, and the next one; two scripts at a time | no file is lost; a second run leaves nothing to do |
| `codex/bin/codex_recovery_bundle.py` | a bundle, live secrets | export, import | the file system, openssl, other programs | a file is half there when the command stops | a bundle is what was there; an import restores that |
| `codex/tools/mcp-obsidian-memory` | the notes of a vault | upsert, move, link, suggest | the file system, a person | calls interleave at every await; a file is emptied before it is filled | no text lost, links follow a moved note |
| `prointdata-google-credentials` | native stores of two machines, consumers' files | create, apply, gws, receive, replicate | Google, `gog`, ssh | Google may replace the token; consumers fail half-way | the last valid token is kept, consumers agree |
| `codex/bin/mcp-bizon365.py` | a cookie session, an archive index | login, request, download, search | Bizon365 | a session that ran out looks like an empty answer; a POST must not be repeated | sessions are mended once, nothing is posted twice |
| `getcourse-mcp` | exports of an account | start, poll, read, import | GetCourse | an answer that is lost takes the id with it | an export that was started is known to somebody |
| `codex/bin/firefox_mcp_launcher.py` | a run file for each profile | start, replace, end | processes | look, then write; process ids are taken again | one server for each profile |
| `codex/bin/mcp-intdata-cli.py`, `int_ssh_*.py` | the program of a call | confirm, run, time out, answer | programs, ssh | two timeouts; what a killed program started goes on | ok means that the program of the call ended well |
| `codex/bin/agent_tool_routing.py` | a registry, files | validate, resolve, assert | programs that start | three readers of a registry that changes, with rules of their own | what was selected starts if, and only if, it would be selected again |
| `chatgpt-apps/int-tools-mcp` | a cache of items | search, fetch | the memory | threads share one cache | fetch finds what search listed |
| `contracts`: connector grants, key sets, approval receipts, resolver locks, redirect URIs; `platform-tooling`: schema sets | what a verifier remembers | issue, revoke, accept, purge, load | issuers, offices, files | old snapshots, purged rows, edits between a look and a read | a revocation holds; a receipt is used once; what was loaded is what is registered |

The rest is listed in `PROJECT.json` with the reason why a model would show nothing.
Parts that interact are modelled together: the bridge with its agents, the gateway
with its threads, the two scripts on `issues.json`, the two on a vault, the two
redeploys, `mcp-intdata-cli.py` with the ssh programs, tool routing with the programs
that assert their binding, session reader and writer. One interaction crosses modules:
the amoCRM adapter of the punkt-b gateway builds an `AuthManager` per call, so it is
one more process on the token file in the sense of `AmoClient`.

## Plan

Done: `AmoClient`, `McpRegistryTxn` and `McpRegistration` (its refinement),
`AgentPlane`, `PunktbGateway`, `SessionMemory`, `DevRefresh`, `SqlFix`, each with a run
and proofs of its own; and 27 modules of smaller programs, which share the runs
`Endings` and `Programs`: those of `Programs` with proofs in `ProgramsProofs` and
`HostProofs`, those of `Endings` in `EndingsProofs`.

Next, by what a mistake would cost:

1. A second writer of the codex registry between inventory and writes, which no
   property covers now.
2. The liveness properties for more than the small instances; every safety property
   of the runs that hold is proved.

## Modules

An action is the code from one point where something else may happen (an await, a
command, a write, a SQL statement) to the next. Definitions that end in `_Something` are mutants:
the bug they contain is named in the comment above them, and no specification uses them.

### AmoClient (`AmoClientProofs`)

Calls `Task` run in processes `Proc`, which share one token file; a call picks its
process when it starts. A token pair is the number of its generation; 0 is the seed of
the environment. `cur`, `refreshable` and `live` belong to the servers: the newest pair
issued, whether its refresh token is still honoured, whose access tokens are. `disk` is
the token file, `mem[p]` the `AuthManager`, `pc[t]` the await a call is at, `req[t]` the
locals of its loop.

| Action | Code |
|---|---|
| `StartCall`, `ApiAnswer` | headers are built, the request is sent, the answer arrives (`client.py`, `umnico_client.py`) |
| `BeginRefresh` | a first 401: `refresh_token` reads the refresh token and posts it; no lock keeps a second call from doing the same |
| `TokenGrant`, `TokenDeny`, `TokenReject` | the OAuth endpoint (external): a refresh token is honoured once, and only while it is the newest |
| `StoreTokens`, `StoreFails` | the rest of `refresh_token`: memory, file and resend without an await; or the write fails |
| `RefreshExpired`, `RefreshFailed`, `Backoff`, `Return` | the other ways on from an answer |
| `Timeout`, `Crash`, `Restart`, `Expire...` | faults; each can be switched off through `Faults` |

The four loops are `kind`s of one set of actions: they differ in whether a 401 is
refreshed, in the attempt counter (shared in the public loop, separate in the
private one) and in the retry limit. A request that a tool makes inside another (the
file service's URL) is a call of its own.

### McpRegistryTxn, McpRegistration (`McpRegistrationProofs`)

`McpRegistryTxn` is what an operator relies on: the registry found is saved before
the registry is touched; an invocation ends `unchanged`, `committed`, `restored`,
`manual` or `crashed`, and each of these is true when it is said. `McpRegistration`
is `main()`: inventory, refusals, backup, the loop over the profiles, the inventory
that verifies it, and the `except` branch that restores, in which a second exception
asks for a manual recovery. `CommandFails` covers a non-zero exit and the 30 s timeout, with or
without the effect; `Misstore` a row that is listed differently from how it was
added; `Crash` a kill. A row is its class (wanted, safe to capture, not, absent), all
the code looks at. `KeepsPromise == Txn!Spec`, with `Txn == INSTANCE McpRegistryTxn`, is the
refinement; the state variables of the two modules with the same names are the mapping.

### AgentPlane (`AgentToolsProofs`)

A thread per POST: `Receive` (validation and `PolicyEngine.decide`), `Dispatch` (the
tool has its effect), `UnknownTool`, `ToolReturns`, then the record (`Remember` and
`Write` for JSONL, `Insert` for Postgres, `RecordFails` for either: a torn line, an
insert that commits although the client sees an error), and `Reply`. `Crash` loses
the threads and the entries in memory; `Restart` opens the same journal. A request is
its class. `Plane` stands before the names that `SessionMemory`, which shares the proof module, has too.
The field `dry_run` is not in the model because no code reads it
(`models.py:67`): a dry run of a tool runs it.

### PunktbGateway (`PunktbProofs`)

The path of one request: `Receive`, two reads in executor threads (`WorkStarts`,
`UserKnown`, `PermGranted`, `Unauthorized`), then in one step of the loop the limiter,
the gates, the effect flag and the key (`RateLimited`, `Refuse`, `Execute`), and the
adapter under `wait_for` (`Effect`, `AdapterReturns`, `AdapterFails`, `TimeOut`). A
timed-out thread is an `orphan`: it keeps its worker and may still have its `Effect`
until `OrphanEnds`. `ChangeGrant`, `Tick` and `Restart` are the environment. `Recent`
is the limiter's loop that drops old timestamps from the front. `_lk_admin_context`
makes two hops to threads; the model makes one, which leaves a thread that is timed
out in between at work just as well. The constant `Asks` has the calls of a behaviour.

### SessionMemory (`AgentToolsProofs`)

A session file is measured in half lines, so that the writer may stop in the middle
of one. `WriterAppends` is Codex; `Open`, `Begin`, `Measure` (metadata, size, scope), `Read`
(parse from the offset, drop known hashes, move the offset to the size measured
before), `Return` and `Raise` are `extract_session_items`; `Mark`, `Rewrite`, `Replace`
and `SaveFails` are `mark_stored` and `save`; `Exit` a crash or an end. The hash of an
item is its text and the number of its line counted from where the read began (that,
with the byte offset in it, identifies the line as long as the same read starts at
the same place). Line 1 is the metadata record; records that make no item are left
out; one process uses the state file. `habit` says, once for a behaviour, what writer,
caller and host may do. `passed` is a history variable: the lines that the code passes over (out
of scope, half written when read, read by an extraction that raised).

### DevRefresh (`PunktbProofs`)

`src` is production, `dev` the dev database as committed, `export` the files, `stage`,
`gone` and `new` what the transaction has staged, deleted and written. `Start`, three
`Export` steps (each `\copy` has a snapshot of its own), `StageSpecialists`,
`StageClients`, `WriteAuth`, `Delete`, `Insert`, `Finish` are the statements of the command, in
order; each sees what is committed when it begins (READ COMMITTED). `Fail` is a
`psql` that exits with an error or dies at any point, also right after `COMMIT` took
effect. A statement that would break a key is not enabled, so that only `Fail` is
left: two production clients with one mail make every run fail.

Users have ids of three sorts: numbered by production, made from a mail
(`pg_temp._dba_uuid`) or signed up on dev. Kept: ids, normalized mails, references.
Left out: the other columns, the rows that depend on deleted rows, profile checks and
`--approve-target` (they end the command before it does anything). Assumed: a dev user
who changes the mail of the account changes it in the `assess` row too, so the model has
neither; a row of `auth.identities` is written with that of `auth.users`; the three
deletes see the same rows.

### SqlFix (`MCSqlFix`, `SqlFixProofs`)

`main` of `fix_pipeline.py`, run by run: arguments and sections, the snapshot file by
file into the directory of its second, the gate, the runtime lane (one `psql` per
action), the repo lane (a coord session, read, write in two steps, end of the
session), shell checks, artifacts one by one. A file is the set of texts in it; a SQL
action and a fix are the questions the code asks about them. `AgentBegins` and `AgentEdits` are another agent that
respects sessions. Any command may fail; a run may be killed; a write may be
interrupted, which leaves an empty file. `executed`, `written`, `shelled`, `edited` and
`torn` are histories.

### The smaller programs (`MCPrograms`, `MCEndings`, `ProgramsProofs`, `HostProofs`, `EndingsProofs`)

Each of these has one actor or a few, and properties of its own; the comment at the
head of a module says what its state stands for, `PROJECT.json` which lines each action does.

| Module | Actions | Remarks |
|---|---|---|
| `DuplexBridge` | `Main_` (prime, await a reply, read a chunk, redirect, remind, end), `Take`, `Speak` of the agents, `Jam` (stderr), `Die` | pipes hold units; a line of output is two, so that a chunk ends anywhere; `lost` is text dropped where the code says it drops text. A reply of nothing but blanks, and one that was aborted, are replies like others |
| `DeadlineGuardian` | `Start`, `Work` (page, mark, comment, assign), `CallFails`, `Tick`, `Person` | a failed call may have taken effect; a locked issue refuses comments |
| `VaultUpkeep` | `Sanitize` and `Collect`, file by file; `Write` by people | `far`: the archive is on another device, where a move is a copy and an unlink |
| `IssueMirror` | `StartImport`, `LoadDrafts`, `Import`, `EmptyForImport`, `SaveQueue`; `StartSync`, `WriteMirror`; `Queue`, `TakeOut` by agents | a file that was emptied does not parse |
| `DiscussionMirror` | `Run`, `ReadPage`, `FailPage`, `WriteFile`, `Touch` | what is touched moves to the front of the listing |
| `LegacyAssess` | the statements of the transaction, `Fail`, changes of source and target | rows of one mail are merged; legacy ids become slugs |
| `DbaCommands` | copy, clone, dump, restore, one client at a time | directories are named after a second |
| `LocalTest` | run, smoke, stop, unwinding | a workspace may be shared |
| `ObsidianMemory` | upsert, move, link, suggest, one await at a time; `Edit` by a person, `Crash` | an open file is followed when it is renamed; the graph of links is read at one moment |
| `GoogleCredentials` | `Command` on two machines, consumer by consumer | a token is the number of its issue |
| `ConnectorGrant` | `Issue`, `Alter`, `Execute`, `Publish` (revocations), `Remake`, `Tick` | a digest is the document |
| `ReleaseKeySet` | `Publish` by offices, right or wrong; `Accept` by consumers | signatures are counted |
| `ApprovalReceipt` | `Issue`, `MakeRequest`, `Accept`, `Purge`, `RetireKey`, `Revise`, `Tick` | the clocks of issuer and verifier differ by a skew |
| `ResolverLock` | `Revise`, `Resolve` (right, or with one slip), `Validate`, `Close` (one step of the work list), `Finish` | six kinds of bindings |
| `ConformanceSuite` | `Start`, `Check` (one step of a validator), `Fail`, `Change` | a digest is the file; which cases come out is a constant |
| `SchemaSet` | `ReadSet`, `Inventory`, `Find`, `Read`, `References`; `Edit` | the look at a path and the opening of the file are two steps |
| `RedirectUris` | `Write` (a token), `Offer` (a URI of a list) | the property compares with the normal form of RFC 3986, 6.2.2 and 6.2.3, defined apart |
| `BizonSession` | `Call`, `Request`, `Login...`, `Download`, `Record`; `RunOut` | one call at a time, as in the server |
| `GetcourseExport` | `Step` of a call (start, poll, read, import), `Prepared`, `Dropped` | one export is prepared at a time |
| `FirefoxLauncher` | `Launch` (look, unlink, start, write, wait, remove), `ServerEnds`, `IdTaken` | `slip` names what excuses a second server |
| `IdStack` | `Step` of a run (containers, realm, clients, URLs, theme, tenant), `Administer` | under `set -e` a failing function ends the script; any status but 404 is taken for a realm that exists (`:226`) |
| `Redeploy` | `Start`, `Services`, `Build`, `Up`, `Dependencies`, `Restart`, `Fallback`, `Collect` (`TakeLog`, `SkipLog`), `Smoke`, `Scan` of both scripts; `ChangeSource`, `Live` | `past` is what the journal, or the file in `var/logs`, holds of the process before; a service may be left out of the listings, and the scanner may not be there |
| `ToolRouting` | `Ask`, `StartProgram`, `Edit` | three readers, each of its own rule; a route keeps what its caller was told, and the program judges the registry of its own start |
| `ToolCalls` | `Receive`, `Probe`, `Work`, `EndProgram`, `InnerTimeout`, `Reply`, `OuterTimeout`, `KillServer` | one call at a time for each client; `end` is how the program ended, of which `ReplyTo` makes the answer: `host_preflight` is answered ok whatever its program ended with (its verdict is a field of its own), `host_verify` failed if the text says so |
| `AppsAdapter` | `Search`, `PutItem`, `AnswerSearch`, `Fetch`, `Change`, `Restart` | threads share the cache |
| `MemoryImport` | `Open`, `Import`, `Store`, `Mark`, `Replace`, `Edit`, `Stop` | the other half of `intbrain_memory.py`; hashes cover 4000 characters; `state.tmp` is one file for all processes, written (`Mark`) and moved (`Replace`) in two steps. A file that is cut short while it is written is in `SessionMemory` |
| `RecoveryBundle` | `Export`, `CopyOut`, `CloudAccess`, `Openclaw`, `Encrypt`, `Encrypted`, `Import`, `CopyIn`, `Imported`, `Stop`, `Write` | three places one after the other, of which the cloud access depends on `rclone.conf` being there when it is its turn; openssl writes over the bundle |

These programs share nothing, so they are not interleaved: `MCEndings` takes those that must come to an
end and those that read a registry, `MCPrograms` the others, and a behaviour is one program, named by `program`, and the variables `v1`, `v2`, … are those of whichever it is
(the rest stay 0). In `MCEndings` the bridge, the guardian and amoCRM have variables and constants of their own names. TLC explores each as if it were alone. An invariant of the two modules is a
conjunction over the programs of one area, each under `program = ... =>`; most
conjuncts have a mutant of their own.

## Runs

All runs are exhaustive. "States" are distinct states.

| Run | Instance | Shows | States |
|---|---|---|---|
| `AmoShared` | two calls, in one process or in two on one file, one retry, two refreshes, every fault | `PairKept`, `DiskMonotone` | 3.4 million |
| `AmoDocReauth` | two calls of one process, expiry only | finding 1 | 2 thousand |
| `RegistryRuns` | two profiles, four classes of row, two invocations in any mode, two failures each, kills | `Repairable`, `KeepsPromise`, `InvocationEnds` | 1.0 million |
| `Plane` | three calls, both stores, failing records, crashes | `AnsweredAudited`, `JournalTruthful`, `AuditServes` | 5.1 million |
| `Punktb` | three calls of one user under one key in three mixes, two workers, limit 2, window 1, revocation, a restart | `KeysSound`, `FreshAuthority`, `RateWindow`, `CallsEnd` | 0.40 million |
| `Memory` | two files; files of two lines, written in halves while they are read, full reads, exceptions, a caller that stores some; or files of three lines that rest, failed saves, crashes | `NothingWithheld`, `SavedIsStored`, `StoredOnce` | 4.6 million |
| `Refresh` | any consistent production of a specialist, two clients, a result and two mails; two runs, dry or not; one change of production and two steps of dev users anywhere | `UsersWhole`, `LoadTrue` | 1.1 million |
| `RefreshDoc` | the same, one run, undisturbed | finding 2 | 4 thousand |
| `SqlFix` | two runs with any of five inputs over one file of two texts, an agent, two seconds | `Gated`, `ArtifactsTrue`, `FilesKept` | 3.2 million |
| `SqlFixDoc` | one run of the plain input | finding 3 | 2 hundred |
| `Endings` | one of seven programs, see below | `RegistriesSound`, `NoTextSwallowed`, `CommentsExplained`, `TokensServe`, `BridgeEnds`, `OverdueExpire`, `CallsTerminate` | 0.85 million |
| `Programs` | one of twenty-one programs, see below | `VaultKept`, `MirrorsAccounted`, `DbaExact`, `NotesKept`, `CredentialsKept`, `ContractsHold`, `ServicesAccounted`, `OneServer`, `DeploymentsTrue`, `CallsHonest`, `FetchFaithful`, `ImportsAccounted`, `BundleFaithful` | 4.2 million |

Several properties are conjunctions: `PairKept` of `DurableCustody` (the file) and `Custody`
(file or memory), `Repairable` of `OneFailureRepaired` and `BackupsRestorable`, `AuditServes` of
`TornLineCost` and `RecentHonest`, `KeysSound` of `AtMostOnce` and `KeyHolder`, `UsersWhole` of
`References` and `OneUserPerMail`, `LoadTrue` of `ResultsOwner` and `LoadsExported`, `FilesKept` of
`EditsKept`, `FixOnce` and `OriginalKept`, `TokensServe` of `ReauthOnlyWhenExpired` (which one call at a
time keeps, and two break) and `UnauthorizedExplained`. `TypeOK`, `RetryBudget`, `StateLoads`,
`JournalAppendOnly` and `StableIds` are in no run: they are proved, see [Proofs](#proofs).

### The instances of `Endings` and `Programs`

The first seven are those of `Endings`.

| Program | Instance |
|---|---|
| bridge | a debate of one round, a line and a chunk each, pipes of one unit in and two out |
| guardian | three cards on pages of two, two of them issues, one locked; a move, a failure, a clock of two values |
| amocrm | one call at a time, the four loops, the code's own limits of 5 and 3 retries, three pairs, every fault |
| lock | an application and two stores in two versions, five wishes, one revision |
| routing | one capability or two with the nine lists of bindings a maintainer may write; an edit |
| schemas | two schemas and three other files, some wrong, six registries, a change at any time |
| uris | ten authorities, paths of four tokens of fifteen, queries of two, lists of two |
| vault | five directories with a file each, two writes, two runs of each script |
| issues | two drafts, of which one or both have a `draft_id`, two imports, a sync |
| mirror | three discussions in two categories, pages of one, four touches |
| legacy | two managers, two clients, two mails and five ways in which a source may change before the second run; two steps of users |
| dba | two commands, in one second or two, a row, a write by users |
| local | three commands in one workspace, one that smokes |
| obsidian | two calls of five kinds, on four notes of which one is not there yet; one edit by the person |
| google | two commands on two machines of two homes, two tokens |
| grant | three plans, two nonces, grants and snapshots that last two ticks, two grants, two lives of a connector |
| keys | two consumers, three sets, two ids, six states of a key |
| receipt | two receipts and two requests, one row kept for three ticks, four ticks |
| bizon | three calls, two recordings, every role |
| getcourse | three calls, an account that starts two exports, two attempts |
| firefox | three launchers |
| stack | two runs of four environments, an administrator's edit, a fault |
| redeploy | two runs on five hosts with two services, two sources, one fault |
| calls | two clients, two calls of ten kinds |
| apps | two items with one id, two searches at a time, three calls |
| import | two processes, two files, two edits, limits of none, one and all |
| recovery | three commands over three files, three writes by others |
| suite | each script and the whole suite, over the published files and thirty-odd variants of them, one change meanwhile |

### Why the bounds are enough

*AmoClient*: a race on a pair needs two holders of the old one, and a second generation
is what an old holder may overwrite. The retry limits of the program `amocrm` are those of
the code; with two calls they only multiply states, because attempts are local to a call.
*Registry*: profiles are independent but for their order, so two have a finished, a
current and a pending one between them; the script gives up at the second failure, and a
second invocation starts from whatever the first left. *Plane*: a torn line needs a victim
and its predecessor; a third call gives either one a rival. *Punktb*: a key race needs two
calls, the limit of 2 a third; a window of one tick has calls on both sides of its
boundary; the mixes put a mailbox without timeouts, a disabled tool and one on the loop beside
the others. *SessionMemory*: a torn line, its completion and a line after it fit in two lines
of halves; the second file is what an exception can lose. *Refresh*: two clients are what a
result can be mixed up between, two mails what they can exchange, and the second run meets
users, ids and rows of the first. *SqlFix*: two actions and two fixes have a done and a failing
one; two runs race for the session, the output directory and the second. The smaller
programs: two actors, or one actor and its repetition, and as many objects as a mix-up
needs; each instance reaches every action and every exception its properties name.

Deadlock is checked in `AmoShared`, `AmoDocReauth` and `Memory`; the others may really stop
(all calls answered, the bound on invocations or runs used up). Symmetry is used for calls,
processes, clients, mails and runs, and only where no liveness property is checked; in `Programs`, the pairs of calls,
processes, drafts and the like are the same two model values, of which no program asks more than whether they are equal.

## Fairness

- `RegistryRuns`, `McpRegistration!FairSpec`: weak fairness of the script going on, whether
  commands succeed or fail; `_run` gives each 30 s.
- `Punktb`, `PunktbGateway!FairSpec`: weak fairness of each call's progress, and of the end of
  an orphaned thread only for tools all of whose reads have a timeout. The IMAP
  connection (`adapters.py:315`) has none; no fairness is assumed for it, and `CallsEnd`
  holds on condition that fewer such calls than workers exist.
- `Endings`, `MCEndings!FairSpec`, program by program:
  - amoCRM: weak fairness of `Progress(t)`. The event loop runs every ready coroutine and
    every wait on the network ends within httpx's 30 s. Weak fairness is of the whole, so which
    answer arrives is never promised: the servers may say 429 for ever, and the call must still end.
  - the bridge: weak fairness of `Main_` (the event loop, and its own timeouts), and of `Take` and `Speak`
    of each agent, which read and write as long as the pipes have room. `BridgeEnds` holds whichever pipes
    fill on the way. Its only condition is `~<>[]Wedged`: that the bridge does not for ever write to an agent whose stdin is full
    and that itself waits for a pipe which the bridge is not reading, its stderr or its stdout. The code can get there (it writes before it reads, and
    never reads stderr), and has no timeout for a write.
  - the guardian: weak fairness of `Tick`, `Start` and `Work`: time passes, the scheduler starts the job
    again and again, and a run goes on. Calls fail finitely often (`MaxFails`); a comment on a locked
    issue fails every time.

The other specifications state no liveness: what they promise is that nothing wrong
happens, and their callers may stop at any time.

## Proofs

TLAPS proves the theorems for every value of the constants allowed by the modules'
assumptions: any number of calls, processes, profiles, files, runs, any retry limits and
any subset of the faults.

| Module | Theorems | Inductive invariant |
|---|---|---|
| `AmoClientProofs` | `TypeCorrect`, `DurablyHeld`, `Held`, `PairIsKept`, `FileMonotone`, `RetriesBounded`, `UnauthorizedOnlyAfter`, `OneCallServed` | types; every generation in use is at most `cur`; at most one reply carries `cur`; without crashes all processes are up. `DiskMonotone` needs that a granted pair is newer than the file. `RetriesBounded` counts `sends` against attempts and the refresh, loop by loop. For `OneCallServed`: of one process and one call, memory and file hold one pair until a write fails, a request sends that pair, and what is refused is of no use any more |
| `EndingsProofs` | `TokensAreServed` | the invariants of `AmoClientProofs`, instantiated (`Client`): each step of the client in `MCEndings` is one of theirs |
| `EndingsProofs` | `CommentsAreExplained` | `GuardianInv`: a card has at most one comment for each time it was taken out of Expired, and one more while it is in it; a card that is still to be moved, and was not in Expired when its page was read, has had no comment since it last went back. That two entries are not one card needs that project and page list a card once, through moves to the front and pages that are cut at the cursor |
| `EndingsProofs` | `NoTextIsSwallowed` | `BridgeInv`: what an agent said and the bridge has not heard is one stream (reply being read, pipe, what the agent still owes), in which each second half of a line follows its first unless that text is heard or lost; every text is heard, lost or in the stream. Lemmas say what cutting, joining and parsing a stream keep |
| `McpRegistrationProofs` | `TypeCorrect`, `OneFailure`, `Restorable`, `RepairsHold`, `PromiseKept` | which values of `mode`, `recovery`, `status` go with each `pc`; what was found is saved before the loop starts; what the loop aims at is `goal` or `current`; how many failures each stage costs, and what a loop without failures has done up to `i`. `PromiseKept` is the refinement: each step of the script is a step of `McpRegistryTxn` or a stutter |
| `PunktbProofs` | `TypeCorrect`, `WritesOnce`, `KeysHeld`, `KeysHold`, `AuthorityFresh`, `RateHolds` | at most one writer per key, which holds the key from reservation on; `seen` for a call past its permission check. For `RateHolds`: each call of the last minute that was let through has an entry of its own in the deque, so that the deque's length bounds their number. Type correctness of the deques rests on a lemma that the number of expired timestamps exists (least numbers are well-founded) |
| `AgentToolsProofs` | `PlaneTypeCorrect`, `AnswersAudited`, `JournalTrue`, `AuditIsServed`, `AppendOnly` | for a call at each `pc`, what its status, effect and approval are; for a line of the journal, that its call has passed the record and agrees with it; a call has one line at most and a line that was torn a call whose record failed, which pairs each call that is not shown with the torn line before its own |
| `AgentToolsProofs` | `TypeCorrect`, `StateAlwaysLoads`, `NothingIsWithheld`, `SavedAreStored`, `StoredIsOnce` | below an offset in memory, every message is collected, returned or passed over; below a saved one, returned, or stored for a caller that stores all. Lemmas say what moving an offset, measuring, reading and raising do to that. For `StoredIsOnce`, while files rest: a read begins where the last one ended, all that was ever extracted lies below the offsets, and there is one item of a line |
| `PunktbProofs` | `RefreshTypeCorrect`, `ReferencesWhole`, `MailsUnsplit`, `UsersAreWhole`, `LoadIsTrue`, `IdsStable` | an id tells the mail of its user, so the upsert of `auth.users` adds rows and changes none; with the users that the transaction has written, too, a mail has one user; staged and written rows have their row of auth; references are to rows of dev or of the transaction, and rows that outlive the delete have none. For `LoadIsTrue`: the stages hold what was exported, the rows that outlive the delete were added by users since the run began, and what the transaction has written is a load |
| `SqlFixProofs` | `TypeCorrect`, `GateHolds`, `ArtifactsHold`, `EditsHold`, `OnceHolds`, `OriginalHolds`, `FilesHold` | what has been passed at each `pc`; what a lane's tally, its results and the artifacts list was done; who is between read and end holds the session, and what it read is still in the file; a fix that was written is gone from the file and its text found there; a first text is in the file or in every directory that copied the file before it was changed |
| `EndingsProofs` | `LocksAreSound` | `LockInv`: the modules of the work list are in every closed selection, and those it is done with are enabled, resolved, fit, and drag in nothing but modules of the list; a lock that was refused misses something that the property demands; an honest lock lists what it binds as `Sorted` lists it. Lemmas say that a finite set whose members differ in their keys is listed once each and in order, and which slips a list shows |
| `EndingsProofs` | `SchemasAreExact` | `SchemaInv`: what has been loaded are the first parts of the registry, each once and as registered; while nothing changed they are still in their places, and what was refused is not sound. That every id is there once is counted: a bijection of the entries and the ids |
| `EndingsProofs` | `RoutesAreSound` | `RouteInv`: whatever was edited since a route was given, what is left of the selected capability is as it was but for its status, no other serves its intent or has its id, and the files tell which of its bindings are there. So a program starts exactly if it would be selected again, unless the registry had its id, or its capability the file, twice |
| `EndingsProofs` | `UrisAreSound` | `UriInv`: a URI and a list have their form. The work is in the lemmas: in an accepted component nothing is to be reduced, a path without dot segments is what RFC 3986 leaves of it, and so the normal form is written as the place it leads to; two URIs of one place therefore have one normal form, of which a list takes one |
| `EndingsProofs` | `RegistriesAreSound` | the four theorems before, together |
| `ProgramsProofs` | `FetchIsFaithful`, `OneServerAtATime`, `BundlesAreFaithful`, `ImportsAreAccounted`, `ServicesAreAccounted`, `ContractsAreKept`, `CallsAreHonest`, `CredentialsAreKept`, `DbaIsExact` | `Safe` of each program's module, see below |
| `HostProofs` | `DeploymentsAreTrue`, `NotesAreKept`, `VaultIsKept`, `MirrorsAreAccounted` | the same, for the programs that maintain a host, its notes or the mirrors of a repository |

Each program's module names its inductive invariant `Safe`, so that TLC can check it in a run before it is
proved; `ProgramsProofs` and `HostProofs` show it for each program and step, and that the `Safe` of all programs of a property
imply the property. As a behaviour is one program, this proves the property of each program alone.

| Program | What `Safe` adds to the property |
|---|---|
| apps | an item that waits for the cache is no older than what was put of it, unless its id was crossed; the cache is keyed by id |
| firefox | until something slips, one launcher starts at a time, a server that runs is its own, and otherwise the run file names it |
| recovery | place by place, what an export has copied is what was there when it began, and a cloud access is copied that had its configuration; what an import has restored is what the bundle has, but for files that others wrote |
| import | what was stored is marked, or will be, or may be stored again; what a process was given nobody else has, or it may be stored again |
| bizon | a call that goes on has posted nothing yet, and where it repeats a request it has logged in for that |
| getcourse | what can be read was prepared |
| grant | the connector has a snapshot that was published, or none, and remembers what it accepted in this life |
| keys | what a consumer accepted is a chain that ends in the set it uses, none is missing in between, and keys were revoked for good; consumers whose chains meet have the same chain up to there |
| receipt | an accepted pair has its row unless the row was purged, a purged row's receipt and request are out of date for any skew, a `jti` has one receipt |
| suite | what a run has loaded is what the files are, and what its steps have shown is so, if nothing changed since its start |
| calls | what a call has come to, and how its program ended, goes with its answer; a server comes to a call when it has answered those before; one call makes the change, and is not answered ok while its README is there |
| google | where a command can be; while nothing slipped there is one command, it began with the token of its store, and it or a store has a token that Google honours; on a machine that is not mixed, how far the one command has come |
| issues | a draft that the save of an import will leave out was imported or queued meanwhile; one that may still be imported is no item yet, but for what `repeats` tells |
| mirror | two discussions are not touched at one time; the entries are of before the cursor, and what is listed before it, but for what was touched meanwhile |
| legacy | a mail has one user, and specialists and clients are users; a staged row stands for the row kept for its mail, and its user is one or none was there; slugs are free; what the transaction wrote is what was staged. A mail has a row that is kept because a finite set has a last member in a strict order |
| dba | a command at work has a directory, which no other has unless it is `mixed`, and the file there is as it has written or read it |
| local | only a run starts a runtime, in its own workspace |
| stack | where a run can be; the clients it is past are as it made them and the realm as it wrote it, unless an administrator or another environment's run came between; a representation that is to be written back is the realm's, or known to be stale |
| redeploy | a run counts a failure as soon as it has one that counts, and no other, until the logs are searched; logs it took are the ones in its directory unless that is mixed; services it has reached are of the source it began with or later, unless another run crossed them, and so are images between build and start |
| obsidian | calls that have the text of a note in hand, and the note, have the same text, unless it may be lost; what a move writes, has written, or has not on its list has no link to the old place, but for what others wrote |
| vault | a name has one file in the vault, which is the latest; the latest has its name wherever it is, and is outside the vault as well before its source is removed; if nobody writes, what is left of the source of a merge was listed, and every file that must go is still to be moved |

Assumptions beyond the constants' types: that the OAuth endpoint honours only the newest
refresh token (it is `TokenGrant` and `TokenDeny`, as `auth.py` describes it); for
`SavedAreStored`, that the caller marks all that it was given (not `"picky"`), and for `StoredIsOnce` also that files
rest while they are read; for `OriginalKept`, that no two runs begin in one second; for `FixOnce`, that no fix puts back
a text that a fix looks for. Of the constants of `MCPrograms` (its `ASSUME`s): the bounds `Age < Kept` of a receipt, which
the code's 300 s and 360 s satisfy; that rows of a legacy database have ids of their own and a finite
number; that a published file has the digests it names, and its cases come out as expected; that a request
that changes something has a tool and arguments that may (`MayChange`); of the programs that `ToolCalls` starts, that they end with 0
only when their work is done (`EndProgram`); that each secret is in one of three places and `rclone.conf` is in the cloud's; that a discussion listing is finite; that an
environment of the identity stack gives each client an id of its own, as the script's defaults do (two set to one id
would overwrite each other); that there is a service to redeploy; that a vault has finitely many names, in the five
directories the sanitizer knows, and that a note of `Resources/OpenClaw` has a place of its name in
`Resources/Agents/OpenClaw`; that the requests to the memory server and the vaults it starts from are well formed, the
texts of a vault being numbered. Of the constants of `MCEndings`: that there is one process and one call of
amoCRM at a time (with two it is not so, which `AmoDocReauth` shows; `OneCallServed` states it for `AmoClient` alone, on the
condition `OneAtATime`), that a project has finitely many cards, that the numbers of prompts, rounds, chunks and lines are natural,
that a registry of modules is finite and its modules and migrations are numbered, that what a host is canonically depends on
its text, that the ids of a schema set are finitely many and none is the name of another of its files,
and that registries hold sequences of capabilities that have an id, intents and bindings.

Only model-checked, and why: the liveness properties `CallsTerminate`, `InvocationEnds`, `CallsEnd`, `BridgeEnds`, `OverdueExpire`, since TLAPS does not
  do fairness or `ENABLED`.

Three things were found wrong in the models when their invariants were sought. The texts in hand of `ObsidianMemory` left out a
note that an upsert is about to link back to, so that with three calls a lost text was not excused; and a file that
`VaultUpkeep` puts in its place did not overwrite one of that name. Both now do what the code does
(`index.mjs`, `vault_sanitize.py:132-143`). And nobody could ask `ToolRouting` for an intent after the registry had changed;
callers read it anew each time (`agent_tool_routing.py:214`). The runs hold as before.

The tools do not agree on `SUBSET P \ Q` and `UNION P \cup Q`: TLC binds the prefix operator first, TLAPS last. They are in
parentheses wherever they occur together.
## Findings

1. `AmoDocReauth` (`ReauthOnlyWhenExpired`). `auth.py` reports an expired refresh token whenever the endpoint
   says `invalid_grant`. Two concurrent calls that are answered 401 both post the same
   token; the second gets `invalid_grant`, and its caller is told to re-authorize
   although the newest refresh token is valid and in memory.
2. `RefreshDoc` (`AllLoaded`). The specification of the refresh says that the exported rows are loaded.
   Clients without a mail are, under their production id, but their results are
   found through the mail of the client and left out; the run reports success.
3. `SqlFixDoc` (`PartialShown`). The fix playbook says that the artifacts of a run that fails show what was
   executed. An action that fails raises out of its lane, and the results of the lane are lost:
   the artifact says that no runtime actions were provided although one was committed.

Behaviour that the properties describe as it is, and that may surprise:

- *amoCRM*: `client.py:53` speaks of a transparent refresh on 401. A 401 that follows a 429 is
  returned to the caller as it is; `UnauthorizedExplained` says exactly when.
- *Session memory*: a message is passed over when its line was half written at the moment it was
  read, when its file was out of scope once, or when an extraction raised after it was read
  and the same object saved later (`NothingWithheld`). Writes during a read may lead to an
  item with a second hash: `StoredOnce` is for files that rest.
- *Imports of files*: changes past the first 4000 characters are not seen; the limit counts new items
  only; two objects on one state file forget each other's marks.
- *Gateway*: a write tool that timed out keeps its key although the answer says the call may be
  retried (`KeyHolder`, and the hazard at `adapters.py:71`).
- *Refresh*: a client exported after a new specialist appeared, but not that specialist, loses the
  reference; a result whose client appeared in between is left out (`LoadsExported` is
  about what was exported, three snapshots and not one).
- *Legacy import*: a slug that conflicts blocks every later run; clients of a merged manager lose their
  specialist; results of a mail that moved stay with the old mail; a list of results that shifted leaves duplicates.
- *Copy and restore*: two copies of one second share `import.sql` and the rows; `pg_restore` goes on after an
  error, so that a clone or restore reported failed may have loaded rows. *local-test*: a second run in a workspace
  takes over a runtime that was kept, and a stop that fails is forgotten.
- *SQL fixes*: runs of one second share a backup directory; a coord session stays when the
  reply to its start cannot be read.
- *Bridge*: it writes before it reads, never reads stderr and has no timeout for a write, so that it waits for ever for an agent that fills a
  pipe (`Wedged`); the rest of a chunk that completes a reply is dropped where the next prompt begins (`lost`).
- *Guardian*: a card whose comment failed after it was marked stays without one for ever.
- *Vault*: the sanitizer is not idempotent in one run, although `vault/installers/README.md:5` says
  "Idempotent": what it moves may have to be moved again, and the second run does that (`SecondRunClean`).
- *Issues*: `sync_issues_mirror.py:272` writes the file without `offline_queue`, so a sync drops queued drafts;
  the import rewrites the queue once, at the end. *Discussions*: one whose author is gone ends the run with
  an exception that is not the script's own.
- *Obsidian*: a move replaces the links by one reading of the graph; a note that is linked to it
  meanwhile keeps the old link.
- *Google*: `--check` drops a rotated token; a consumer that fails after a rotation loses it.
- *Bizon365*: a refused login over an old cookie counts as logged in (`:377`); a POST over a dead session that is
  answered by nothing is reported as done; the archive index is built once.
- *Firefox*: a launcher whose server ended unlinks the run file that the next launcher has just written.
- *GetCourse*: a transient error while an export is polled loses its id; a pending answer that carries an id counts as pending.
- *Key sets*: the cut-off of a retired key may move. *Receipts*: more than 64 rows refuse everything; rows are
  purged by the same clock that judges freshness.
- *Schema sets*: a file that goes away between the look at its path and its opening ends `load` with an `OSError`,
  which `main` does not catch; of the conformance vectors only the digest counts; `conformance/` may hold more files.
- *Redirect URIs*: characters such as `|`, which RFC 3986 does not have, are accepted raw in redirect URIs; only the check
  of resource URIs excludes them.
- *Identity stack*: a realm whose status is 401, 403 or 500 is taken for one that exists; one client that fails ends the script under `set -e`, so that URLs, theme and Kill Bill are
  skipped and the summary of errors is never reached; a token that cannot be had, or a realm that cannot be made,
  returns without a failure; the Python step ignores two settings of the environment.
- *Redeploys*: the fallback of `local-redeploy.sh` does not count a log it cannot read; `dev-redeploy.sh` masks a `build` that fails, `local-redeploy.sh` counts it; the last 400 lines of a
  journal include the process before; logs are taken right after the restart, before the smoke test;
  `README.md:712` says that `dev-redeploy.sh` runs `log-scan.py`, which it does not.
- *Routing*: `assert_binding` takes the first binding of an origin, `resolve` the one that serves; an intent that is another capability's
  id is ambiguous in a registry that `validate` accepts.
- *Tool calls*: `host_preflight` is answered ok whatever its program ended with; the outer timeout of ssh is 5 s over the inner one, of which ending a program may take 6; what a killed program started goes on.
- *Apps adapter*: with its own runtime every search fails (it has no profile `intbrain`); the cache is not bounded and
  not kept apart by owner.
- *Recovery*: the manifest names `rclone.conf` alone although all of the cloud directory is copied; the bundle is overwritten in place.

Hazards that no property covers, and that are kept here instead of in `PROJECT.json`: a second writer of the codex registry between inventory and writes (another invocation, or `codex mcp` by
hand; the script has no lock to model), the harness of `agent_plane` that gives up after 30 s while the tool goes on, and the
restart of the gateway that forgets every reservation. The last is why `AtMostOnce` is about one life of the gateway.

## Not modelled

`PROJECT.json` lists every part with its reason. In short:

- tools that translate one request and keep nothing: the amoCRM tools and schemas (the request loops below
  them are modelled), vakas, Bitrix24, UniSender, Salebot, Tilda, the harness of `agent_plane`;
- generators and validators of one document, which continuous integration compares with their output:
  plugin generators, the catalogue of tools, the agent-host contract, the other platform validators;
- one pass from an input to an output: host bootstrap and verification, `fetch_url.py`, the nginx
  generator, clean-ups of `repo-ops`, `dba doctor` and the migrations that `dba` hands on to `intdata`;
- `gemini-openai-proxy`, a vendor copy (`README.md:50`);
- examples of the connectors' SDK, which do no I/O.

Within the modelled parts: HTTP bodies, delays and wording, the durations of timeouts (one
may come at any time), the temporary token file that a failing `os.replace` leaves
behind, digests and signatures (taken to be sound), passwords, `recent_work` and `session_brief`, which only
read, the theme cache and smoke test of the identity stack, and commands of it that hand over to docker compose.

## Running the checks

    tlc -workers 2 -config Plane.cfg AgentPlane.tla       # any run of PROJECT.json
    tlapm AgentToolsProofs.tla                            # any *Proofs module

Each run ends within three minutes on two cores.
