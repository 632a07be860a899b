------------------------------ MODULE MCPrograms ------------------------------
(***************************************************************************)
(* Programs that share nothing.  A behaviour is one of them: the variables *)
(* v1, v2, ... are those of the program, and the ones it does not need     *)
(* stay 0.                                                                 *)
(***************************************************************************)
EXTENDS Naturals, Sequences, TLC

VARIABLES program, v1, v2, v3, v4, v5, v6, v7, v8, v9, v10, v11, v12, v13, v14, v15, v16

vars == <<program, v1, v2, v3, v4, v5, v6, v7, v8, v9, v10, v11, v12, v13, v14, v15, v16>>

from16 == v16
from13 == <<v13, v14, v15, v16>>
from12 == <<v12, from13>>
from11 == <<v11, from12>>
from9  == <<v9, v10, from11>>
from8  == <<v8, from9>>
from7  == <<v7, from8>>
from6  == <<v6, from7>>
from5  == <<v5, from6>>
from4  == <<v4, from5>>

None16 == v16 = 0
None13 == v13 = 0 /\ v14 = 0 /\ v15 = 0 /\ None16
None12 == v12 = 0 /\ None13
None11 == v11 = 0 /\ None12
None9  == v9 = 0 /\ v10 = 0 /\ None11
None8  == v8 = 0 /\ None9
None7  == v7 = 0 /\ None8
None6  == v6 = 0 /\ None7
None5  == v5 = 0 /\ None6
None4  == v4 = 0 /\ None5

-----------------------------------------------------------------------------
\* For the runs: a file in each directory, one of them allowed; two runs of each
\* script.
FiveNames == {"hist", "notes", "agents", "inbox"} \X {FALSE} \cup {<<"tmp", TRUE>>}

CONSTANTS VaultNames, VaultWrites, VaultRuns, VaultGcs, VaultNow

Vault == INSTANCE VaultUpkeep WITH
  Names <- VaultNames, MaxWrites <- VaultWrites, MaxRuns <- VaultRuns, MaxGcs <- VaultGcs, MaxNow <- VaultNow,
  files <- v1, far <- v2, writes <- v3, latest <- v4, exposed <- v5, todo <- v6, pc <- v7,
  listing <- v8, cur <- v9, runs <- v10, clean <- v11, now <- v12, gc <- v13, stamp <- v14,
  archives <- v15, gcs <- v16

\* For the runs: two drafts, of which one or both have a draft_id.
CONSTANTS IssuesDraft, IssuesId, IssuesNoId, IssuesImports, IssuesSyncs, IssuesStops

Issues == INSTANCE IssueMirror WITH
  Draft <- IssuesDraft, Id <- IssuesId, NoId <- IssuesNoId, MaxImports <- IssuesImports, MaxSyncs <- IssuesSyncs,
  Stops <- IssuesStops,
  queue <- v1, torn <- v2, idOf <- v3, created <- v4, imp <- v5, raw <- v6, drafts <- v7,
  imports <- v8, syn <- v9, syncs <- v10, queued <- v11, dropped <- v12, late <- v13,
  cut <- v14, repeats <- v15

\* For the runs: rows that have one mail get two, or change their order or their manager;
\* managers are merged; results are added and taken out.
Manager(i, mail) == [id |-> i, mail |-> mail]
Client(i, mail, date, manager, results) ==
  [id |-> i, mail |-> mail, date |-> date, manager |-> manager, results |-> results]
Old == [managers |-> {Manager(1, "a"), Manager(2, "b")},
        clients  |-> {Client(1, "a", 1, 1, <<"x">>), Client(2, "a", 0, 2, <<"y">>)}]
Olds ==
  {Old,
   [Old EXCEPT !.clients = {Client(1, "a", 0, 1, <<"x">>), Client(2, "a", 1, 2, <<"y", "x">>)}],
   [Old EXCEPT !.clients = {Client(1, "b", 1, 2, <<"x">>), Client(2, "a", 0, 2, <<"y">>)}],
   [Old EXCEPT !.managers = {Manager(1, "b"), Manager(2, "b")}],
   [Old EXCEPT !.managers = {Manager(1, "b"), Manager(2, "a")}]}

NULL == <<"nobody">>

CONSTANTS LegacyMail, LegacySources, LegacyNoSlug, LegacyNobody, LegacyRuns, LegacyChanges, LegacyUsers

Legacy == INSTANCE LegacyAssess WITH
  Mail <- LegacyMail, Sources <- LegacySources, NoSlug <- LegacyNoSlug, Nobody <- LegacyNobody,
  MaxRuns <- LegacyRuns, MaxChanges <- LegacyChanges, MaxUsers <- LegacyUsers,
  src <- v1, changes <- v2, export <- v3, target <- v4, users <- v5, pc <- v6, apply <- v7,
  limit <- v8, runs <- v9, stage <- v10, new <- v11, loaded <- v12

\* For the runs: two notes of one name, a note of maps, and the home note, not there yet;
\* or one note, which the note of maps links to.
InboxA   == <<"Inbox", "a">>
ProjectA == <<"Projects", "a">>
Maps     == <<"Projects", "moc">>
HomeMaps == <<"00_Index", "moc">>
Content(text, links) == [text |-> text, links |-> links]
Vault1 == (InboxA :> Content(1, {InboxA})) @@ (ProjectA :> Content(2, {InboxA}))
          @@ (Maps :> Content(3, {InboxA})) @@ (HomeMaps :> [text |-> 0, links |-> {<<"unlinked">>}])
Vault2 == [Vault1 EXCEPT ![ProjectA] = Vault1[HomeMaps], ![Maps] = Content(2, {InboxA})]
Ask(op, note, to, full, auto) == [op |-> op, note |-> note, to |-> to, full |-> full, auto |-> auto]

Paths == {InboxA, ProjectA, Maps, HomeMaps}
TwoMocs == {Maps, HomeMaps}
TwoVaults == {Vault1, Vault2}
FiveRequests ==
  {Ask("upsert", ProjectA, {}, TRUE, TRUE), Ask("upsert", InboxA, {ProjectA}, FALSE, TRUE),
   Ask("move", InboxA, ProjectA, FALSE, FALSE), Ask("link", ProjectA, InboxA, TRUE, FALSE),
   Ask("suggest", ProjectA, {}, FALSE, FALSE)}

CONSTANTS NotesCall, NotesPath, NotesHome, NotesMocs, NotesVaults, NotesRequests, NotesEdits

Obsidian == INSTANCE ObsidianMemory WITH
  Call <- NotesCall, Note <- NotesPath, Home <- NotesHome, Mocs <- NotesMocs, Vaults <- NotesVaults,
  Requests <- NotesRequests, MaxEdits <- NotesEdits,
  notes <- v1, changed <- v2, ask <- v3, pc <- v4, put <- v5, at <- v6, graph <- v7, todo <- v8,
  texts <- v9, edits <- v10, excused <- v11, foreign <- v12

\* For the runs: two commands that may overlap, on two machines of two Hermes
\* homes each.
CONSTANTS GoogleLocal, GoogleRemote, GoogleHome, GoogleProc, GoogleRuns, GoogleTokens

Google == INSTANCE GoogleCredentials WITH
  Local <- GoogleLocal, Remote <- GoogleRemote, Home <- GoogleHome, Proc <- GoogleProc,
  MaxRuns <- GoogleRuns, MaxTokens <- GoogleTokens,
  revokes <- v1, valid <- v2, issued <- v3, store <- v4, home <- v5, gog <- v6, state <- v7,
  cmd <- v8, runs <- v9, slip <- v10, mixed <- v11

\* Two operations that take a grant and one that does not.
Operation(name, kind) == [name |-> name, kind |-> kind, known |-> TRUE]

ThreePlans == {Operation("tag", "provider_effect"), Operation("untag", "provider_effect"),
               Operation("read", "read_snapshot")}

CONSTANTS GrantPlan, GrantNonce, GrantLife, GrantSnapLife, GrantNow, GrantSnaps, GrantCount, GrantLives

Grant == INSTANCE ConnectorGrant WITH
  Plan <- GrantPlan, Nonce <- GrantNonce, GrantLife <- GrantLife, SnapLife <- GrantSnapLife,
  MaxNow <- GrantNow, MaxSnaps <- GrantSnaps, MaxGrants <- GrantCount, MaxLives <- GrantLives,
  now <- v1, snaps <- v2, grants <- v3, life <- v4, context <- v5, consumed <- v6, effects <- v7

\* For the runs: three calls, over an archive of two recordings.
CONSTANTS BizonRecording, BizonCalls, BizonSteps

Bizon == INSTANCE BizonSession WITH
  Recording <- BizonRecording, MaxCalls <- BizonCalls, MaxSteps <- BizonSteps,
  role <- v1, sid <- v2, files <- v3, index <- v4, saved <- v5, call <- v6, answer <- v7,
  posts <- v8, odd <- v9, calls <- v10, steps <- v11

\* For the runs: three launchers.
CONSTANT FirefoxLaunchers

Firefox == INSTANCE FirefoxLauncher WITH
  Launcher <- FirefoxLaunchers, meta <- v1, pc <- v2, servers <- v3, strange <- v4, slip <- v5

\* For the runs: three calls, over an account that can start two exports.
CONSTANTS GetcourseCall, GetcourseAttempts, GetcourseExports

Getcourse == INSTANCE GetcourseExport WITH
  Call <- GetcourseCall, MaxAttempts <- GetcourseAttempts, MaxExports <- GetcourseExports,
  job <- v1, started <- v2, ready <- v3, imported <- v4, pc <- v5, tool <- v6, id <- v7,
  left <- v8, answer <- v9, told <- v10, cut <- v11, finished <- v12

\* Two consumers of key sets.  Key 1 is retired or revoked, or comes back; key
\* 2 may be the same key under another id; one is a root key.
KeyOf(pk, from, state, retired, revoked) ==
  [pk |-> pk, from |-> from, until |-> 1, state |-> state, retired |-> retired, revoked |-> revoked]

SixKeys == {KeyOf("p", 0, "active", 9, 9), KeyOf("q", 0, "active", 9, 9), KeyOf("p", 0, "retired", 0, 9),
            KeyOf("p", 0, "revoked", 9, 1), KeyOf("p", 1, "active", 9, 9), KeyOf("root", 0, "active", 9, 9)}

CONSTANTS KeysConsumer, KeysId, KeysKey, KeysRoot, KeysTime, KeysNull, KeysSets

Keys == INSTANCE ReleaseKeySet WITH
  Consumer <- KeysConsumer, KeyId <- KeysId, Key <- KeysKey, RootKeys <- KeysRoot, Time <- KeysTime,
  Null <- KeysNull, MaxSets <- KeysSets,
  sets <- v1, at <- v2, past <- v3

\* For the runs: two receipts and two requests; a unit of time is 30 seconds
\* and more.
CONSTANTS ReceiptJti, ReceiptRequest, ReceiptMetadata, ReceiptKid, ReceiptAuthority, ReceiptExpected,
          ReceiptSkew, ReceiptTtl, ReceiptAge, ReceiptAhead, ReceiptKept, ReceiptRows, ReceiptNow

Receipt == INSTANCE ApprovalReceipt WITH
  Jti <- ReceiptJti, Request <- ReceiptRequest, Metadata <- ReceiptMetadata, Kid <- ReceiptKid,
  Authority <- ReceiptAuthority, Expected <- ReceiptExpected, MaxSkew <- ReceiptSkew, Ttl <- ReceiptTtl,
  Age <- ReceiptAge, Ahead <- ReceiptAhead, Kept <- ReceiptKept, MaxRows <- ReceiptRows, MaxNow <- ReceiptNow,
  now <- v1, kids <- v2, revision <- v3, receipts <- v4, made <- v5, rows <- v6, accepted <- v7

\* For the runs: two commands, of one second or of two.
CONSTANTS DbaCommand, DbaRow, DbaNow, DbaWrites

Dba == INSTANCE DbaCommands WITH
  Command <- DbaCommand, Row <- DbaRow, MaxNow <- DbaNow, MaxWrites <- DbaWrites,
  now <- v1, rows <- v2, file <- v3, cmd <- v4, writes <- v5

\* For the runs: three commands in one workspace.
CONSTANTS LocalCommand, LocalWorkspace, LocalSmokes

Local == INSTANCE LocalTest WITH
  Command <- LocalCommand, Workspace <- LocalWorkspace, MaxSmokes <- LocalSmokes, made <- v1, up <- v2, cmd <- v3

\* For the runs: two runs, of an environment with two clients, of one that has
\* another secret and other URLs, and of two that end at once.
Client2(id, kind, redirects, secret) ==
  [id |-> id, kind |-> kind, redirects |-> redirects, defaults |-> <<"u">>, logout |-> <<>>, secret |-> secret]
Environment(entries, urls, confidential, disabled) ==
  [entries |-> entries, urls |-> urls, theme |-> urls, confidential |-> confidential, disabled |-> disabled]
OtherWeb == <<Client2("web", "web", <<"v">>, 2)>>
Environments ==
  {Environment(<<Client2("web", "web", <<>>, 1), Client2("spa", "spa", <<>>, 2)>>, 1, FALSE, FALSE),
   Environment(OtherWeb, 2, FALSE, FALSE), Environment(OtherWeb, 3, TRUE, FALSE), Environment(OtherWeb, 3, FALSE, TRUE)}

CONSTANTS StackRun, StackEnv, StackClient, StackEdits, StackFaults

Stack == INSTANCE IdStack WITH
  Run <- StackRun, Env <- StackEnv, ClientId <- StackClient, MaxEdits <- StackEdits, MaxFaults <- StackFaults,
  realm <- v1, clients <- v2, tenant <- v3, run <- v4, slip <- v5, other <- v6, edits <- v7, faults <- v8

\* For the runs: two clients that make two calls: calls that only read, calls of each kind of
\* refusal, and calls that change something, of which two go deep.
ToolCall(tool, arg, confirmed) ==
  [tool |-> tool, arg |-> arg, changes |-> confirmed, deep |-> FALSE, dry |-> FALSE, flags |-> {},
   confirmed |-> confirmed, level |-> "none", auto |-> FALSE]
DataMigration(confirmed) ==
  [ToolCall("intdata_cli", "migrate data", confirmed) EXCEPT !.changes = TRUE, !.deep = TRUE]

ToolRequests ==
  {ToolCall("openspec_list", "none", FALSE), DataMigration(FALSE), DataMigration(TRUE),
   [ToolCall("openspec_validate", "none", FALSE) EXCEPT !.level = "delta"],
   [ToolCall("openspec_new", "none", TRUE) EXCEPT !.level = "delta"], ToolCall("openspec_new", "none", TRUE),
   ToolCall("host_preflight", "none", FALSE), ToolCall("host_verify", "none", FALSE),
   ToolCall("openspec_exec_mutate", "list", TRUE), ToolCall("intdata_vault_sanitize", "none", TRUE),
   [ToolCall("intdata_vault_sanitize", "none", FALSE) EXCEPT !.dry = TRUE, !.flags = {"--apply"}, !.changes = TRUE],
   [ToolCall("ssh_execute", "none", TRUE) EXCEPT !.deep = TRUE, !.auto = TRUE]}

CONSTANTS CallsServer, CallsRequests, CallsMax

Calls == INSTANCE ToolCalls WITH
  Server <- CallsServer, Requests <- CallsRequests, MaxCalls <- CallsMax,
  calls <- v1, job <- v2, answer <- v3, change <- v4

\* For the runs: two items of the memory that have one id, in two searches at
\* a time.
CONSTANTS AppsItem, AppsId(_), AppsThread, AppsChanges, AppsCalls
OneId(i) == "a"

Apps == INSTANCE AppsAdapter WITH
  Item <- AppsItem, IdOf <- AppsId, Thread <- AppsThread, MaxChanges <- AppsChanges, MaxCalls <- AppsCalls,
  runtime <- v1, memory <- v2, cache <- v3, req <- v4, listed <- v5, shown <- v6, calls <- v7, crossed <- v8

\* For the runs: two processes that import two files.
CONSTANTS ImportFiles, ImportProc, ImportLimits, ImportNoLimit, ImportEdits, ImportCalls

Import == INSTANCE MemoryImport WITH
  NFiles <- ImportFiles, Proc <- ImportProc, Limits <- ImportLimits, NoLimit <- ImportNoLimit,
  MaxEdits <- ImportEdits, MaxCalls <- ImportCalls,
  text <- v1, stored <- v2, disk <- v3, mem <- v4, pc <- v5, items <- v6, done <- v7, edits <- v8,
  calls <- v9, redo <- v10, starved <- v11, tmp <- v12

\* For the runs: three discussions in two categories, on pages of one.
CategoryOfThree(d) == IF d = 3 THEN "releases" ELSE "ideas"
TwoCategories == <<"ideas", "releases">>

CONSTANTS MirrorDiscussion, MirrorCategories, MirrorCategoryOf(_), MirrorAll, MirrorPage, MirrorTouches, MirrorRuns

Mirror == INSTANCE DiscussionMirror WITH
  Discussion <- MirrorDiscussion, Categories <- MirrorCategories, CategoryOf <- MirrorCategoryOf, All <- MirrorAll,
  PageSize <- MirrorPage, MaxTouches <- MirrorTouches, MaxRuns <- MirrorRuns,
  updated <- v1, open <- v2, ghost <- v3, files <- v4, pc <- v5, at <- v6, cursor <- v7, read <- v8,
  touches <- v9, runs <- v10, missed <- v11

\* For the runs: three commands, while other programs write twice.
SecretPlaces == ("s" :> "codex") @@ ("rclone.conf" :> "cloud") @@ ("c" :> "cloud") @@ ("o" :> "openclaw")

CONSTANTS RecoveryFile, RecoveryPlace, RecoveryConfig, RecoveryWrites, RecoveryRuns

Recovery == INSTANCE RecoveryBundle WITH
  File <- RecoveryFile, Place <- RecoveryPlace, Config <- RecoveryConfig, MaxWrites <- RecoveryWrites,
  MaxRuns <- RecoveryRuns,
  live <- v1, bundle <- v2, pc <- v3, temp <- v4, todo <- v5, writes <- v6, runs <- v7, before <- v8,
  crossed <- v9, torn <- v10, exported <- v11, cloud <- v12

\* For the runs: two redeploys of two services, of which the first has a URL:
\* a host with a compose project, one with units, one whose units are left to the
\* other script, one with nothing but the fallback, and one on another branch,
\* where log-scan.py may not be run.
Host(branch, compose, units, runnable, skip) ==
  [branch |-> branch, configured |-> FALSE, compose |-> compose, units |-> units, runnable |-> runnable,
   skip |-> skip, scanner |-> branch = "dev", urls |-> {"a"}]
FiveHosts ==
  {Host("dev", TRUE, FALSE, FALSE, FALSE), Host("dev", FALSE, TRUE, TRUE, FALSE), Host("dev", FALSE, TRUE, TRUE, TRUE),
   Host("dev", FALSE, FALSE, TRUE, FALSE), Host("main", FALSE, FALSE, FALSE, FALSE)}
TwoServices == <<"a", "b">>

CONSTANTS DeployProc, DeployUnits, DeployHosts, DeployDir, DeploySource, DeployFaults

Deploy == INSTANCE Redeploy WITH
  Proc <- DeployProc, Units <- DeployUnits, Hosts <- DeployHosts, Dir <- DeployDir,
  MaxSource <- DeploySource, MaxFaults <- DeployFaults,
  host <- v1, source <- v2, image <- v3, up <- v4, past <- v5, dir <- v6, proc <- v7, faults <- v8

\* Files that are as published, or of which one has another text that the cases
\* accept (2), or not (3), or is gone; each manifest has the digests of the
\* files as they are, or is as published.
Leaves == {"schema", "ppaSchema", "receiptSchema", "profile", "uriVectors", "ppaVectors", "fixtures", "terminal", "receipt"}
Gone == [text |-> 0, pins |-> <<>>]
Corpus(text, old) ==
  LET Leaf(f) == IF f = text[1] /\ text[2] = 0 THEN Gone
                 ELSE [text |-> IF f = text[1] THEN text[2] ELSE 1, pins |-> <<>>]
      Over(below, m, S) ==  \* below, with manifest m of the files S
        (m :> IF m \in DOMAIN old THEN old[m] ELSE [Leaf(m) EXCEPT !.pins = [f \in S |-> below[f]]]) @@ below
      c1 == Over([f \in Leaves |-> Leaf(f)], "receiptVectors", {"profile", "uriVectors"})
      c2 == Over(c1, "ppaDigests", {"ppaVectors", "ppaSchema"})
      c3 == Over(c2, "terminalDigests", {"profile", "uriVectors", "ppaVectors", "ppaSchema"})
      c4 == Over(c3, "receiptDigests", {"profile", "uriVectors", "receiptVectors", "receipt", "receiptSchema"})
      c5 == Over(c4, "vectors", {"ppaVectors", "uriVectors", "receiptVectors", "terminalDigests", "receiptDigests"})
      c6 == Over(c5, "schemaSet", {"schema", "ppaSchema", "receiptSchema", "profile", "uriVectors", "vectors"})
  IN Over(c6, "digests", {"receiptDigests", "terminalDigests", "schemaSet"})
AsWritten == Corpus(<<"profile", 1>>, <<>>)
Kept(S) == [m \in S |-> AsWritten[m]]
Answers(s, t) == \A f \in DOMAIN t : t[f] \in {1, 2}

Variations ==
  {"schema", "ppaSchema", "receipt", "terminal", "uriVectors", "fixtures"} \X {2}
    \cup {<<"profile", 1>>, <<"schema", 3>>, <<"uriVectors", 3>>, <<"ppaSchema", 0>>, <<"receipt", 0>>}
Variants == {Corpus(t, Kept(S)) : t \in Variations, S \in {{}, {"digests"}, {"vectors"}, DOMAIN AsWritten \ Leaves}}

CONSTANTS SuitePublished, SuiteCorpora, SuiteUnread, SuiteAnswered(_, _), SuiteChanges

Suite == INSTANCE ConformanceSuite WITH
  Published <- SuitePublished, Corpora <- SuiteCorpora, Unread <- SuiteUnread, Answered <- SuiteAnswered,
  MaxChanges <- SuiteChanges,
  files <- v1, script <- v2, at <- v3, mem <- v4, verdict <- v5, touched <- v6, changes <- v7

\* For the run: the pairs of processes, calls, commands and the like are the same
\* two model values, whose order matters to none of the programs.
AnyOfTwo == Permutations(DbaCommand)

-----------------------------------------------------------------------------
\* What is assumed of the constants.
ASSUME LegacyAssumption == Legacy!Assumed
ASSUME VaultAssumption == Vault!Assumed
ASSUME NotesAssumption == Obsidian!Assumed
ASSUME GoogleAssumption == Google!Assumed
ASSUME MirrorAssumption == Mirror!Assumed
ASSUME GrantAssumption == Grant!Assumed
ASSUME ReceiptAssumption == Receipt!Assumed
ASSUME AppsAssumption == Apps!Assumed
ASSUME ImportAssumption == Import!Assumed
ASSUME SuiteAssumption == Suite!Assumed
ASSUME CallsAssumption == Calls!Assumed
ASSUME StackAssumption == Stack!Assumed
ASSUME DeployAssumption == Deploy!Assumed
ASSUME RecoveryAssumption == Recovery!Assumed

-----------------------------------------------------------------------------
Init ==
  \/ program = "vault" /\ Vault!Init
  \/ program = "issues" /\ Issues!Init /\ None16
  \/ program = "legacy" /\ Legacy!Init /\ None13
  \/ program = "obsidian" /\ Obsidian!Init /\ None13
  \/ program = "google" /\ Google!Init /\ None12
  \/ program = "grant" /\ Grant!Init /\ None8
  \/ program = "bizon" /\ Bizon!Init /\ None12
  \/ program = "firefox" /\ Firefox!Init /\ None6
  \/ program = "getcourse" /\ Getcourse!Init /\ None13
  \/ program = "keys" /\ Keys!Init /\ None4
  \/ program = "receipt" /\ Receipt!Init /\ None8
  \/ program = "dba" /\ Dba!Init /\ None6
  \/ program = "local" /\ Local!Init /\ None4
  \/ program = "stack" /\ Stack!Init /\ None9
  \/ program = "calls" /\ Calls!Init /\ None5
  \/ program = "apps" /\ Apps!Init /\ None9
  \/ program = "import" /\ Import!Init /\ None13
  \/ program = "mirror" /\ Mirror!Init /\ None12
  \/ program = "recovery" /\ Recovery!Init /\ None13
  \/ program = "redeploy" /\ Deploy!Init /\ None9
  \/ program = "suite" /\ Suite!Init /\ None8

Next ==
  /\ UNCHANGED program
  /\ \/ program = "vault" /\ Vault!Next
     \/ program = "issues" /\ Issues!Next /\ UNCHANGED from16
     \/ program = "legacy" /\ Legacy!Next /\ UNCHANGED from13
     \/ program = "obsidian" /\ Obsidian!Next /\ UNCHANGED from13
     \/ program = "google" /\ Google!Next /\ UNCHANGED from12
     \/ program = "grant" /\ Grant!Next /\ UNCHANGED from8
     \/ program = "bizon" /\ Bizon!Next /\ UNCHANGED from12
     \/ program = "firefox" /\ Firefox!Next /\ UNCHANGED from6
     \/ program = "getcourse" /\ Getcourse!Next /\ UNCHANGED from13
     \/ program = "keys" /\ Keys!Next /\ UNCHANGED from4
     \/ program = "receipt" /\ Receipt!Next /\ UNCHANGED from8
     \/ program = "dba" /\ Dba!Next /\ UNCHANGED from6
     \/ program = "local" /\ Local!Next /\ UNCHANGED from4
     \/ program = "stack" /\ Stack!Next /\ UNCHANGED from9
     \/ program = "calls" /\ Calls!Next /\ UNCHANGED from5
     \/ program = "apps" /\ Apps!Next /\ UNCHANGED from9
     \/ program = "import" /\ Import!Next /\ UNCHANGED from13
     \/ program = "mirror" /\ Mirror!Next /\ UNCHANGED from12
     \/ program = "recovery" /\ Recovery!Next /\ UNCHANGED from13
     \/ program = "redeploy" /\ Deploy!Next /\ UNCHANGED from9
     \/ program = "suite" /\ Suite!Next /\ UNCHANGED from8

Spec == Init /\ [][Next]_vars

-----------------------------------------------------------------------------
\* merge_move_dir and the collector lose no file, and two complete runs of the
\* sanitizer leave nothing that the profile does not allow.
VaultKept == program = "vault" => Vault!NewestKept /\ Vault!SecondRunClean

\* The mirrors of delivery: the import and the sync of issues lose no draft of
\* offline_queue and import none twice, but in the listed ways; a file of
\* discussions is what the category lists, but for what was touched meanwhile.
MirrorsAccounted ==
  /\ program = "issues" => Issues!DraftsLost /\ Issues!RepeatsExplained
  /\ program = "mirror" => Mirror!MirrorExact

\* The commands of dba.  The import of the legacy database stops only where a
\* slug or a user of the target stands in its way, a slug stays with one client,
\* and what it committed holds every row kept for a mail, with the specialist its
\* manager became.  A copy, clone or restore writes what it read, and empties
\* what it was told to, unless another command had its files.  A runtime of
\* local-test that is up belongs to a command, or was left on purpose.
DbaExact ==
  /\ program = "legacy" => Legacy!StopsExplained /\ Legacy!SlugsUnique /\ Legacy!Imported
  /\ program = "dba" => Dba!CopiesExact
  /\ program = "local" => Local!RuntimesOwned

\* Overlapping calls of the memory server lose no text, and links follow a note
\* that moves, but in the listed ways.
NotesKept == program = "obsidian" => Obsidian!TextsKept /\ Obsidian!LinksFollow

\* The helper does not lose the last valid token, and the consumers of a
\* machine agree on it, but in the listed ways.
CredentialsKept == program = "google" => Google!TokenKept /\ Google!ConsumersAgree

\* The contracts.  execute: a revocation holds from the time the connector's
\* snapshot may be old.  validate_keyset_semantics: a key that was revoked
\* verifies nothing any more, and consumers that use one set came to it in one
\* way.  evaluate: a receipt and a request are accepted once, whatever was
\* purged.  run: what the conformance suite says of the files is true of them, if
\* none of them changed meanwhile.
ContractsHold ==
  /\ program = "grant" => Grant!RevocationTakesHold
  /\ program = "keys" => Keys!RevokedForEver /\ Keys!OneHistory
  /\ program = "receipt" => Receipt!SingleUse
  /\ program = "suite" => Suite!VerdictVouches

\* The clients of services: a session of Bizon365 that ran out is mended once,
\* and in no other way; an export of GetCourse that was started is known to
\* somebody, or its call failed.
ServicesAccounted ==
  /\ program = "bizon" => Bizon!SessionsMended
  /\ program = "getcourse" => Getcourse!ExportsAccounted

\* Two launchers of a profile do not leave two servers, but in the listed ways.
OneServer == program = "firefox" => Firefox!OneServer

\* The deployments: a run of the identity stack's bootstrap that ends with 0 left
\* what its environment says, and took no change of anybody else's back, but in
\* the listed ways; the verdict of a redeploy is that of its steps, its logs and
\* the revisions it started, but in the listed ways.
DeploymentsTrue ==
  /\ program = "stack" => Stack!StackAsEnv /\ Stack!EditsKept
  /\ program = "redeploy" => Deploy!VerdictTrue

\* A tool call that was answered ok is over and did its work, what changes
\* something was confirmed, and a new change does not keep the README its
\* profile forbids.
CallsHonest == program = "calls" => Calls!CallsHonest /\ Calls!ScaffoldRemoved

\* What a search has listed, fetch finds, and no older version of it, unless two
\* searches put its id at a time.
FetchFaithful == program = "apps" => Apps!FetchFaithful

\* The imports of files mark what was stored, have it stored again only in the
\* listed ways, and come to every file.
ImportsAccounted == program = "import" => Import!ImportsAccounted

\* A recovery bundle has what was there when its export began, and its import
\* restores that and changes nothing else, but for what others wrote meanwhile.
BundleFaithful == program = "recovery" => Recovery!BundleFaithful
=============================================================================
