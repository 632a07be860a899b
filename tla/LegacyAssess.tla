----------------------------- MODULE LegacyAssess -----------------------------
(***************************************************************************)
(* dba/lib/dba.py: project-migrate punktb-legacy-assess.  The managers and *)
(* clients of the legacy database become specialists, clients and results  *)
(* of a target, in one transaction there.  Rows of one mail are merged,    *)
(* legacy ids become slugs, and the command is run again and again while   *)
(* both databases are in use.                                              *)
(*                                                                         *)
(* A row of auth stands for the auth.users and the auth.identities row of  *)
(* a user.  Mails in auth are unique, and so are the keys of the tables: a *)
(* statement that would break one fails.  Mails are normalized; rows       *)
(* without one are not exported.                                           *)
(***************************************************************************)
EXTENDS Naturals, Sequences, FiniteSets, FiniteSetsExt

CONSTANTS
  Mail,        \* normalized mails
  Sources,     \* the contents that the legacy database may have
  NoSlug,      \* the slug of a client who enrolled in the target (no legacy id)
  Nobody,      \* NULL in specialist_id (no user)
  MaxRuns,     \* bound on the runs of the command
  MaxChanges,  \* bound on the changes of the legacy database
  MaxUsers     \* bound on what users of the target do

\* A legacy database: managers are [id, mail], clients are [id, mail, date,
\* manager, results], where results is a sequence.
Nothing == [managers |-> {}, clients |-> {}]

User == {"mail", "app"} \X Mail
Minted(m)   == <<"mail", m>>   \* pg_temp._dba_uuid
SignedUp(m) == <<"app", m>>

Empty  == [auth |-> {}, spec |-> {}, client |-> {}, result |-> {}]
NoStage == [spec |-> {}, client |-> {}]

VARIABLES
  src,      \* the legacy database
  changes,  \* changes of it
  export,   \* legacy_managers.jsonl and legacy_clients.jsonl
  target,   \* the target, as committed
  users,    \* things its users did
  pc,       \* what the command does next
  apply,    \* --apply, not --dry-run
  limit,    \* --limit, 0 if there is none
  runs,     \* runs of the command
  stage,    \* _dba_punktb_managers and _dba_punktb_clients
  new,      \* rows the transaction has written
  loaded    \* history: the export that was committed last

files == <<export, stage, new>>
vars  == <<src, changes, files, target, users, pc, apply, limit, runs, loaded>>

Init ==
  /\ src \in Sources
  /\ changes = 0
  /\ export = Nothing
  /\ target = Empty
  /\ users = 0
  /\ pc = "idle"
  /\ apply = FALSE
  /\ limit = 0
  /\ runs = 0
  /\ stage = NoStage
  /\ new = Empty
  /\ loaded = Nothing

-----------------------------------------------------------------------------
(* The databases in use *)

SourceChanges ==
  /\ changes < MaxChanges
  /\ changes' = changes + 1
  /\ src' \in Sources \ {src}
  /\ UNCHANGED <<files, target, users, pc, apply, limit, runs, loaded>>

\* A user signs up with a mail that no user has, nor one of the transaction.
SignUp(m) ==
  /\ users < MaxUsers
  /\ users' = users + 1
  /\ m \notin {x.mail : x \in target.auth \cup new.auth}
  /\ target' = [target EXCEPT !.auth = @ \cup {[uid |-> SignedUp(m), mail |-> m]}]
  /\ UNCHANGED <<src, changes, files, pc, apply, limit, runs, loaded>>

\* A user becomes a client, unless the transaction holds that row.
Enrol(x) ==
  /\ users < MaxUsers
  /\ users' = users + 1
  /\ x.uid \notin {y.uid : y \in target.client \cup new.client}
  /\ target' = [target EXCEPT !.client =
       @ \cup {[uid |-> x.uid, mail |-> x.mail, slug |-> NoSlug, spec |-> Nobody]}]
  /\ UNCHANGED <<src, changes, files, pc, apply, limit, runs, loaded>>

-----------------------------------------------------------------------------
(* The command: export *)

Start ==
  /\ pc = "idle"
  /\ runs < MaxRuns
  /\ runs' = runs + 1
  /\ apply' \in BOOLEAN
  /\ limit' \in {0, 1}
  /\ pc' = "clients"
  /\ UNCHANGED <<src, changes, files, target, users, loaded>>

\* --limit takes the clients with the lowest ids.
Limited(rows) ==
  {x \in rows : limit = 0 \/ Cardinality({y \in rows : y.id < x.id}) < limit}

ExportClients ==
  /\ pc = "clients"
  /\ export' = [export EXCEPT !.clients = Limited(src.clients)]
  /\ pc' = "managers"
  /\ UNCHANGED <<src, changes, target, users, apply, limit, runs, stage, new, loaded>>

ExportManagers ==
  /\ pc = "managers"
  /\ export' = [export EXCEPT !.managers = src.managers]
  /\ pc' = "stage managers"
  /\ UNCHANGED <<src, changes, target, users, apply, limit, runs, stage, new, loaded>>

-----------------------------------------------------------------------------
(* The transaction *)

\* The row that stands for its mail: the last manager,
KeptManagers(rows) == {x \in rows : \A y \in rows : y.mail = x.mail => y.id <= x.id}

\* Mutant: the first client, not the last.
KeptClients_First(rows) ==
  {x \in rows : \A y \in rows : y.mail = x.mail =>
     \/ x.date < y.date
     \/ x.date = y.date /\ x.id <= y.id}

\* and the client with the latest date.
KeptClients(rows) ==
  {x \in rows : \A y \in rows : y.mail = x.mail =>
     \/ y.date < x.date
     \/ y.date = x.date /\ y.id <= x.id}

Named(rows, m) == {x.uid : x \in {x \in rows : x.mail = m}}

\* COALESCE(row of the table, auth user, an id made from the mail).
UserIds(rows, m) ==
  IF Named(rows, m) # {} THEN Named(rows, m)
  ELSE IF Named(target.auth, m) # {} THEN Named(target.auth, m)
  ELSE {Minted(m)}

OnePerMail(rows) == \A x, y \in rows : x.mail = y.mail => x = y
OnePerKey(rows)  == \A x, y \in rows : x.uid = y.uid => x = y

\* Duplicate mails in the target stop the run.
StageManagers ==
  /\ pc = "stage managers"
  /\ OnePerMail(target.client) /\ OnePerMail(target.spec)
  /\ stage' = [stage EXCEPT !.spec =
       UNION {{[uid |-> u, mail |-> x.mail, slug |-> x.id] : u \in UserIds(target.spec, x.mail)} :
                x \in KeptManagers(export.managers)}]
  /\ pc' = "stage clients"
  /\ UNCHANGED <<src, changes, export, target, users, apply, limit, runs, new, loaded>>

\* The staged specialists whose kept row is manager i; NULL if it was merged
\* into another row of its mail.
SpecialistIds(i) ==
  LET found == {x.uid : x \in {x \in stage.spec : x.slug = i}}
  IN  IF found = {} THEN {Nobody} ELSE found

StageClients ==
  /\ pc = "stage clients"
  /\ stage' = [stage EXCEPT !.client =
       UNION {{[uid |-> u, mail |-> x.mail, slug |-> x.id, manager |-> x.manager] :
                 u \in UserIds(target.client, x.mail)} : x \in KeptClients(export.clients)}]
  /\ pc' = "slugs"
  /\ UNCHANGED <<src, changes, export, target, users, apply, limit, runs, new, loaded>>

\* Mutant: the slugs of clients are not compared.
CheckSlugs_Specialists ==
  /\ pc = "slugs"
  /\ \A x \in stage.spec, y \in target.spec : x.slug = y.slug => x.mail = y.mail
  /\ pc' = "users"
  /\ UNCHANGED <<src, changes, files, target, users, apply, limit, runs, loaded>>

\* A slug that another mail has stops the run.
CheckSlugs ==
  /\ pc = "slugs"
  /\ \A x \in stage.spec, y \in target.spec : x.slug = y.slug => x.mail = y.mail
  /\ \A x \in stage.client, y \in target.client : x.slug = y.slug => x.mail = y.mail
  /\ pc' = "users"
  /\ UNCHANGED <<src, changes, files, target, users, apply, limit, runs, loaded>>

\* ON CONFLICT DO UPDATE: rows replace those of the same key.
Upserted(rows, by) == {x \in rows : x.uid \notin {y.uid : y \in by}} \cup by

StagedUsers == {[uid |-> x.uid, mail |-> x.mail] : x \in stage.spec \cup stage.client}

\* A mail that another user has is an error, and so is a key that is twice in
\* the rows of one insert.
UsersFit ==
  LET all == Upserted(target.auth, StagedUsers)
  IN  OnePerMail(all) /\ OnePerKey(all)

\* auth.users and auth.identities
WriteUsers ==
  /\ pc = "users"
  /\ UsersFit
  /\ new' = [new EXCEPT !.auth = StagedUsers]
  /\ pc' = "specialists"
  /\ UNCHANGED <<src, changes, export, target, users, apply, limit, runs, stage, loaded>>

WriteSpecialists ==
  /\ pc = "specialists"
  /\ OnePerKey(stage.spec)
  /\ new' = [new EXCEPT !.spec = stage.spec]
  /\ pc' = "write clients"
  /\ UNCHANGED <<src, changes, export, target, users, apply, limit, runs, stage, loaded>>

WriteClients ==
  /\ pc = "write clients"
  /\ OnePerKey(stage.client)
  /\ new' = [new EXCEPT !.client =
       UNION {{[uid |-> x.uid, mail |-> x.mail, slug |-> x.slug, spec |-> s] :
                 s \in SpecialistIds(x.manager)} : x \in stage.client}]
  /\ pc' = "results"
  /\ UNCHANGED <<src, changes, export, target, users, apply, limit, runs, stage, loaded>>

\* The results of all rows of a mail, merged ones included.  The id of a
\* result (uid here) is made of the mail, the row, the place in the array and
\* the entry.
StagedResults ==
  UNION {{[uid |-> <<r.mail, r.id, n, r.results[n]>>, client |-> x.uid, spec |-> s] :
            n \in DOMAIN r.results, s \in SpecialistIds(r.manager), x \in {x \in stage.client : x.mail = r.mail}} :
           r \in export.clients}

WriteResults ==
  /\ pc = "results"
  /\ OnePerKey(StagedResults)
  /\ new' = [new EXCEPT !.result = StagedResults]
  /\ pc' = "finish"
  /\ UNCHANGED <<src, changes, export, target, users, apply, limit, runs, stage, loaded>>

\* The next run exports anew.
End ==
  /\ pc' = "idle"
  /\ export' = Nothing
  /\ stage' = NoStage
  /\ new' = Empty
  /\ limit' = 0

Commit ==
  /\ target' = [t \in DOMAIN target |-> Upserted(target[t], new[t])]
  /\ loaded' = export

\* COMMIT or, of a dry run, ROLLBACK.
Finish ==
  /\ pc = "finish"
  /\ End
  /\ \/ apply /\ Commit
     \/ ~apply /\ UNCHANGED <<target, loaded>>
  /\ UNCHANGED <<src, changes, users, apply, runs>>

\* psql fails in the export or in the transaction (a privilege or a
\* diagnostic may be missing), or is killed; the connection may also break
\* when COMMIT has done its work.
Fail ==
  /\ pc # "idle"
  /\ End
  /\ \/ pc = "finish" /\ apply /\ Commit
     \/ UNCHANGED <<target, loaded>>
  /\ UNCHANGED <<src, changes, users, apply, runs>>

Next ==
  \/ SourceChanges
  \/ \E m \in Mail : SignUp(m)
  \/ \E x \in target.auth : Enrol(x)
  \/ Start \/ ExportClients \/ ExportManagers
  \/ StageManagers \/ StageClients \/ CheckSlugs \/ WriteUsers \/ WriteSpecialists
  \/ WriteClients \/ WriteResults \/ Finish
  \/ Fail

Spec == Init /\ [][Next]_vars

-----------------------------------------------------------------------------
\* A run can be stopped by a slug that moved to another mail, or by a user who
\* signed up after the run had made an id for the mail, and by no other
\* conflict: a mail of a specialist who is a client as well, a user who enrols
\* meanwhile or the rows of earlier runs never stop this run or the next.
StopsExplained ==
  /\ OnePerMail(target.client) /\ OnePerMail(target.spec)
  /\ pc = "users" /\ ~UsersFit =>
       \E x \in target.auth, y \in stage.spec \cup stage.client :
         x.mail = y.mail /\ x.uid = SignedUp(y.mail) /\ y.uid = Minted(y.mail)
  /\ pc \in {"specialists", "write clients", "results"} =>
       OnePerKey(stage.spec) /\ OnePerKey(stage.client) /\ OnePerKey(StagedResults)

OneSlug(rows) == \A x, y \in rows : x.slug = y.slug /\ x.slug # NoSlug => x = y

\* A legacy id is the slug of one client and of one specialist, however the
\* legacy rows moved between mails from one run to the next.
SlugsUnique == OneSlug(target.spec) /\ OneSlug(target.client)

\* Whom manager i became: the specialist with its mail, or nobody if another
\* row stands for that mail.
Became(i, managers, specs) ==
  {x.uid : x \in {x \in specs : \E y \in KeptManagers(managers) : y.id = i /\ y.mail = x.mail}}

HasSpecialist(u, i, managers, specs) ==
  LET become == Became(i, managers, specs) IN IF become = {} THEN u = Nobody ELSE u \in become

ManagersIn(managers, specs) ==
  \A m \in {y.mail : y \in managers} :
    \E x \in specs : x.mail = m /\ x.slug = Max({y.id : y \in {y \in managers : y.mail = m}})

ClientsIn(of, specs, clients, results) ==
  \A y \in of.clients : \E x \in clients :
    /\ x.mail = y.mail
    /\ \E z \in of.clients :
         /\ z.mail = y.mail /\ z.date >= y.date /\ z.id = x.slug
         /\ HasSpecialist(x.spec, z.manager, of.managers, specs)
    /\ \A n \in DOMAIN y.results : \E r \in results :
         /\ r.uid = <<y.mail, y.id, n, y.results[n]>> /\ r.client = x.uid
         /\ HasSpecialist(r.spec, y.manager, of.managers, specs)

\* The target holds what the run that was committed last had exported: each
\* mail is one client with the slug of its latest row, and every result of
\* every row of the mail is that client's; failed runs and dry runs leave no
\* trace.  A client keeps its specialist unless the manager it names was
\* merged into another row.
Imported ==
  /\ ManagersIn(loaded.managers, target.spec)
  /\ ClientsIn(loaded, target.spec, target.client, target.result)

-----------------------------------------------------------------------------
\* The inductive invariant.  Rows have a mail and an id of their own;
OneId(rows) == \A x, y \in rows : x.id = y.id => x = y

Rows(of) ==
  /\ IsFiniteSet(of.managers) /\ IsFiniteSet(of.clients) /\ OneId(of.managers) /\ OneId(of.clients)
  /\ \A x \in of.managers : x.id \in Nat /\ x.mail \in Mail
  /\ \A x \in of.clients : x.id \in Nat \ {NoSlug} /\ x.mail \in Mail /\ x.date \in Nat

Assumed == Nobody \notin User /\ \A s \in Sources : Rows(s)

\* the tables and files are there;
Tables ==
  /\ DOMAIN target = {"auth", "spec", "client", "result"} /\ DOMAIN new = DOMAIN target
  /\ DOMAIN stage = {"spec", "client"} /\ DOMAIN export = {"managers", "clients"}
  /\ src \in Sources /\ Rows(export)

\* a mail has one user, and specialists and clients are users;
UserOf(x) == [uid |-> x.uid, mail |-> x.mail]

UsersSound(auth) ==
  /\ \A x \in auth : x = UserOf(x) /\ x.mail \in Mail /\ x.uid \in {Minted(x.mail), SignedUp(x.mail)}
  /\ OnePerMail(auth)

UsersAre(rows, auth) == OnePerKey(rows) /\ \A x \in rows : UserOf(x) \in auth

Accounts == UsersSound(target.auth) /\ UsersAre(target.spec, target.auth) /\ UsersAre(target.client, target.auth)

\* what is staged for a mail is a user, or was none, and stands for the row kept;
StagedOf(x, auth) == x.mail \in Mail /\ (x.uid = Minted(x.mail) \/ UserOf(x) \in auth)

ManagersStaged(rows, managers) ==
  /\ OnePerMail(rows)
  /\ \A x \in rows : \E k \in KeptManagers(managers) : x.mail = k.mail /\ x.slug = k.id
  /\ \A k \in KeptManagers(managers) : \E x \in rows : x.mail = k.mail /\ x.slug = k.id

ClientsStaged(rows, clients) ==
  /\ OnePerMail(rows)
  /\ \A x \in rows : \E k \in KeptClients(clients) : x.mail = k.mail /\ x.slug = k.id /\ x.manager = k.manager
  /\ \A k \in KeptClients(clients) : \E x \in rows : x.mail = k.mail /\ x.slug = k.id /\ x.manager = k.manager

Exporting == {"idle", "clients", "managers", "stage managers"}

Staged ==
  /\ \A x \in stage.spec \cup stage.client : StagedOf(x, target.auth)
  /\ pc \notin Exporting => ManagersStaged(stage.spec, export.managers)
  /\ pc \notin Exporting \cup {"stage clients"} => ClientsStaged(stage.client, export.clients)

\* its slugs are free;
FreeSlugs(rows, taken) == \A x \in rows, y \in taken : x.slug = y.slug => x.mail = y.mail

Writing == {"users", "specialists", "write clients", "results", "finish"}

Checked == pc \in Writing => FreeSlugs(stage.spec, target.spec) /\ FreeSlugs(stage.client, target.client)

\* and what is written is what is staged.
Clients == UNION {{[uid |-> x.uid, mail |-> x.mail, slug |-> x.slug, spec |-> s] : s \in SpecialistIds(x.manager)} :
                    x \in stage.client}

Written ==
  /\ new.auth = IF pc \in Writing \ {"users"} THEN StagedUsers ELSE {}
  /\ new.auth # {} => OnePerMail(Upserted(target.auth, new.auth))
  /\ new.spec = IF pc \in {"write clients", "results", "finish"} THEN stage.spec ELSE {}
  /\ new.client = IF pc \in {"results", "finish"} THEN Clients ELSE {}
  /\ pc = "finish" => new.result = StagedResults

Safe == Tables /\ Accounts /\ Staged /\ Checked /\ Written /\ SlugsUnique /\ Imported
=============================================================================
