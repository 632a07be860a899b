------------------------------ MODULE DevRefresh ------------------------------
(***************************************************************************)
(* dba/lib/dba.py: project-migrate punktb-prod-dev-refresh.  The three     *)
(* assess tables of production are exported one after the other, each in   *)
(* a snapshot of its own, and replace those of the dev database in one     *)
(* transaction, whose statements see what dev users commit in between.     *)
(*                                                                         *)
(* Users are matched by their mail: a user of dev is one that production   *)
(* numbered, one whose id was made from a mail, or one that signed up on   *)
(* dev.  A row of auth stands for the auth.users and the auth.identities   *)
(* row of a user, which are written together.  The auth.users email is     *)
(* unique and primary keys are enforced: a statement that would break      *)
(* either fails.                                                           *)
(***************************************************************************)
EXTENDS Naturals, FiniteSets, TLC

CONSTANTS
  Specialist, Client, Result,  \* ids in production
  Mail,                        \* normalized mails
  NoMail,                      \* NULL, or blank
  Nobody,                      \* NULL in specialist_id
  MaxRuns,                     \* bound on the runs of the command
  MaxChanges,                  \* bound on the changes in production
  MaxUsers                     \* bound on what dev users commit

ASSUME NoMailAssumption == NoMail \notin Mail /\ Nobody \notin Specialist
ASSUME BoundAssumption  == MaxRuns \in Nat /\ MaxChanges \in Nat /\ MaxUsers \in Nat

User == ({"prod"} \X (Specialist \cup Client)) \cup ({"mail", "dev"} \X Mail)
Prod(i)   == <<"prod", i>>
Minted(m) == <<"mail", m>>   \* pg_temp._dba_uuid
SignedUp(m) == <<"dev", m>>

Address == Mail \cup {NoMail}

\* Rows of the export and of production.
SourceTables ==
  [spec   : SUBSET [id : Specialist, mail : Address],
   client : SUBSET [id : Client, mail : Address, spec : Specialist \cup {Nobody}],
   result : SUBSET [id : Result, client : Client, spec : Specialist \cup {Nobody}]]

\* Rows of dev.  The row of a staged specialist or client also says which row
\* of the export it was made from; dev does not keep that.
AuthRow   == [uid : User, mail : Mail]
SpecRow   == [uid : User, mail : Address]
ClientRow == [uid : User, mail : Address, spec : User \cup {Nobody}]
ResultRow == [id : Result, client : User, spec : User \cup {Nobody}]

Tables == [auth : SUBSET AuthRow, spec : SUBSET SpecRow,
           client : SUBSET ClientRow, result : SUBSET ResultRow]

StageSpecRow   == [from : Specialist, uid : User, mail : Address]
StageClientRow == [from : Client, uid : User, mail : Address, spec : User \cup {Nobody}]

Stages == [spec : SUBSET StageSpecRow, client : SUBSET StageClientRow]
Users  == [spec : SUBSET User, client : SUBSET User]
Marks  == [run : Users, load : Users]

NoSource == [spec |-> {}, client |-> {}, result |-> {}]
NoTables == [auth |-> {}, spec |-> {}, client |-> {}, result |-> {}]
NoStage  == [spec |-> {}, client |-> {}]
NoUsers  == [spec |-> {}, client |-> {}]

VARIABLES
  src,      \* production
  changes,  \* changes made in production
  export,   \* the jsonl files
  dev,      \* the dev database, as committed
  users,    \* things dev users did
  phase,    \* what the command does next
  apply,    \* --apply, not --dry-run
  runs,     \* runs of the command
  stage,    \* _stage_refresh_specialists, _stage_refresh_clients
  gone,     \* rows the transaction has deleted
  new,      \* rows the transaction has written
  report,   \* how the last run ended
  loaded,   \* history: the export that was committed last
  since     \* history: whose rows dev users added after the delete of the run
            \* that goes on, and after that of the run committed last

work == <<export, stage, gone, new>>
refreshVars == <<src, changes, export, dev, users, phase, apply, runs, stage, gone, new,
                 report, loaded, since>>

-----------------------------------------------------------------------------
(* Production *)

Has(rows, i) == \E r \in rows : r.id = i

\* Every reference of the tables is to a row, and ids are unique.
Consistent(t) ==
  /\ \A x, y \in t.spec : x.id = y.id => x = y
  /\ \A x, y \in t.client : x.id = y.id => x = y
  /\ \A x, y \in t.result : x.id = y.id => x = y
  /\ \A x \in t.client : x.spec = Nobody \/ Has(t.spec, x.spec)
  /\ \A x \in t.result : Has(t.client, x.client) /\ (x.spec = Nobody \/ Has(t.spec, x.spec))

\* A row is added, a mail is changed, two clients exchange their mails, a
\* result is deleted.
SourceChanges ==
  /\ changes < MaxChanges
  /\ changes' = changes + 1
  /\ \/ \E s \in Specialist, m \in Address :
          src' = [src EXCEPT !.spec = @ \cup {[id |-> s, mail |-> m]}]
     \/ \E c \in Client, m \in Address, s \in Specialist \cup {Nobody} :
          src' = [src EXCEPT !.client = @ \cup {[id |-> c, mail |-> m, spec |-> s]}]
     \/ \E r \in Result, c \in Client, s \in Specialist \cup {Nobody} :
          src' = [src EXCEPT !.result = @ \cup {[id |-> r, client |-> c, spec |-> s]}]
     \/ \E x \in src.client, m \in Address :
          src' = [src EXCEPT !.client = (@ \ {x}) \cup {[x EXCEPT !.mail = m]}]
     \/ \E x, y \in src.client :
          src' = [src EXCEPT !.client =
                    (@ \ {x, y}) \cup {[x EXCEPT !.mail = y.mail], [y EXCEPT !.mail = x.mail]}]
     \/ \E x \in src.result :
          src' = [src EXCEPT !.result = @ \ {x}]
  /\ Consistent(src')
  /\ UNCHANGED <<work, dev, users, phase, apply, runs, report, loaded, since>>

-----------------------------------------------------------------------------
(* Users of dev *)

\* A user signs up with a mail that no user has, nor one of the transaction.
SignUp(m) ==
  /\ users < MaxUsers
  /\ users' = users + 1
  /\ m \notin {x.mail : x \in dev.auth \cup new.auth}
  /\ dev' = [dev EXCEPT !.auth = @ \cup {[uid |-> SignedUp(m), mail |-> m]}]
  /\ UNCHANGED <<src, changes, work, phase, apply, runs, report, loaded, since>>

\* A user becomes a client or a specialist, unless the transaction holds that
\* row.
Enrol(x) ==
  /\ users < MaxUsers
  /\ users' = users + 1
  /\ \/ /\ x.uid \notin {y.uid : y \in dev.client \cup new.client}
        /\ dev' = [dev EXCEPT !.client = @ \cup {[uid |-> x.uid, mail |-> x.mail, spec |-> Nobody]}]
        /\ since' = [s \in DOMAIN since |-> [since[s] EXCEPT !.client = @ \cup {x.uid}]]
     \/ /\ x.uid \notin {y.uid : y \in dev.spec \cup new.spec}
        /\ dev' = [dev EXCEPT !.spec = @ \cup {[uid |-> x.uid, mail |-> x.mail]}]
        /\ since' = [s \in DOMAIN since |-> [since[s] EXCEPT !.spec = @ \cup {x.uid}]]
  /\ UNCHANGED <<src, changes, work, phase, apply, runs, report, loaded>>

-----------------------------------------------------------------------------
(* The command: export *)

Start ==
  /\ phase = "idle"
  /\ runs < MaxRuns
  /\ runs' = runs + 1
  /\ apply' \in BOOLEAN
  /\ report' = "none"
  /\ phase' = "specialists"
  /\ UNCHANGED <<src, changes, work, dev, users, loaded, since>>

\* The lines of source_export.sql, in the order of the tables.
ExportSpecialists ==
  /\ phase = "specialists"
  /\ export' = [export EXCEPT !.spec = src.spec]
  /\ phase' = "clients"
  /\ UNCHANGED <<src, changes, dev, users, apply, runs, stage, gone, new, report, loaded,
                 since>>

ExportClients ==
  /\ phase = "clients"
  /\ export' = [export EXCEPT !.client = src.client]
  /\ phase' = "results"
  /\ UNCHANGED <<src, changes, dev, users, apply, runs, stage, gone, new, report, loaded,
                 since>>

ExportResults ==
  /\ phase = "results"
  /\ export' = [export EXCEPT !.result = src.result]
  /\ phase' = "stage specialists"
  /\ UNCHANGED <<src, changes, dev, users, apply, runs, stage, gone, new, report, loaded,
                 since>>

-----------------------------------------------------------------------------
(* The transaction *)

Named(rows, m) == {x.uid : x \in {x \in rows : x.mail = m}}

\* COALESCE(existing row, existing auth user, an id made from the mail, the id
\* in production), one for every row that matches.
UserIds(rows, m, i) ==
  IF m = NoMail THEN {Prod(i)}
  ELSE IF Named(rows, m) # {} THEN Named(rows, m)
  ELSE IF Named(dev.auth, m) # {} THEN Named(dev.auth, m)
  ELSE {Minted(m)}

StagedSpecialists ==
  UNION {{[from |-> x.id, uid |-> u, mail |-> x.mail] : u \in UserIds(dev.spec, x.mail, x.id)} :
           x \in export.spec}

StageSpecialists ==
  /\ phase = "stage specialists"
  /\ stage' = [stage EXCEPT !.spec = StagedSpecialists]
  /\ phase' = "stage clients"
  /\ UNCHANGED <<src, changes, export, dev, users, apply, runs, gone, new, report, loaded,
                 since>>

\* Mutant: the id of the specialist in production is kept.
SpecialistIds_AsIs(s) == IF s = Nobody THEN {Nobody} ELSE {Prod(s)}

\* specialist_source and specialist_map: the staged specialists that have the
\* mail of specialist s of the export, or NULL.
SpecialistIds(s) ==
  LET found == {x.uid : x \in {x \in stage.spec :
                  /\ x.mail # NoMail
                  /\ \E y \in export.spec : y.id = s /\ y.mail = x.mail}}
  IN  IF found = {} THEN {Nobody} ELSE found

StagedClients ==
  UNION {{[from |-> x.id, uid |-> u, mail |-> x.mail, spec |-> s] :
            u \in UserIds(dev.client, x.mail, x.id), s \in SpecialistIds(x.spec)} :
           x \in export.client}

StageClients ==
  /\ phase = "stage clients"
  /\ stage' = [stage EXCEPT !.client = StagedClients]
  /\ phase' = "auth"
  /\ UNCHANGED <<src, changes, export, dev, users, apply, runs, gone, new, report, loaded,
                 since>>

\* Mutant: clients get no auth user.
StagedAuth_SpecialistsOnly ==
  {[uid |-> x.uid, mail |-> x.mail] : x \in {x \in stage.spec : x.mail # NoMail}}

\* _stage_refresh_auth_users: the mail of a user, that of a client first.
StagedAuth ==
  LET mailed == {x \in stage.client : x.mail # NoMail}
  IN  {[uid |-> x.uid, mail |-> x.mail] : x \in mailed}
        \cup {[uid |-> x.uid, mail |-> x.mail] :
                x \in {x \in stage.spec : x.mail # NoMail /\ x.uid \notin {y.uid : y \in mailed}}}

\* auth.users after the upsert of rows.
Merged(rows) == {x \in dev.auth : x.uid \notin {y.uid : y \in rows}} \cup rows

\* ON CONFLICT (id) DO UPDATE; a mail that another user has is an error.
WriteAuth ==
  /\ phase = "auth"
  /\ \A x, y \in Merged(StagedAuth) : x.mail = y.mail \/ x.uid = y.uid => x = y
  /\ new' = [new EXCEPT !.auth = StagedAuth]
  /\ phase' = "delete"
  /\ UNCHANGED <<src, changes, export, dev, users, apply, runs, stage, gone, report, loaded,
                 since>>

\* The rows of the three tables that are committed by now.
Delete ==
  /\ phase = "delete"
  /\ gone' = [dev EXCEPT !.auth = {}]
  /\ since' = [since EXCEPT !.run = NoUsers]
  /\ phase' = "insert"
  /\ UNCHANGED <<src, changes, export, dev, users, apply, runs, stage, new, report, loaded>>

\* Mutant: the join with the client of the export has no condition.
ClientIds_Any(c) == {x.uid : x \in {x \in stage.client : x.mail # NoMail}}

\* client_source and client_map: the staged clients that have the mail of
\* client c of the export.
ClientIds(c) ==
  {x.uid : x \in {x \in stage.client :
     /\ x.mail # NoMail
     /\ \E y \in export.client : y.id = c /\ y.mail = x.mail}}

\* _stage_refresh_results
StagedResults ==
  UNION {{[id |-> x.id, client |-> u, spec |-> s] :
            u \in ClientIds(x.client), s \in SpecialistIds(x.spec)} : x \in export.result}

\* The three inserts; a primary key that is taken is an error.
Insert ==
  LET kept == {x.uid : x \in dev.spec \ gone.spec}
      held == {x.uid : x \in dev.client \ gone.client}
  IN
  /\ phase = "insert"
  /\ \A x, y \in stage.spec : x.uid = y.uid => x = y
  /\ \A x, y \in stage.client : x.uid = y.uid => x = y
  /\ \A x, y \in StagedResults : x.id = y.id => x = y
  /\ \A x \in stage.spec : x.uid \notin kept
  /\ \A x \in stage.client : x.uid \notin held
  /\ new' = [new EXCEPT
       !.spec   = {[uid |-> x.uid, mail |-> x.mail] : x \in stage.spec},
       !.client = {[uid |-> x.uid, mail |-> x.mail, spec |-> x.spec] : x \in stage.client},
       !.result = StagedResults]
  /\ phase' = "finish"
  /\ UNCHANGED <<src, changes, export, dev, users, apply, runs, stage, gone, report, loaded,
                 since>>

\* What COMMIT makes of the database.
Committed ==
  [auth   |-> Merged(new.auth),
   spec   |-> (dev.spec \ gone.spec) \cup new.spec,
   client |-> (dev.client \ gone.client) \cup new.client,
   result |-> (dev.result \ gone.result) \cup new.result]

\* The run ends with report r; the next one exports anew.
End(r) ==
  /\ phase' = "idle"
  /\ report' = r
  /\ export' = NoSource
  /\ stage' = NoStage
  /\ gone' = NoTables
  /\ new' = NoTables

Commit ==
  /\ dev' = Committed
  /\ loaded' = export
  /\ since' = [since EXCEPT !.load = since.run]

\* Mutant: a dry run commits.
Finish_DryCommits ==
  /\ phase = "finish"
  /\ End("ok")
  /\ \/ apply /\ Commit
     \/ ~apply /\ dev' = Committed /\ UNCHANGED <<loaded, since>>
  /\ UNCHANGED <<src, changes, users, apply, runs>>

\* COMMIT or, of a dry run, ROLLBACK.
Finish ==
  /\ phase = "finish"
  /\ End("ok")
  /\ \/ apply /\ Commit
     \/ ~apply /\ UNCHANGED <<dev, loaded, since>>
  /\ UNCHANGED <<src, changes, users, apply, runs>>

\* psql fails in the export or in the transaction, or is killed; the
\* connection may also break when COMMIT has done its work.
Fail ==
  /\ phase # "idle"
  /\ End("error")
  /\ \/ phase = "finish" /\ apply /\ Commit
     \/ UNCHANGED <<dev, loaded, since>>
  /\ UNCHANGED <<src, changes, users, apply, runs>>

-----------------------------------------------------------------------------
RefreshInit ==
  /\ src \in {t \in SourceTables : Consistent(t)}
  /\ changes = 0
  /\ export = NoSource
  /\ dev = NoTables
  /\ users = 0
  /\ phase = "idle"
  /\ apply = FALSE
  /\ runs = 0
  /\ stage = NoStage
  /\ gone = NoTables
  /\ new = NoTables
  /\ report = "none"
  /\ loaded = NoSource
  /\ since = [run |-> NoUsers, load |-> NoUsers]

Transaction ==
  StageSpecialists \/ StageClients \/ WriteAuth \/ Delete \/ Insert \/ Finish

RefreshNext ==
  \/ SourceChanges
  \/ \E m \in Mail : SignUp(m)
  \/ \E x \in dev.auth : Enrol(x)
  \/ Start \/ ExportSpecialists \/ ExportClients \/ ExportResults
  \/ Transaction
  \/ Fail

RefreshSpec == RefreshInit /\ [][RefreshNext]_refreshVars

-----------------------------------------------------------------------------
RefreshTypeOK ==
  /\ src \in SourceTables
  /\ changes \in 0 .. MaxChanges
  /\ export \in SourceTables
  /\ dev \in Tables
  /\ users \in 0 .. MaxUsers
  /\ phase \in {"idle", "specialists", "clients", "results", "stage specialists",
             "stage clients", "auth", "delete", "insert", "finish"}
  /\ apply \in BOOLEAN
  /\ runs \in 0 .. MaxRuns
  /\ stage \in Stages
  /\ gone \in Tables
  /\ new \in Tables
  /\ report \in {"none", "ok", "error"}
  /\ loaded \in SourceTables
  /\ since \in Marks

-----------------------------------------------------------------------------
(* What a refresh promises *)

\* Every reference of dev is to a row of dev, and whoever has a mail can log
\* in with it: the ids of specialists and clients, which production numbered,
\* are replaced consistently in three tables and in auth.users, whatever dev
\* users commit between two statements.
References ==
  /\ \A x \in dev.client : x.spec = Nobody \/ \E y \in dev.spec : y.uid = x.spec
  /\ \A x \in dev.result :
       /\ \E y \in dev.client : y.uid = x.client
       /\ x.spec = Nobody \/ \E y \in dev.spec : y.uid = x.spec
  /\ \A x \in dev.spec \cup dev.client :
       x.mail # NoMail => [uid |-> x.uid, mail |-> x.mail] \in dev.auth

\* A mail belongs to one user in all tables of dev: a user who is a specialist
\* and a client, or who signed up on dev while the refresh ran, is not split.
OneUserPerMail ==
  \A x, y \in dev.auth \cup dev.spec \cup dev.client :
    x.mail = y.mail /\ x.mail # NoMail => x.uid = y.uid

\* The users of dev are whole: references resolve, and no mail is split.
UsersWhole == References /\ OneUserPerMail

\* A refresh never deletes a user of auth nor gives a mail to another user:
\* what dev keeps under a user's id stays that user's.
StableIds == [][dev.auth \subseteq dev'.auth]_refreshVars

\* The mail that client c of the loaded export has.
MailOf(c) == (CHOOSE x \in loaded.client : x.id = c).mail

\* A result on dev is one of the loaded export, and belongs to the client with
\* the mail that its client has there: no user sees the result of another one,
\* though production moves mails between clients and ids are replaced.
ResultsOwner ==
  \A x \in dev.result :
    \E r \in loaded.result, y \in dev.client :
      r.id = x.id /\ y.uid = x.client /\ y.mail # NoMail /\ y.mail = MailOf(r.client)

\* The specialist of a row of dev is the one that its row of the export names,
\* NULL if that one is not in the export or has no mail.
SameSpecialist(u, s) ==
  LET named == {y \in loaded.spec : y.id = s /\ y.mail # NoMail}
  IN  IF named = {} THEN u = Nobody
      ELSE \E x \in dev.spec, y \in named : x.uid = u /\ x.mail = y.mail

\* Outside of a commit dev holds what the last committed run exported, plus
\* the rows that dev users added since its delete: an aborted or dry run
\* leaves no trace, none is half applied, and no row of the export is lost
\* except for the results of clients without a mail.
LoadsExported ==
  /\ \A y \in loaded.spec : \E x \in dev.spec :
       x.mail = y.mail /\ (y.mail = NoMail => x.uid = Prod(y.id))
  /\ \A x \in dev.spec : x.uid \in since.load.spec \/ \E y \in loaded.spec : y.mail = x.mail
  /\ \A y \in loaded.client : \E x \in dev.client :
       x.mail = y.mail /\ (y.mail = NoMail => x.uid = Prod(y.id)) /\ SameSpecialist(x.spec, y.spec)
  /\ \A x \in dev.client :
       x.uid \in since.load.client \/ \E y \in loaded.client : y.mail = x.mail
  /\ \A y \in loaded.result :
       Has(loaded.client, y.client) /\ MailOf(y.client) # NoMail =>
         \E x \in dev.result : x.id = y.id /\ SameSpecialist(x.spec, y.spec)

\* Dev is what the last committed run exported, and each result is its owner's.
LoadTrue == ResultsOwner /\ LoadsExported

\* openspec/changes/add-punktb-prod-dev-refresh/specs/intdb/spec.md: "intdb
\* MUST load the exported production rows into the whitelisted target
\* client-state tables".  It does not: _stage_refresh_results joins on the
\* mail of the client.
AllLoaded == \A y \in loaded.result : Has(dev.result, y.id)
-----------------------------------------------------------------------------
\* For model checking: clients are alike, and so are mails.
Symmetry == Permutations(Client) \cup Permutations(Mail)
=============================================================================
