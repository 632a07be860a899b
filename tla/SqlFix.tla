-------------------------------- MODULE SqlFix --------------------------------
(***************************************************************************)
(* The review-sql-fix skill: fix_pipeline.py with safety_guard.py and      *)
(* backup_snapshot.py.  A run takes a snapshot of its repositories, checks *)
(* the findings, applies SQL through psql and replacements to files, and   *)
(* writes its artifacts.  Runs share the files, the database, the backup   *)
(* base and the output directory; another agent edits the same files.      *)
(*                                                                         *)
(* A file is the set of the texts in it.  A SQL action and a fix are what  *)
(* the pipeline asks about them: is the finding confirmed, is the SQL      *)
(* dangerous, which text is replaced by which.                             *)
(***************************************************************************)
EXTENDS Integers, Sequences, FiniteSets

CONSTANTS
  Run,       \* runs of the pipeline
  File,      \* files inside the repo_targets
  Text,      \* texts that fixes look for and put in their place
  Own,       \* the text another agent adds to a file
  Original,  \* Original[f]: the texts of file f at first
  Payloads,  \* the inputs considered
  MaxNow     \* bound on the clock, in seconds

Nobody == "nobody"
Agent  == "agent"

Action  == [eligible : BOOLEAN, dangerous : BOOLEAN]
Fix     == [eligible : BOOLEAN, path : File, search : Text, replace : Text]
Payload == [environment : {"dev", "stage", "prod"}, fix_mode : {"apply", "plan_only"},
            allow_dangerous : BOOLEAN, executor : BOOLEAN, commands : BOOLEAN,
            sections : {"whole", "truncated", "unmapped"},
            actions : Seq(Action), fixes : Seq(Fix)]

ASSUME PayloadAssumption == Payloads \subseteq Payload
ASSUME TextAssumption    == Original \in [File -> SUBSET Text] /\ Own \notin Text
ASSUME RunAssumption     == Nobody \notin Run /\ Agent \notin Run /\ MaxNow \in Nat

VARIABLES
  now,       \* the clock that names backup directories
  payload,   \* payload[r]: the input of run r
  pc,        \* pc[r]: where run r is
  at,        \* at[r]: the action, fix or artifact it is at
  stamp,     \* stamp[r]: the name of its backup directory
  todo,      \* todo[r]: files it has yet to copy there
  seen,      \* seen[r]: the text of the file it is fixing, as read
  results,   \* results[r]: what the lane under way has applied
  runtime,   \* runtime[r]: runtime_results, the actions reported applied
  repo,      \* repo[r]: repo_results, the fixes reported applied
  failed,    \* failed[r]: error is set, or an exception is on its way up
  file,      \* file[f]: the file
  lease,     \* lease[f]: who holds the coord session on it
  snap,      \* snap[s][f]: the copy of the file in backup directory s
  artifact,  \* artifact[a]: the artifact in the output directory
  executed,  \* history: <<r, i>>, run r's action i took effect in the database
  written,   \* history: <<r, j>>, run r wrote its fix j
  shelled,   \* history: runs that ran shell commands
  edited,    \* history: files the other agent has edited
  torn       \* history: files a write was interrupted in

local  == <<payload, pc, at, stamp, todo, seen, results, runtime, repo, failed>>
world  == <<now, file, lease, snap, artifact, executed, written, shelled, edited, torn>>
vars   == <<local, world>>

Never == MaxNow + 1

\* The artifacts about what was done, in the order they are written.
Artifacts == <<"applied-runtime-sql", "applied-repo-changes", "postcheck-report",
               "rollback-guide">>
Name      == {Artifacts[k] : k \in DOMAIN Artifacts}

Init ==
  /\ now = 0
  /\ payload \in [Run -> Payloads]
  /\ pc = [r \in Run |-> "start"]
  /\ at = [r \in Run |-> 1]
  /\ stamp = [r \in Run |-> Never]
  /\ todo = [r \in Run |-> {}]
  /\ seen = [r \in Run |-> {}]
  /\ results = [r \in Run |-> {}]
  /\ runtime = [r \in Run |-> {}]
  /\ repo = [r \in Run |-> {}]
  /\ failed = [r \in Run |-> FALSE]
  /\ file = Original
  /\ lease = [f \in File |-> Nobody]
  /\ snap = [s \in 0 .. MaxNow |-> [f \in File |-> {}]]
  /\ artifact = [a \in Name |-> [by |-> Nobody, lists |-> {}, ok |-> FALSE]]
  /\ executed = {}
  /\ written = {}
  /\ shelled = {}
  /\ edited = {}
  /\ torn = {}

-----------------------------------------------------------------------------
(* Policy and control *)

\* Mutant: the prod guard is gone.
AllowApply_AnyEnvironment(r) == payload[r].fix_mode = "apply"

\* enforce: apply is for dev and stage.
AllowApply(r) == payload[r].fix_mode = "apply" /\ payload[r].environment # "prod"

\* assert_runtime_sql_safe
Safe(r, a) == a.dangerous => payload[r].allow_dangerous

Goes(r, p) == pc' = [pc EXCEPT ![r] = p]
Step(r)    == at' = [at EXCEPT ![r] = @ + 1]

\* Mutant: an exception is not in the report.
Fail_Quiet(r) ==
  /\ Goes(r, "artifacts")
  /\ at' = [at EXCEPT ![r] = 1]
  /\ results' = [results EXCEPT ![r] = {}]
  /\ UNCHANGED <<payload, stamp, todo, seen, runtime, repo, failed>>

\* An exception reaches main: what the lane under way had to report is gone.
Fail(r) ==
  /\ Goes(r, "artifacts")
  /\ at' = [at EXCEPT ![r] = 1]
  /\ failed' = [failed EXCEPT ![r] = TRUE]
  /\ results' = [results EXCEPT ![r] = {}]
  /\ UNCHANGED <<payload, stamp, todo, seen, runtime, repo>>

\* load_payload and enforce refuse the input.
Reject(r) ==
  /\ pc[r] = "start"
  /\ Fail(r)
  /\ UNCHANGED world

-----------------------------------------------------------------------------
(* backup, precheck *)

\* Mutant: only the runtime metadata are written.
StartBackup_NoRepo(r) ==
  /\ pc[r] = "start"
  /\ Goes(r, "backup")
  /\ stamp' = [stamp EXCEPT ![r] = now]
  /\ UNCHANGED <<payload, at, todo, seen, results, runtime, repo, failed, world>>

\* create_snapshot: the directory has the name of the second.
StartBackup(r) ==
  /\ pc[r] = "start"
  /\ Goes(r, "backup")
  /\ stamp' = [stamp EXCEPT ![r] = now]
  /\ todo' = [todo EXCEPT ![r] = File]
  /\ UNCHANGED <<payload, at, seen, results, runtime, repo, failed, world>>

\* A file of a repo target is copied, over a copy that is there.
CopyTarget(r, f) ==
  /\ pc[r] = "backup"
  /\ f \in todo[r]
  /\ todo' = [todo EXCEPT ![r] = @ \ {f}]
  /\ snap' = [snap EXCEPT ![stamp[r]][f] = file[f]]
  /\ UNCHANGED <<payload, pc, at, stamp, seen, results, runtime, repo, failed>>
  /\ UNCHANGED <<now, file, lease, artifact, executed, written, shelled, edited, torn>>

BackupFails(r) ==
  /\ pc[r] = "backup"
  /\ Fail(r)
  /\ UNCHANGED world

\* No section is incomplete or truncated, and build_runtime_actions can map
\* every recommendation to a finding.
Checked(r) == payload[r].sections = "whole"

Precheck(r) ==
  /\ pc[r] = "backup"
  /\ todo[r] = {}
  /\ IF Checked(r)
     THEN /\ Goes(r, "runtime")
          /\ UNCHANGED <<payload, at, stamp, todo, seen, results, runtime, repo, failed>>
     ELSE Fail(r)
  /\ UNCHANGED world

-----------------------------------------------------------------------------
(* apply_runtime_lane *)

\* Run r is at action a.
AtAction(r, a) ==
  /\ pc[r] = "runtime"
  /\ at[r] <= Len(payload[r].actions)
  /\ a = payload[r].actions[at[r]]

Runs(r, a) == a.eligible /\ Safe(r, a) /\ AllowApply(r) /\ payload[r].executor

\* The finding is not confirmed, or the action is planned or simulated.
NoteAction(r) ==
  /\ \E a \in Action : AtAction(r, a) /\ ~Runs(r, a) /\ (a.eligible => Safe(r, a))
  /\ Step(r)
  /\ UNCHANGED <<payload, pc, stamp, todo, seen, results, runtime, repo, failed, world>>

\* Dangerous SQL stops the pipeline, in plan_only too.
BlockAction(r) ==
  /\ \E a \in Action : AtAction(r, a) /\ a.eligible /\ ~Safe(r, a)
  /\ Fail(r)
  /\ UNCHANGED world

\* psql exits with 0.
Psql(r) ==
  /\ \E a \in Action : AtAction(r, a) /\ Runs(r, a)
  /\ executed' = executed \cup {<<r, at[r]>>}
  /\ results' = [results EXCEPT ![r] = @ \cup {at[r]}]
  /\ Step(r)
  /\ UNCHANGED <<payload, pc, stamp, todo, seen, runtime, repo, failed>>
  /\ UNCHANGED <<now, file, lease, snap, artifact, written, shelled, edited, torn>>

\* It fails; the connection may have broken after the commit.
PsqlFails(r) ==
  /\ \E a \in Action : AtAction(r, a) /\ Runs(r, a)
  /\ executed' \in {executed, executed \cup {<<r, at[r]>>}}
  /\ Fail(r)
  /\ UNCHANGED <<now, file, lease, snap, artifact, written, shelled, edited, torn>>

\* Mutant: the repo lane goes on with the list of the runtime lane.
RuntimeDone_OneList(r) ==
  /\ pc[r] = "runtime"
  /\ at[r] > Len(payload[r].actions)
  /\ Goes(r, "repo")
  /\ at' = [at EXCEPT ![r] = 1]
  /\ runtime' = [runtime EXCEPT ![r] = results[r]]
  /\ UNCHANGED <<payload, stamp, todo, seen, results, repo, failed, world>>

RuntimeDone(r) ==
  /\ pc[r] = "runtime"
  /\ at[r] > Len(payload[r].actions)
  /\ Goes(r, "repo")
  /\ at' = [at EXCEPT ![r] = 1]
  /\ runtime' = [runtime EXCEPT ![r] = results[r]]
  /\ results' = [results EXCEPT ![r] = {}]
  /\ UNCHANGED <<payload, stamp, todo, seen, repo, failed, world>>

-----------------------------------------------------------------------------
(* apply_repo_lane *)

Patch(r)    == payload[r].fixes[at[r]]
AtFix(r)    == pc[r] = "repo" /\ at[r] <= Len(payload[r].fixes)
Applies(r)  == Patch(r).eligible /\ AllowApply(r)

\* The finding is not confirmed, or the fix is planned.
NoteFix(r) ==
  /\ AtFix(r)
  /\ ~Applies(r)
  /\ Step(r)
  /\ UNCHANGED <<payload, pc, stamp, todo, seen, results, runtime, repo, failed, world>>

\* Mutant: a session that is refused is no reason to stop.
Begin_Anyway(r) ==
  /\ AtFix(r)
  /\ Applies(r)
  /\ lease' = [lease EXCEPT ![Patch(r).path] = IF @ = Nobody THEN r ELSE @]
  /\ Goes(r, "read")
  /\ UNCHANGED <<payload, at, stamp, todo, seen, results, runtime, repo, failed>>
  /\ UNCHANGED <<now, file, snap, artifact, executed, written, shelled, edited, torn>>

\* intnode coord begin grants a session on the file.
Begin(r) ==
  /\ AtFix(r)
  /\ Applies(r)
  /\ lease[Patch(r).path] = Nobody
  /\ lease' = [lease EXCEPT ![Patch(r).path] = r]
  /\ Goes(r, "read")
  /\ UNCHANGED <<payload, at, stamp, todo, seen, results, runtime, repo, failed>>
  /\ UNCHANGED <<now, file, snap, artifact, executed, written, shelled, edited, torn>>

\* The path is not resolved, git fails, or begin is refused; or it is granted
\* and its reply cannot be read, and nobody gives the session back.
FixRaises(r) ==
  /\ AtFix(r)
  /\ Patch(r).eligible
  /\ \/ UNCHANGED lease
     \/ /\ AllowApply(r)
        /\ lease[Patch(r).path] = Nobody
        /\ lease' = [lease EXCEPT ![Patch(r).path] = r]
  /\ Fail(r)
  /\ UNCHANGED <<now, file, snap, artifact, executed, written, shelled, edited, torn>>

\* read_text, and nothing to replace.
NotFound(r) ==
  /\ pc[r] = "read"
  /\ Patch(r).search \notin file[Patch(r).path]
  /\ Goes(r, "release")
  /\ UNCHANGED <<payload, at, stamp, todo, seen, results, runtime, repo, failed, world>>

\* Mutant: the file is taken from the snapshot.
Read_Early(r) ==
  /\ pc[r] = "read"
  /\ Patch(r).search \in snap[stamp[r]][Patch(r).path]
  /\ seen' = [seen EXCEPT ![r] = snap[stamp[r]][Patch(r).path]]
  /\ Goes(r, "write")
  /\ UNCHANGED <<payload, at, stamp, todo, results, runtime, repo, failed, world>>

Read(r) ==
  /\ pc[r] = "read"
  /\ Patch(r).search \in file[Patch(r).path]
  /\ seen' = [seen EXCEPT ![r] = file[Patch(r).path]]
  /\ Goes(r, "write")
  /\ UNCHANGED <<payload, at, stamp, todo, results, runtime, repo, failed, world>>

\* write_text empties the file,
Truncate(r) ==
  /\ pc[r] = "write"
  /\ file' = [file EXCEPT ![Patch(r).path] = {}]
  /\ Goes(r, "writing")
  /\ UNCHANGED <<payload, at, stamp, todo, seen, results, runtime, repo, failed>>
  /\ UNCHANGED <<now, lease, snap, artifact, executed, written, shelled, edited, torn>>

\* and fills it again.
Write(r) ==
  /\ pc[r] = "writing"
  /\ file' = [file EXCEPT ![Patch(r).path] = (seen[r] \ {Patch(r).search}) \cup {Patch(r).replace}]
  /\ written' = written \cup {<<r, at[r]>>}
  /\ results' = [results EXCEPT ![r] = @ \cup {at[r]}]
  /\ seen' = [seen EXCEPT ![r] = {}]
  /\ Goes(r, "release")
  /\ UNCHANGED <<payload, at, stamp, todo, runtime, repo, failed>>
  /\ UNCHANGED <<now, lease, snap, artifact, executed, shelled, edited, torn>>

\* The file cannot be read or written.
FixFails(r) ==
  /\ pc[r] \in {"read", "write", "writing"}
  /\ failed' = [failed EXCEPT ![r] = TRUE]
  /\ torn' = IF pc[r] = "writing" THEN torn \cup {Patch(r).path} ELSE torn
  /\ seen' = [seen EXCEPT ![r] = {}]
  /\ Goes(r, "release")
  /\ UNCHANGED <<payload, at, stamp, todo, results, runtime, repo>>
  /\ UNCHANGED <<now, file, lease, snap, artifact, executed, written, shelled, edited>>

\* The finally branch.
Release(r) ==
  /\ pc[r] = "release"
  /\ lease' = [lease EXCEPT ![Patch(r).path] = IF @ = r THEN Nobody ELSE @]
  /\ IF failed[r]
     THEN Fail(r)
     ELSE /\ Goes(r, "repo")
          /\ Step(r)
          /\ UNCHANGED <<payload, stamp, todo, seen, results, runtime, repo, failed>>
  /\ UNCHANGED <<now, file, snap, artifact, executed, written, shelled, edited, torn>>

\* intnode coord release fails, with the session freed or not.
ReleaseFails(r) ==
  /\ pc[r] = "release"
  /\ lease' \in {lease, [lease EXCEPT ![Patch(r).path] = IF @ = r THEN Nobody ELSE @]}
  /\ Fail(r)
  /\ UNCHANGED <<now, file, snap, artifact, executed, written, shelled, edited, torn>>

RepoDone(r) ==
  /\ pc[r] = "repo"
  /\ at[r] > Len(payload[r].fixes)
  /\ Goes(r, "postcheck")
  /\ repo' = [repo EXCEPT ![r] = results[r]]
  /\ results' = [results EXCEPT ![r] = {}]
  /\ UNCHANGED <<payload, at, stamp, todo, seen, runtime, failed, world>>

-----------------------------------------------------------------------------
(* run_postchecks, artifacts, and everybody else *)

\* Shell commands run outside prod and plan_only; their exit codes are only
\* reported.
Postcheck(r) ==
  /\ pc[r] = "postcheck"
  /\ shelled' = IF payload[r].commands /\ AllowApply(r) THEN shelled \cup {r} ELSE shelled
  /\ Goes(r, "artifacts")
  /\ at' = [at EXCEPT ![r] = 1]
  /\ UNCHANGED <<payload, stamp, todo, seen, results, runtime, repo, failed>>
  /\ UNCHANGED <<now, file, lease, snap, artifact, executed, written, edited, torn>>

\* What artifact a says of run r.
Report(r, a) ==
  [by |-> r, ok |-> ~failed[r],
   lists |-> IF a = "applied-runtime-sql" THEN runtime[r]
             ELSE IF a = "postcheck-report" THEN {} ELSE repo[r]]

\* An artifact is written over that of an earlier run.
WriteArtifact(r) ==
  /\ pc[r] = "artifacts"
  /\ artifact' = [artifact EXCEPT ![Artifacts[at[r]]] = Report(r, Artifacts[at[r]])]
  /\ IF at[r] = Len(Artifacts)
     THEN Goes(r, "done") /\ UNCHANGED at
     ELSE Step(r) /\ UNCHANGED pc
  /\ UNCHANGED <<payload, stamp, todo, seen, results, runtime, repo, failed>>
  /\ UNCHANGED <<now, file, lease, snap, executed, written, shelled, edited, torn>>

\* The run is killed, or cannot write an artifact; its session stays.
Crash(r) ==
  /\ pc[r] \notin {"start", "done", "dead"}
  /\ Goes(r, "dead")
  /\ torn' = IF pc[r] = "writing" THEN torn \cup {Patch(r).path} ELSE torn
  /\ UNCHANGED <<payload, at, stamp, todo, seen, results, runtime, repo, failed>>
  /\ UNCHANGED <<now, file, lease, snap, artifact, executed, written, shelled, edited>>

\* Another agent takes a session on a file,
AgentBegins(f) ==
  /\ f \notin edited
  /\ lease[f] = Nobody
  /\ lease' = [lease EXCEPT ![f] = Agent]
  /\ UNCHANGED <<local, now, file, snap, artifact, executed, written, shelled, edited, torn>>

\* adds its text, and gives the session back.
AgentEdits(f) ==
  /\ lease[f] = Agent
  /\ file' = [file EXCEPT ![f] = @ \cup {Own}]
  /\ edited' = edited \cup {f}
  /\ lease' = [lease EXCEPT ![f] = Nobody]
  /\ UNCHANGED <<local, now, snap, artifact, executed, written, shelled, torn>>

Tick ==
  /\ now < MaxNow
  /\ now' = now + 1
  /\ UNCHANGED <<local, file, lease, snap, artifact, executed, written, shelled, edited, torn>>

Pipeline(r) ==
  \/ Reject(r) \/ StartBackup(r) \/ BackupFails(r) \/ Precheck(r)
  \/ \E f \in File : CopyTarget(r, f)
  \/ NoteAction(r) \/ BlockAction(r) \/ Psql(r) \/ PsqlFails(r) \/ RuntimeDone(r)
  \/ NoteFix(r) \/ Begin(r) \/ FixRaises(r) \/ NotFound(r) \/ Read(r) \/ Truncate(r)
  \/ Write(r) \/ FixFails(r) \/ Release(r) \/ ReleaseFails(r) \/ RepoDone(r)
  \/ Postcheck(r) \/ WriteArtifact(r) \/ Crash(r)

Next ==
  \/ \E r \in Run : Pipeline(r)
  \/ \E f \in File : AgentBegins(f) \/ AgentEdits(f)
  \/ Tick

Spec == Init /\ [][Next]_vars

-----------------------------------------------------------------------------
TypeOK ==
  /\ now \in 0 .. MaxNow
  /\ payload \in [Run -> Payloads]
  /\ pc \in [Run -> {"start", "backup", "runtime", "repo", "read", "write", "writing",
                     "release", "postcheck", "artifacts", "done", "dead"}]
  /\ at \in [Run -> Nat \ {0}]
  /\ stamp \in [Run -> 0 .. Never]
  /\ todo \in [Run -> SUBSET File]
  /\ seen \in [Run -> SUBSET (Text \cup {Own})]
  /\ results \in [Run -> SUBSET Nat]
  /\ runtime \in [Run -> SUBSET Nat]
  /\ repo \in [Run -> SUBSET Nat]
  /\ failed \in [Run -> BOOLEAN]
  /\ file \in [File -> SUBSET (Text \cup {Own})]
  /\ lease \in [File -> Run \cup {Nobody, Agent}]
  /\ snap \in [0 .. MaxNow -> [File -> SUBSET (Text \cup {Own})]]
  /\ artifact \in [Name -> [by : Run \cup {Nobody}, lists : SUBSET Nat, ok : BOOLEAN]]
  /\ executed \cup written \subseteq Run \X Nat
  /\ shelled \subseteq Run /\ edited \subseteq File /\ torn \subseteq File

\* Nothing is changed, in the database, in a file or by a shell command, except
\* in apply mode outside prod, after a complete snapshot, for whole sections,
\* confirmed findings and SQL that is safe or allowed (fix-playbook: "Any
\* failure before `apply` blocks all mutations").
Gated ==
  \A r \in Run :
    /\ (r \in shelled \/ \E n \in 1 .. Len(payload[r].actions) + Len(payload[r].fixes) :
                            <<r, n>> \in executed \cup written) =>
         /\ payload[r].fix_mode = "apply" /\ payload[r].environment # "prod"
         /\ payload[r].sections = "whole"
         /\ stamp[r] # Never /\ todo[r] = {}
    /\ \A i \in DOMAIN payload[r].actions :
         <<r, i>> \in executed => payload[r].actions[i].eligible /\ Safe(r, payload[r].actions[i])
    /\ \A j \in DOMAIN payload[r].fixes : <<r, j>> \in written => payload[r].fixes[j].eligible

\* What an artifact lists as applied was applied, by the run that wrote it,
\* whatever failed, was killed or wrote its artifacts in between.
ReportsTrue ==
  \A a \in Name : \A n \in artifact[a].lists :
    <<artifact[a].by, n>> \in IF a = "applied-runtime-sql" THEN executed ELSE written

\* Where the postcheck report of a run says success, the other artifacts of
\* that run list all that it changed.
SuccessComplete ==
  LET r == artifact["postcheck-report"].by IN
  artifact["postcheck-report"].ok =>
    /\ artifact["applied-runtime-sql"].by = r =>
         \A x \in executed : x[1] = r => x[2] \in artifact["applied-runtime-sql"].lists
    /\ artifact["applied-repo-changes"].by = r =>
         \A x \in written : x[1] = r => x[2] \in artifact["applied-repo-changes"].lists

\* The artifacts of a run are true, and complete where they say success.
ArtifactsTrue == ReportsTrue /\ SuccessComplete

\* An edit that another agent makes under its session is never lost to a fix
\* that read the file before; only a write that was interrupted loses it.
EditsKept == \A f \in edited \ torn : Own \in file[f] \/ \E r \in Run : pc[r] = "writing" /\ Patch(r).path = f

\* Runs and repeated runs write a replacement once, however they interleave,
\* when no fix puts back a text that a fix looks for.
PatchOf(x) == payload[x[1]].fixes[x[2]]
FixOnce ==
  (\A q, r \in Run : \A i \in DOMAIN payload[q].fixes, j \in DOMAIN payload[r].fixes :
     payload[q].fixes[i].replace # payload[r].fixes[j].search) =>
  \A x, y \in written :
    PatchOf(x).path = PatchOf(y).path /\ PatchOf(x).search = PatchOf(y).search => x = y

\* Every text that was in a file before the first run is in the file or in a
\* backup directory, through failed and killed runs and interrupted writes;
\* unless two runs began in the same second and share a directory.
OriginalKept ==
  (\A q, r \in Run : stamp[q] = stamp[r] /\ stamp[q] # Never => q = r) =>
  \A f \in File : \A t \in Original[f] :
    t \in file[f] \/ \E s \in 0 .. MaxNow : t \in snap[s][f]

\* The repo lane keeps the edits of others and the first texts, and does not
\* apply a fix again.
FilesKept == EditsKept /\ FixOnce /\ OriginalKept

\* fix-playbook: "If pipeline fails, artifacts must explicitly show partial
\* execution state".  It does not hold: the exception loses the results of the
\* lane it is raised in.
PartialShown ==
  LET r == artifact["postcheck-report"].by IN
  (r # Nobody /\ ~artifact["postcheck-report"].ok) =>
    /\ artifact["applied-runtime-sql"].by = r =>
         \A x \in executed : x[1] = r => x[2] \in artifact["applied-runtime-sql"].lists
    /\ artifact["applied-repo-changes"].by = r =>
         \A x \in written : x[1] = r => x[2] \in artifact["applied-repo-changes"].lists
=============================================================================
