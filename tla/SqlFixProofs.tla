---------------------------- MODULE SqlFixProofs ----------------------------
(***************************************************************************)
(* Theorems about SqlFix for any number of runs, files, texts and inputs.  *)
(*                                                                         *)
(* The session on a file makes reading and writing it one step for         *)
(* everybody who takes one: what a fix has read is what is in the file.    *)
(* A run changes nothing before it has copied every file, and what it has  *)
(* done is in the list of its lane until an exception drops the list.      *)
(***************************************************************************)
EXTENDS SqlFix, TLAPS

-----------------------------------------------------------------------------
(* Types *)

LEMMA InputTypes ==
  ASSUME TypeOK, NEW r \in Run
  PROVE  /\ payload[r] \in Payload
         /\ payload[r].actions \in Seq(Action)
         /\ payload[r].fixes \in Seq(Fix)
         /\ Len(payload[r].actions) \in Nat /\ Len(payload[r].fixes) \in Nat
<1>1. payload[r] \in Payload
  BY PayloadAssumption DEF TypeOK
<1>2. QED
  BY <1>1 DEF Payload

LEMMA ArtifactNames ==
  /\ Len(Artifacts) = 4 /\ DOMAIN Artifacts = 1 .. 4
  /\ \A k \in 1 .. 4 : Artifacts[k] \in Name
  /\ {"applied-runtime-sql", "applied-repo-changes", "postcheck-report"} \subseteq Name
<1>1. Len(Artifacts) = 4 /\ DOMAIN Artifacts = 1 .. 4
  BY DEF Artifacts
<1>2. /\ Artifacts[1] = "applied-runtime-sql" /\ Artifacts[2] = "applied-repo-changes"
      /\ Artifacts[3] = "postcheck-report"
  BY DEF Artifacts
<1>3. QED
  BY <1>1, <1>2 DEF Name

\* Where a run is tells what it has passed: a run that applies anything has
\* its snapshot and whole sections, and a fix under way applies.
Fixing == {"read", "write", "writing", "release"}
Passed == Fixing \cup {"runtime", "repo", "postcheck"}

Where ==
  \A r \in Run :
    /\ pc[r] = "start" => stamp[r] = Never
    /\ pc[r] \in Passed => Checked(r) /\ stamp[r] # Never /\ todo[r] = {}
    /\ pc[r] \in Fixing => at[r] \in DOMAIN payload[r].fixes /\ Applies(r)
    /\ pc[r] = "artifacts" => at[r] \in DOMAIN Artifacts
    /\ pc[r] = "backup" => stamp[r] \in 0 .. MaxNow

LEMMA PatchTypes ==
  ASSUME TypeOK, Where, NEW r \in Run, pc[r] \in Fixing
  PROVE  /\ Patch(r) \in Fix
         /\ Patch(r).path \in File /\ Patch(r).search \in Text /\ Patch(r).replace \in Text
<1>1. Patch(r) \in Fix
  BY InputTypes DEF Where, Patch
<1>2. QED
  BY <1>1 DEF Fix

LEMMA TypeInit == Init => TypeOK /\ Where
<1> SUFFICES ASSUME Init PROVE TypeOK /\ Where
  OBVIOUS
<1>1. Never \in 0 .. Never /\ 0 \in 0 .. MaxNow
  BY RunAssumption DEF Never
<1>2. file \in [File -> SUBSET (Text \cup {Own})]
  BY TextAssumption DEF Init
<1>3. TypeOK
  BY <1>1, <1>2 DEF Init, TypeOK
<1>4. Where
  BY DEF Init, Where, Passed, Fixing
<1>5. QED
  BY <1>3, <1>4

LEMMA FailTypes ==
  ASSUME TypeOK, NEW r \in Run, Fail(r)
  PROVE  /\ pc' \in [Run -> {"start", "backup", "runtime", "repo", "read", "write", "writing",
                            "release", "postcheck", "artifacts", "done", "dead"}]
         /\ at' \in [Run -> Nat \ {0}]
         /\ results' \in [Run -> SUBSET Nat]
         /\ failed' \in [Run -> BOOLEAN]
         /\ UNCHANGED <<payload, stamp, todo, seen, runtime, repo>>
BY DEF TypeOK, Fail, Goes

LEMMA StepTypes ==
  ASSUME TypeOK, NEW r \in Run, Step(r)
  PROVE  at' \in [Run -> Nat \ {0}]
BY DEF TypeOK, Step

LEMMA TypeNext ==
  ASSUME TypeOK, Where, [Next]_vars
  PROVE  TypeOK'
<1>1. ASSUME NEW r \in Run,
             Reject(r) \/ BackupFails(r) \/ BlockAction(r)
      PROVE  TypeOK'
  BY <1>1, FailTypes DEF Reject, BackupFails, BlockAction, TypeOK, world
<1>2. ASSUME NEW r \in Run, StartBackup(r) PROVE TypeOK'
  BY <1>2, RunAssumption DEF StartBackup, Goes, TypeOK, world, Never
<1>3. ASSUME NEW r \in Run, Precheck(r) PROVE TypeOK'
  BY <1>3, FailTypes DEF Precheck, Goes, TypeOK, world
<1>4. ASSUME NEW r \in Run, NEW f \in File, CopyTarget(r, f) PROVE TypeOK'
  BY <1>4 DEF CopyTarget, TypeOK
<1>5. ASSUME NEW r \in Run, NoteAction(r) \/ NoteFix(r) PROVE TypeOK'
  <2>1. at' \in [Run -> Nat \ {0}]
    BY <1>5, StepTypes, Zenon DEF NoteAction, NoteFix
  <2>2. QED
    BY <1>5, <2>1, Zenon DEF NoteAction, NoteFix, TypeOK, world
<1>6. ASSUME NEW r \in Run, Psql(r) PROVE TypeOK'
  BY <1>6 DEF Psql, Step, TypeOK
<1>7. ASSUME NEW r \in Run, PsqlFails(r) PROVE TypeOK'
  BY <1>7, FailTypes DEF PsqlFails, TypeOK
<1>8. ASSUME NEW r \in Run, RuntimeDone(r) \/ RepoDone(r) PROVE TypeOK'
  <2>1. /\ pc' \in [Run -> {"start", "backup", "runtime", "repo", "read", "write", "writing",
                           "release", "postcheck", "artifacts", "done", "dead"}]
        /\ at' \in [Run -> Nat \ {0}]
    <3>1. CASE RuntimeDone(r)
      BY <3>1 DEF RuntimeDone, Goes, TypeOK
    <3>2. CASE RepoDone(r)
      BY <3>2 DEF RepoDone, Goes, TypeOK
    <3>3. QED
      BY <1>8, <3>1, <3>2
  <2>2. /\ results' \in [Run -> SUBSET Nat]
        /\ runtime' \in [Run -> SUBSET Nat]
        /\ repo' \in [Run -> SUBSET Nat]
    BY <1>8 DEF RuntimeDone, RepoDone, TypeOK
  <2>3. QED
    BY <1>8, <2>1, <2>2, Zenon DEF RuntimeDone, RepoDone, TypeOK, world
<1>9. ASSUME NEW r \in Run, Begin(r) PROVE TypeOK'
  BY <1>9 DEF Begin, Goes, TypeOK
<1>10. ASSUME NEW r \in Run, FixRaises(r) PROVE TypeOK'
  <2>1. lease' \in [File -> Run \cup {Nobody, Agent}]
    <3>1. CASE lease' = lease
      BY <3>1 DEF TypeOK
    <3>2. CASE lease' = [lease EXCEPT ![Patch(r).path] = r]
      BY <3>2 DEF TypeOK
    <3>3. lease' = lease \/ lease' = [lease EXCEPT ![Patch(r).path] = r]
      BY <1>10 DEF FixRaises
    <3>4. QED
      BY <3>1, <3>2, <3>3
  <2>2. Fail(r)
    BY <1>10, Zenon DEF FixRaises
  <2>3. QED
    BY <1>10, <2>1, <2>2, FailTypes, Zenon DEF FixRaises, TypeOK
<1>11. ASSUME NEW r \in Run, NotFound(r) PROVE TypeOK'
  BY <1>11 DEF NotFound, Goes, TypeOK, world
<1>12. ASSUME NEW r \in Run, Read(r) PROVE TypeOK'
  <2>1. file[Patch(r).path] \in SUBSET (Text \cup {Own})
    BY <1>12, PatchTypes DEF Read, TypeOK, Where, Fixing
  <2>2. QED
    BY <1>12, <2>1 DEF Read, Goes, TypeOK, world
<1>13. ASSUME NEW r \in Run, Truncate(r) PROVE TypeOK'
  BY <1>13 DEF Truncate, Goes, TypeOK
<1>14. ASSUME NEW r \in Run, Write(r) PROVE TypeOK'
  <2>1. Patch(r).replace \in Text
    BY <1>14, PatchTypes DEF Write, Fixing
  <2>2. (seen[r] \ {Patch(r).search}) \cup {Patch(r).replace} \in SUBSET (Text \cup {Own})
    BY <2>1 DEF TypeOK
  <2>3. file' \in [File -> SUBSET (Text \cup {Own})]
    BY <1>14, <2>2 DEF Write, TypeOK
  <2>4. QED
    BY <1>14, <2>3 DEF Write, Goes, TypeOK
<1>15. ASSUME NEW r \in Run, FixFails(r) \/ Crash(r) PROVE TypeOK'
  <2>1. pc[r] = "writing" => Patch(r).path \in File
    BY PatchTypes DEF Fixing
  <2>2. torn' \subseteq File
    BY <1>15, <2>1 DEF FixFails, Crash, TypeOK
  <2>3. QED
    BY <1>15, <2>2 DEF FixFails, Crash, Goes, TypeOK
<1>16. ASSUME NEW r \in Run, Release(r) \/ ReleaseFails(r) PROVE TypeOK'
  <2>1. lease' \in [File -> Run \cup {Nobody, Agent}]
    BY <1>16 DEF Release, ReleaseFails, TypeOK
  <2>2. CASE Fail(r)
    BY <1>16, <2>1, <2>2, FailTypes, Zenon DEF Release, ReleaseFails, TypeOK
  <2>3. CASE ~Fail(r)
    <3>1. /\ pc' \in [Run -> {"start", "backup", "runtime", "repo", "read", "write", "writing",
                             "release", "postcheck", "artifacts", "done", "dead"}]
          /\ at' \in [Run -> Nat \ {0}]
      BY <1>16, <2>3, StepTypes DEF Release, ReleaseFails, Goes, TypeOK
    <3>2. QED
      BY <1>16, <2>1, <2>3, <3>1, Zenon DEF Release, ReleaseFails, TypeOK
  <2>4. QED
    BY <2>2, <2>3
<1>17. ASSUME NEW r \in Run, Postcheck(r) PROVE TypeOK'
  BY <1>17 DEF Postcheck, Goes, TypeOK
<1>18. ASSUME NEW r \in Run, WriteArtifact(r) PROVE TypeOK'
  <2>1. \A a \in Name : Report(r, a) \in [by : Run \cup {Nobody}, lists : SUBSET Nat, ok : BOOLEAN]
    BY DEF Report, TypeOK
  <2>2. artifact' \in [Name -> [by : Run \cup {Nobody}, lists : SUBSET Nat, ok : BOOLEAN]]
    BY <1>18, <2>1, ArtifactNames DEF WriteArtifact, TypeOK, Where
  <2>3. /\ pc' \in [Run -> {"start", "backup", "runtime", "repo", "read", "write", "writing",
                           "release", "postcheck", "artifacts", "done", "dead"}]
        /\ at' \in [Run -> Nat \ {0}]
    BY <1>18, StepTypes DEF WriteArtifact, Goes, TypeOK
  <2>4. QED
    BY <1>18, <2>2, <2>3, Zenon DEF WriteArtifact, TypeOK
<1>19. ASSUME NEW f \in File, AgentBegins(f) \/ AgentEdits(f) PROVE TypeOK'
  <2>1. lease' \in [File -> Run \cup {Nobody, Agent}]
    BY <1>19 DEF AgentBegins, AgentEdits, TypeOK
  <2>2. file' \in [File -> SUBSET (Text \cup {Own})]
    <3>1. CASE AgentBegins(f)
      BY <3>1 DEF AgentBegins, TypeOK
    <3>2. CASE AgentEdits(f)
      BY <3>2 DEF AgentEdits, TypeOK
    <3>3. QED
      BY <1>19, <3>1, <3>2
  <2>3. edited' \subseteq File
    BY <1>19, Zenon DEF AgentBegins, AgentEdits, TypeOK
  <2>4. QED
    BY <1>19, <2>1, <2>2, <2>3, Zenon DEF AgentBegins, AgentEdits, TypeOK, local
<1>20. CASE Tick
  BY <1>20, RunAssumption DEF Tick, TypeOK, local
<1>21. CASE UNCHANGED vars
  BY <1>21 DEF TypeOK, vars, local, world
<1>22. QED
  BY <1>1, <1>2, <1>3, <1>4, <1>5, <1>6, <1>7, <1>8, <1>9, <1>10, <1>11, <1>12, <1>13, <1>14,
     <1>15, <1>16, <1>17, <1>18, <1>19, <1>20, <1>21 DEF Next, Pipeline

LEMMA WhereNext ==
  ASSUME TypeOK, Where, [Next]_vars
  PROVE  Where'
<1>1. ASSUME NEW r \in Run,
             Reject(r) \/ BackupFails(r) \/ BlockAction(r) \/ PsqlFails(r) \/ FixRaises(r)
               \/ ReleaseFails(r)
      PROVE  Where'
  BY <1>1, ArtifactNames
  DEF Reject, BackupFails, BlockAction, PsqlFails, FixRaises, ReleaseFails, Fail, Goes, TypeOK,
      Where, Passed, Fixing, Patch, Applies, AllowApply, Checked, world
<1>2. ASSUME NEW r \in Run, StartBackup(r) PROVE Where'
  BY <1>2, RunAssumption
  DEF StartBackup, Goes, TypeOK, Where, Passed, Fixing, Patch, Applies, AllowApply, Checked, world,
      Never
<1>3. ASSUME NEW r \in Run, Precheck(r) PROVE Where'
  BY <1>3, ArtifactNames, RunAssumption
  DEF Precheck, Fail, Goes, TypeOK, Where, Passed, Fixing, Patch, Applies, AllowApply, Checked,
      Never
<1>4. ASSUME NEW r \in Run, NEW f \in File, CopyTarget(r, f) PROVE Where'
  BY <1>4
  DEF CopyTarget, TypeOK, Where, Passed, Fixing, Patch, Applies, AllowApply, Checked
<1>5. ASSUME NEW r \in Run,
             NoteAction(r) \/ Psql(r) \/ RuntimeDone(r) \/ NoteFix(r) \/ RepoDone(r)
      PROVE  Where'
  BY <1>5
  DEF NoteAction, Psql, RuntimeDone, NoteFix, RepoDone, AtAction, AtFix, Goes, Step, TypeOK,
      Where, Passed, Fixing, Patch, Applies, AllowApply, Checked
<1>6. ASSUME NEW r \in Run, Begin(r) PROVE Where'
  <2>1. at[r] \in DOMAIN payload[r].fixes
    BY <1>6, InputTypes DEF Begin, AtFix, TypeOK
  <2>2. QED
    BY <1>6, <2>1
    DEF Begin, AtFix, Goes, TypeOK, Where, Passed, Fixing, Patch, Applies, AllowApply, Checked
<1>7. ASSUME NEW r \in Run,
             NotFound(r) \/ Read(r) \/ Truncate(r) \/ Write(r) \/ FixFails(r) \/ Crash(r)
      PROVE  Where'
  <2>1. /\ pc[r] \in {"read", "write", "writing"} => pc'[r] \in Fixing \cup {"dead"}
        /\ pc[r] \notin {"read", "write", "writing"} => pc'[r] = "dead"
        /\ \A q \in Run \ {r} : pc'[q] = pc[q]
    BY <1>7 DEF NotFound, Read, Truncate, Write, FixFails, Crash, Goes, TypeOK, Fixing
  <2>2. UNCHANGED <<payload, at, stamp, todo>>
    BY <1>7, Zenon DEF NotFound, Read, Truncate, Write, FixFails, Crash
  <2>3. QED
    BY <2>1, <2>2 DEF Where, Passed, Fixing, Patch, Applies, AllowApply, Checked
<1>8. ASSUME NEW r \in Run, Release(r) PROVE Where'
  BY <1>8, ArtifactNames
  DEF Release, Fail, Goes, Step, TypeOK, Where, Passed, Fixing, Patch, Applies, AllowApply, Checked
<1>9. ASSUME NEW r \in Run, Postcheck(r) \/ WriteArtifact(r) PROVE Where'
  BY <1>9, ArtifactNames
  DEF Postcheck, WriteArtifact, Goes, Step, TypeOK, Where, Passed, Fixing, Patch, Applies,
      AllowApply, Checked
<1>10. CASE \/ \E f \in File : AgentBegins(f) \/ AgentEdits(f)
            \/ Tick
            \/ UNCHANGED vars
  BY <1>10
  DEF AgentBegins, AgentEdits, Tick, vars, local, Where, Passed, Fixing, Patch, Applies,
      AllowApply, Checked
<1>11. QED
  BY <1>1, <1>2, <1>3, <1>4, <1>5, <1>6, <1>7, <1>8, <1>9, <1>10 DEF Next, Pipeline

\* The state is typed, and where a run is tells what it has passed (any number
\* of runs, files and inputs).
THEOREM TypeCorrect == Spec => [](TypeOK /\ Where)
<1>1. Init => TypeOK /\ Where
  BY TypeInit
<1>2. TypeOK /\ Where /\ [Next]_vars => (TypeOK /\ Where)'
  BY TypeNext, WhereNext
<1>3. QED
  BY <1>1, <1>2, PTL DEF Spec

-----------------------------------------------------------------------------
(* Nothing before the gate *)

Open(r) == AllowApply(r) /\ Checked(r) /\ stamp[r] # Never /\ todo[r] = {}

ExecutedOpen(x) ==
  /\ x[1] \in Run /\ Open(x[1])
  /\ x[2] \in DOMAIN payload[x[1]].actions
  /\ payload[x[1]].actions[x[2]].eligible
  /\ Safe(x[1], payload[x[1]].actions[x[2]])

WrittenOpen(x) ==
  /\ x[1] \in Run /\ Open(x[1])
  /\ x[2] \in DOMAIN payload[x[1]].fixes
  /\ payload[x[1]].fixes[x[2]].eligible

Opened ==
  /\ \A x \in executed : ExecutedOpen(x)
  /\ \A x \in written : WrittenOpen(x)
  /\ \A r \in shelled : r \in Run /\ Open(r)

LEMMA PayloadStays ==
  ASSUME [Next]_vars
  PROVE  UNCHANGED payload
BY Zenon
DEF Next, Pipeline, vars, local, world, Reject, StartBackup, BackupFails, Precheck, CopyTarget, NoteAction,
    BlockAction, Psql, PsqlFails, RuntimeDone, NoteFix, Begin, FixRaises, NotFound, Read, Truncate,
    Write, FixFails, Release, ReleaseFails, RepoDone, Postcheck, WriteArtifact, Crash, AgentBegins,
    AgentEdits, Tick, Fail

\* No step closes the gate of a run that has passed it.
LEMMA OpenStays ==
  ASSUME TypeOK, Where, [Next]_vars, NEW q \in Run, Open(q)
  PROVE  Open(q)'
<1>1. UNCHANGED payload
  BY PayloadStays
<1>2. CASE UNCHANGED <<stamp, todo>>
  BY <1>1, <1>2 DEF Open, AllowApply, Checked
<1>3. ASSUME NEW r \in Run, StartBackup(r) PROVE Open(q)'
  <2>1. q # r
    BY <1>3 DEF StartBackup, Where, Open
  <2>2. QED
    BY <1>1, <1>3, <2>1 DEF StartBackup, TypeOK, Open, AllowApply, Checked
<1>4. ASSUME NEW r \in Run, NEW f \in File, CopyTarget(r, f) PROVE Open(q)'
  BY <1>1, <1>4 DEF CopyTarget, TypeOK, Open, AllowApply, Checked
<1>5. QED
  BY <1>2, <1>3, <1>4, Zenon
  DEF Next, Pipeline, vars, local, world, Reject, BackupFails, Precheck, NoteAction,
      BlockAction, Psql, PsqlFails, RuntimeDone, NoteFix, Begin, FixRaises, NotFound, Read, Truncate,
      Write, FixFails, Release, ReleaseFails, RepoDone, Postcheck, WriteArtifact, Crash, AgentBegins,
      AgentEdits, Tick, Fail

LEMMA OpenedNext ==
  ASSUME TypeOK, Where, Opened, [Next]_vars
  PROVE  Opened'
<1>1. UNCHANGED payload
  BY PayloadStays
<1>2. \A x : ExecutedOpen(x) => ExecutedOpen(x)'
  BY <1>1, OpenStays DEF ExecutedOpen, Safe
<1>3. \A x : WrittenOpen(x) => WrittenOpen(x)'
  BY <1>1, OpenStays DEF WrittenOpen
<1>4. \A r \in shelled : r \in Run /\ Open(r)'
  BY OpenStays DEF Opened
<1>5. CASE UNCHANGED <<executed, written, shelled>>
  BY <1>2, <1>3, <1>4, <1>5 DEF Opened
<1>6. ASSUME NEW r \in Run, Psql(r) \/ PsqlFails(r) PROVE Opened'
  <2>1. ExecutedOpen(<<r, at[r]>>)
    <3>1. PICK a \in Action : AtAction(r, a) /\ Runs(r, a)
      BY <1>6, Zenon DEF Psql, PsqlFails
    <3>2. at[r] \in DOMAIN payload[r].actions /\ a = payload[r].actions[at[r]]
      BY <3>1, InputTypes DEF AtAction, TypeOK
    <3>3. Open(r)
      BY <3>1 DEF AtAction, Runs, Open, Where, Passed
    <3>4. QED
      BY <3>1, <3>2, <3>3 DEF Runs, ExecutedOpen
  <2>2. executed' \subseteq executed \cup {<<r, at[r]>>}
    BY <1>6 DEF Psql, PsqlFails
  <2>3. UNCHANGED <<written, shelled>>
    BY <1>6 DEF Psql, PsqlFails
  <2>4. QED
    BY <1>2, <1>3, <1>4, <2>1, <2>2, <2>3 DEF Opened
<1>7. ASSUME NEW r \in Run, Write(r) PROVE Opened'
  <2>1. WrittenOpen(<<r, at[r]>>)
    BY <1>7 DEF Write, Where, Passed, Fixing, Applies, Patch, WrittenOpen, Open
  <2>2. written' = written \cup {<<r, at[r]>>} /\ UNCHANGED <<executed, shelled>>
    BY <1>7 DEF Write
  <2>3. QED
    BY <1>2, <1>3, <1>4, <2>1, <2>2 DEF Opened
<1>8. ASSUME NEW r \in Run, Postcheck(r) PROVE Opened'
  <2>1. shelled' \subseteq shelled \cup {r} /\ (r \in shelled' \ shelled => Open(r))
    BY <1>8 DEF Postcheck, Where, Passed, Open
  <2>2. UNCHANGED <<executed, written>>
    BY <1>8 DEF Postcheck
  <2>3. QED
    BY <1>2, <1>3, <1>4, <2>1, <2>2, OpenStays DEF Opened
<1>9. QED
  BY <1>5, <1>6, <1>7, <1>8, Zenon
  DEF Next, Pipeline, vars, local, world, Reject, StartBackup, BackupFails, Precheck, CopyTarget, NoteAction,
      BlockAction, RuntimeDone, NoteFix, Begin, FixRaises, NotFound, Read, Truncate,
      FixFails, Release, ReleaseFails, RepoDone, WriteArtifact, Crash, AgentBegins, AgentEdits, Tick

LEMMA GatedHolds ==
  ASSUME Opened
  PROVE  Gated
<1>1. ASSUME NEW r \in Run,
             r \in shelled \/ \E n \in 1 .. Len(payload[r].actions) + Len(payload[r].fixes) :
                               <<r, n>> \in executed \cup written
      PROVE  Open(r)
  BY <1>1 DEF Opened, ExecutedOpen, WrittenOpen
<1>2. QED
  BY <1>1 DEF Opened, ExecutedOpen, WrittenOpen, Gated, Open, AllowApply, Checked

\* Whatever is refused, fails or is killed, nothing is changed except in apply
\* mode outside prod after a complete snapshot (enforce, run_pipeline).
THEOREM GateHolds == Spec => []Gated
<1>1. Init => Opened
  BY DEF Init, Opened
<1>2. TypeOK /\ Where /\ Opened /\ [Next]_vars => Opened'
  BY OpenedNext
<1>3. Opened => Gated
  BY GatedHolds
<1>4. QED
  BY <1>1, <1>2, <1>3, TypeCorrect, PTL DEF Spec

-----------------------------------------------------------------------------
(* Reports *)

Ran(r)   == {n \in Nat : <<r, n>> \in executed}
Wrote(r) == {n \in Nat : <<r, n>> \in written}

\* The lists of a run are what it did: all of it as long as nothing failed.
Told(r) ==
  /\ runtime[r] \subseteq Ran(r) /\ repo[r] \subseteq Wrote(r)
  /\ pc[r] \in {"start", "backup"} => Ran(r) = {} /\ Wrote(r) = {} /\ results[r] = {}
  /\ pc[r] = "runtime" => results[r] = Ran(r) /\ Wrote(r) = {}
  /\ pc[r] \in {"repo"} \cup Fixing => runtime[r] = Ran(r) /\ results[r] = Wrote(r)
  /\ (pc[r] = "postcheck" \/ (pc[r] \in {"artifacts", "done"} /\ ~failed[r])) =>
       runtime[r] = Ran(r) /\ repo[r] = Wrote(r)
  /\ failed[r] => pc[r] \in {"release", "artifacts", "done", "dead"}

\* An artifact is the report of a run that has ended or is writing them.
Filed(a) ==
  LET r == artifact[a].by IN
  \/ r = Nobody /\ artifact[a].lists = {} /\ ~artifact[a].ok
  \/ /\ r \in Run /\ pc[r] \in {"artifacts", "done", "dead"}
     /\ artifact[a] = Report(r, a)
     /\ artifact[a].ok => runtime[r] = Ran(r) /\ repo[r] = Wrote(r)

Tally == \A r \in Run : Told(r)
Filing == \A a \in Name : Filed(a)

\* A step of a run leaves the other runs where they are.
LEMMA OthersStay ==
  ASSUME TypeOK, NEW r \in Run, Pipeline(r), NEW q \in Run, q # r
  PROVE  /\ pc'[q] = pc[q] /\ at'[q] = at[q] /\ seen'[q] = seen[q] /\ failed'[q] = failed[q]
         /\ results'[q] = results[q] /\ runtime'[q] = runtime[q] /\ repo'[q] = repo[q]
<1>1. CASE Fail(r)
  BY <1>1 DEF Fail, Goes, TypeOK
<1>2. CASE StartBackup(r) \/ (\E f \in File : CopyTarget(r, f)) \/ NoteAction(r) \/ NoteFix(r)
  BY <1>2 DEF StartBackup, CopyTarget, NoteAction, NoteFix, Goes, Step, TypeOK, world
<1>3. CASE Precheck(r)
  BY <1>1, <1>3 DEF Precheck, Goes, TypeOK
<1>4. CASE Psql(r)
  BY <1>4 DEF Psql, Step, TypeOK
<1>5. CASE RuntimeDone(r)
  BY <1>5 DEF RuntimeDone, Goes, TypeOK
<1>6. CASE RepoDone(r)
  BY <1>6 DEF RepoDone, Goes, TypeOK
<1>7. CASE Begin(r) \/ NotFound(r) \/ Read(r) \/ Truncate(r)
  BY <1>7 DEF Begin, NotFound, Read, Truncate, Goes, TypeOK
<1>8. CASE Write(r)
  BY <1>8 DEF Write, Goes, TypeOK
<1>9. CASE FixFails(r)
  BY <1>9 DEF FixFails, Goes, TypeOK
<1>10. CASE Release(r)
  BY <1>1, <1>10 DEF Release, Goes, Step, TypeOK
<1>11. CASE Postcheck(r) \/ WriteArtifact(r)
  BY <1>11 DEF Postcheck, WriteArtifact, Goes, Step, TypeOK
<1>12. CASE Crash(r)
  BY <1>12 DEF Crash, Goes, TypeOK
<1>13. QED
  BY <1>1, <1>2, <1>3, <1>4, <1>5, <1>6, <1>7, <1>8, <1>9, <1>10, <1>11, <1>12, Zenon
  DEF Pipeline, Reject, BackupFails, BlockAction, PsqlFails, FixRaises, ReleaseFails

\* What it does is under its own name.
LEMMA OwnMarks ==
  ASSUME NEW r \in Run, Pipeline(r)
  PROVE  /\ executed \subseteq executed' /\ executed' \subseteq executed \cup {<<r, at[r]>>}
         /\ written \subseteq written' /\ written' \subseteq written \cup {<<r, at[r]>>}
<1>1. CASE UNCHANGED <<executed, written>>
  BY <1>1
<1>2. CASE Psql(r) \/ PsqlFails(r) \/ Write(r)
  BY <1>2 DEF Psql, PsqlFails, Write
<1>3. QED
  BY <1>1, <1>2, Zenon
  DEF Pipeline, Reject, StartBackup, BackupFails, Precheck, CopyTarget, NoteAction, BlockAction,
      RuntimeDone, NoteFix, Begin, FixRaises, NotFound, Read, Truncate, FixFails, Release,
      ReleaseFails, RepoDone, Postcheck, WriteArtifact, Crash, world

LEMMA OthersTold ==
  ASSUME TypeOK, NEW r \in Run, Pipeline(r), NEW q \in Run, q # r, Told(q)
  PROVE  Told(q)'
<1>1. Ran(q)' = Ran(q) /\ Wrote(q)' = Wrote(q)
  BY OwnMarks DEF Ran, Wrote
<1>2. QED
  BY <1>1, OthersStay, Zenon DEF Told

LEMMA FailTold ==
  ASSUME TypeOK, NEW r \in Run, Told(r), Fail(r),
         executed \subseteq executed', written' = written
  PROVE  Told(r)'
<1>1. Ran(r) \subseteq Ran(r)' /\ Wrote(r)' = Wrote(r)
  BY DEF Ran, Wrote
<1>2. pc'[r] = "artifacts" /\ failed'[r] = TRUE /\ runtime'[r] = runtime[r] /\ repo'[r] = repo[r]
  BY DEF Fail, Goes, TypeOK
<1>3. QED
  BY <1>1, <1>2 DEF Told, Fixing

LEMMA TallyNext ==
  ASSUME TypeOK, Where, Tally, [Next]_vars
  PROVE  Tally'
<1>1. ASSUME NEW r \in Run, Pipeline(r) PROVE Told(r)'
  <2> DEFINE Quiet == UNCHANGED <<executed, written>>
  <2>1. Told(r) /\ (Quiet => Ran(r)' = Ran(r) /\ Wrote(r)' = Wrote(r))
    BY DEF Tally, Ran, Wrote
  <2>2. CASE Fail(r) /\ UNCHANGED written
    BY <2>1, <2>2, OwnMarks, <1>1, FailTold
  <2>3. CASE StartBackup(r) \/ (\E f \in File : CopyTarget(r, f)) \/ NoteAction(r) \/ NoteFix(r)
    BY <2>1, <2>3
    DEF StartBackup, CopyTarget, NoteAction, NoteFix, Goes, Step, TypeOK, world, Told, Fixing
  <2>4. CASE Precheck(r) /\ ~Fail(r)
    BY <2>1, <2>4 DEF Precheck, Goes, TypeOK, world, Told, Fixing
  <2>5. CASE Psql(r)
    <3>1. Ran(r)' = Ran(r) \cup {at[r]} /\ Wrote(r)' = Wrote(r)
      BY <2>5 DEF Psql, TypeOK, Ran, Wrote
    <3>2. /\ pc[r] = "runtime" /\ UNCHANGED <<pc, runtime, repo, failed>>
          /\ results'[r] = results[r] \cup {at[r]}
      BY <2>5 DEF Psql, AtAction, TypeOK
    <3>3. QED
      BY <2>1, <3>1, <3>2 DEF Told, Fixing
  <2>6. CASE RuntimeDone(r)
    BY <2>1, <2>6 DEF RuntimeDone, Goes, TypeOK, world, Told, Fixing
  <2>7. CASE Begin(r) \/ NotFound(r) \/ Read(r) \/ Truncate(r)
    BY <2>1, <2>7
    DEF Begin, AtFix, NotFound, Read, Truncate, Goes, TypeOK, world, Told, Fixing
  <2>8. CASE Write(r)
    <3>1. Wrote(r)' = Wrote(r) \cup {at[r]} /\ Ran(r)' = Ran(r)
      BY <2>8 DEF Write, TypeOK, Ran, Wrote
    <3>2. /\ pc[r] = "writing" /\ pc'[r] = "release" /\ UNCHANGED <<runtime, repo, failed>>
          /\ results'[r] = results[r] \cup {at[r]}
      BY <2>8 DEF Write, Goes, TypeOK
    <3>3. QED
      BY <2>1, <3>1, <3>2 DEF Told, Fixing
  <2>9. CASE FixFails(r) \/ Crash(r)
    BY <2>1, <2>9 DEF FixFails, Crash, Goes, TypeOK, Told, Fixing
  <2>10. CASE Release(r) /\ ~Fail(r)
    BY <2>1, <2>10 DEF Release, Goes, Step, TypeOK, Told, Fixing
  <2>11. CASE RepoDone(r)
    BY <2>1, <2>11 DEF RepoDone, Goes, TypeOK, world, Told, Fixing
  <2>12. CASE Postcheck(r) \/ WriteArtifact(r)
    BY <2>1, <2>12 DEF Postcheck, WriteArtifact, Goes, Step, TypeOK, Told, Fixing
  <2>13. QED
    BY <1>1, <2>2, <2>3, <2>4, <2>5, <2>6, <2>7, <2>8, <2>9, <2>10, <2>11, <2>12, Zenon
    DEF Pipeline, Reject, BackupFails, BlockAction, PsqlFails, FixRaises, ReleaseFails, Precheck,
        Release, world
<1>2. ASSUME NEW r \in Run, Pipeline(r) PROVE Tally'
  BY <1>1, <1>2, OthersTold DEF Tally
<1>3. CASE \/ \E f \in File : AgentBegins(f) \/ AgentEdits(f)
           \/ Tick
           \/ UNCHANGED vars
  BY <1>3 DEF AgentBegins, AgentEdits, Tick, vars, local, world, Tally, Told, Ran, Wrote
<1>4. QED
  BY <1>2, <1>3 DEF Next

\* A run that writes artifacts, or has, does nothing else.
LEMMA EndedStays ==
  ASSUME TypeOK, NEW r \in Run, pc[r] \in {"artifacts", "done", "dead"}, [Next]_vars
  PROVE  /\ pc'[r] \in {"artifacts", "done", "dead"}
         /\ runtime'[r] = runtime[r] /\ repo'[r] = repo[r] /\ failed'[r] = failed[r]
         /\ Ran(r)' = Ran(r) /\ Wrote(r)' = Wrote(r)
<1>1. ASSUME Pipeline(r)
      PROVE  /\ WriteArtifact(r) \/ Crash(r)
  BY <1>1
  DEF Pipeline, Reject, StartBackup, BackupFails, Precheck, CopyTarget, NoteAction, BlockAction,
      Psql, PsqlFails, RuntimeDone, NoteFix, Begin, FixRaises, NotFound, Read, Truncate, Write,
      FixFails, Release, ReleaseFails, RepoDone, Postcheck, AtAction, AtFix
<1>2. CASE Pipeline(r)
  BY <1>1, <1>2 DEF WriteArtifact, Crash, Goes, TypeOK, Ran, Wrote
<1>3. ASSUME NEW q \in Run, q # r, Pipeline(q)
      PROVE  /\ pc'[r] = pc[r]
             /\ runtime'[r] = runtime[r] /\ repo'[r] = repo[r] /\ failed'[r] = failed[r]
             /\ Ran(r)' = Ran(r) /\ Wrote(r)' = Wrote(r)
  BY <1>3, OthersStay, OwnMarks DEF Ran, Wrote
<1>4. CASE \/ \E f \in File : AgentBegins(f) \/ AgentEdits(f)
           \/ Tick
           \/ UNCHANGED vars
  BY <1>4 DEF AgentBegins, AgentEdits, Tick, vars, local, world, Ran, Wrote
<1>5. QED
  BY <1>2, <1>3, <1>4 DEF Next

LEMMA FilingNext ==
  ASSUME TypeOK, Where, Tally, Filing, [Next]_vars
  PROVE  Filing'
<1> SUFFICES ASSUME NEW a \in Name PROVE Filed(a)'
  BY DEF Filing
<1>1. CASE artifact'[a] = artifact[a]
  <2>1. Filed(a)
    BY DEF Filing
  <2>2. QED
    BY <1>1, <2>1, EndedStays DEF Filed, Report
<1>2. ASSUME NEW r \in Run, WriteArtifact(r) PROVE Filed(a)'
  <2>1. artifact'[a] \in {artifact[a], Report(r, a)}
    BY <1>2, ArtifactNames DEF WriteArtifact, TypeOK, Where
  <2>2. CASE artifact'[a] = Report(r, a)
    <3>1. ~failed[r] => runtime[r] = Ran(r) /\ repo[r] = Wrote(r)
      BY <1>2 DEF WriteArtifact, Tally, Told
    <3>2. UNCHANGED <<runtime, repo, failed, executed, written>> /\ pc'[r] \in {"artifacts", "done"}
      BY <1>2 DEF WriteArtifact, Goes, Step, TypeOK
    <3>3. Report(r, a)' = Report(r, a) /\ Ran(r)' = Ran(r) /\ Wrote(r)' = Wrote(r)
      BY <3>2 DEF Report, Ran, Wrote
    <3>4. artifact'[a].by = r /\ artifact'[a].ok = ~failed[r]
      BY <2>2 DEF Report
    <3>5. (artifact[a] = Report(r, a))'
      BY <2>2, <3>3
    <3>6. (artifact[a].ok => runtime[r] = Ran(r) /\ repo[r] = Wrote(r))'
      BY <3>1, <3>2, <3>3, <3>4
    <3>7. QED
      BY <3>2, <3>4, <3>5, <3>6 DEF Filed
  <2>3. QED
    BY <1>1, <2>1, <2>2
<1>3. CASE UNCHANGED artifact
  BY <1>1, <1>3
<1>4. QED
  BY <1>2, <1>3, Zenon
  DEF Next, Pipeline, vars, local, world, Reject, StartBackup, BackupFails, Precheck, CopyTarget,
      NoteAction, BlockAction, Psql, PsqlFails, RuntimeDone, NoteFix, Begin, FixRaises, NotFound,
      Read, Truncate, Write, FixFails, Release, ReleaseFails, RepoDone, Postcheck, Crash,
      AgentBegins, AgentEdits, Tick

\* What an artifact lists was done by the run that wrote it (write_artifacts).
LEMMA ReportsHold ==
  ASSUME TypeOK, Tally, Filing
  PROVE  ReportsTrue
<1> SUFFICES ASSUME NEW a \in Name, NEW n \in artifact[a].lists
             PROVE  <<artifact[a].by, n>> \in IF a = "applied-runtime-sql" THEN executed ELSE written
  BY DEF ReportsTrue
<1> DEFINE r == artifact[a].by
<1>1. r \in Run /\ artifact[a] = Report(r, a)
  BY DEF Filing, Filed
<1>2. runtime[r] \subseteq Ran(r) /\ repo[r] \subseteq Wrote(r)
  BY <1>1 DEF Tally, Told
<1>3. artifact[a].lists = IF a = "applied-runtime-sql" THEN runtime[r]
                          ELSE IF a = "postcheck-report" THEN {} ELSE repo[r]
  BY <1>1 DEF Report
<1>4. QED
  BY <1>2, <1>3 DEF Ran, Wrote

LEMMA SuccessHolds ==
  ASSUME TypeOK, Opened, Tally, Filing
  PROVE  SuccessComplete
<1> DEFINE r == artifact["postcheck-report"].by
<1> SUFFICES ASSUME artifact["postcheck-report"].ok
             PROVE  /\ artifact["applied-runtime-sql"].by = r =>
                         \A x \in executed : x[1] = r => x[2] \in artifact["applied-runtime-sql"].lists
                    /\ artifact["applied-repo-changes"].by = r =>
                         \A x \in written : x[1] = r => x[2] \in artifact["applied-repo-changes"].lists
  BY DEF SuccessComplete
<1>1. r \in Run /\ runtime[r] = Ran(r) /\ repo[r] = Wrote(r)
  BY ArtifactNames DEF Filing, Filed
<1>2. ASSUME artifact["applied-runtime-sql"].by = r
      PROVE  artifact["applied-runtime-sql"].lists = runtime[r]
  <2>1. Filed("applied-runtime-sql") /\ r # Nobody
    BY <1>1, ArtifactNames, RunAssumption DEF Filing
  <2>2. artifact["applied-runtime-sql"] = Report(r, "applied-runtime-sql")
    BY <1>2, <2>1 DEF Filed
  <2>3. QED
    BY <2>2 DEF Report
<1>3. ASSUME artifact["applied-repo-changes"].by = r
      PROVE  artifact["applied-repo-changes"].lists = repo[r]
  <2>1. Filed("applied-repo-changes") /\ r # Nobody
    BY <1>1, ArtifactNames, RunAssumption DEF Filing
  <2>2. artifact["applied-repo-changes"] = Report(r, "applied-repo-changes")
    BY <1>3, <2>1 DEF Filed
  <2>3. QED
    BY <2>2 DEF Report
<1>4. \A x \in executed : x = <<x[1], x[2]>> /\ x[2] \in Nat
  BY DEF TypeOK
<1>5. \A x \in written : x = <<x[1], x[2]>> /\ x[2] \in Nat
  BY DEF TypeOK
<1>6. QED
  BY <1>1, <1>2, <1>3, <1>4, <1>5 DEF Ran, Wrote

\* What an artifact lists as applied was applied by its run, and where the
\* postcheck report says success the artifacts of that run list everything
\* (main, write_artifacts; any number of runs in one output directory).
THEOREM ArtifactsHold == Spec => []ArtifactsTrue
<1>1. Init => Tally /\ Filing /\ Opened
  <2> SUFFICES ASSUME Init PROVE Tally /\ Filing /\ Opened
    OBVIOUS
  <2>1. Tally
    BY DEF Init, Tally, Told, Ran, Wrote, Fixing
  <2>2. \A a \in Name : artifact[a] = [by |-> Nobody, lists |-> {}, ok |-> FALSE]
    BY DEF Init
  <2>3. Filing
    BY <2>2 DEF Filing, Filed
  <2>4. QED
    BY <2>1, <2>3 DEF Init, Opened
<1>2. TypeOK /\ Where /\ Tally /\ Filing /\ Opened /\ [Next]_vars => (Tally /\ Filing /\ Opened)'
  BY TallyNext, FilingNext, OpenedNext
<1>3. TypeOK /\ Opened /\ Tally /\ Filing => ArtifactsTrue
  BY ReportsHold, SuccessHolds DEF ArtifactsTrue
<1>4. QED
  BY <1>1, <1>2, <1>3, TypeCorrect, PTL DEF Spec

-----------------------------------------------------------------------------
(* Sessions *)

Held == \A r \in Run : pc[r] \in Fixing => lease[Patch(r).path] = r

LEMMA HeldNext ==
  ASSUME TypeOK, Where, Held, [Next]_vars
  PROVE  Held'
<1>1. ASSUME NEW r \in Run, Pipeline(r), NEW q \in Run, q # r, pc'[q] \in Fixing
      PROVE  (lease[Patch(q).path] = q)'
  <2>1. pc[q] \in Fixing /\ Patch(q)' = Patch(q)
    BY <1>1, OthersStay, PayloadStays DEF Patch, Next
  <2>2. lease[Patch(q).path] = q /\ Patch(q).path \in File
    BY <2>1, PatchTypes DEF Held
  <2>3. CASE UNCHANGED lease
    BY <2>1, <2>2, <2>3
  <2>4. CASE /\ lease[Patch(r).path] = Nobody
             /\ lease' = [lease EXCEPT ![Patch(r).path] = r]
    BY <2>1, <2>2, <2>4, RunAssumption DEF TypeOK
  <2>5. CASE lease' = [lease EXCEPT ![Patch(r).path] = IF @ = r THEN Nobody ELSE @]
    BY <1>1, <2>1, <2>2, <2>5 DEF TypeOK
  <2>6. QED
    BY <1>1, <2>3, <2>4, <2>5, Zenon
    DEF Pipeline, world, Reject, StartBackup, BackupFails, Precheck, CopyTarget,
      NoteAction, BlockAction, Psql, PsqlFails, RuntimeDone, NoteFix, Begin, FixRaises, NotFound,
      Read, Truncate, Write, FixFails, Release, ReleaseFails, RepoDone, Postcheck, WriteArtifact,
      Crash
<1>2. ASSUME NEW r \in Run, Pipeline(r), pc'[r] \in Fixing
      PROVE  (lease[Patch(r).path] = r)'
  <2>1. CASE Begin(r)
    <3>1. Patch(r)' = Patch(r) /\ Patch(r).path \in File
      <4>1. at[r] \in DOMAIN payload[r].fixes /\ payload[r].fixes \in Seq(Fix)
        BY <2>1, InputTypes DEF Begin, AtFix, TypeOK
      <4>2. Patch(r) \in Fix
        BY <4>1 DEF Patch
      <4>3. QED
        BY <2>1, <4>2 DEF Begin, Patch, Fix
    <3>2. QED
      BY <2>1, <3>1 DEF Begin, TypeOK
  <2>2. CASE NotFound(r) \/ Read(r) \/ Truncate(r) \/ Write(r) \/ FixFails(r)
    <3>1. pc[r] \in Fixing /\ UNCHANGED <<payload, at, lease>>
      BY <2>2 DEF NotFound, Read, Truncate, Write, FixFails, Fixing, world
    <3>2. QED
      BY <3>1 DEF Held, Patch
  <2>3. ASSUME ~Begin(r), ~(NotFound(r) \/ Read(r) \/ Truncate(r) \/ Write(r) \/ FixFails(r))
        PROVE  pc'[r] \notin Fixing
    <3>1. CASE Fail(r)
      BY <3>1 DEF Fail, Goes, TypeOK, Fixing
    <3>2. CASE ~Fail(r)
      BY <1>2, <2>3, <3>2
      DEF Pipeline, Reject, StartBackup, BackupFails, Precheck, CopyTarget,
        NoteAction, BlockAction, Psql, PsqlFails, RuntimeDone, NoteFix, FixRaises,
        Release, ReleaseFails, RepoDone, Postcheck, WriteArtifact, Crash, AtAction, AtFix, Goes,
        TypeOK, Fixing
    <3>3. QED
      BY <3>1, <3>2
  <2>4. QED
    BY <1>2, <2>1, <2>2, <2>3
<1>3. ASSUME NEW f \in File, AgentBegins(f) \/ AgentEdits(f) PROVE Held'
  <2>1. \A r \in Run : Patch(r)' = Patch(r) /\ pc'[r] = pc[r]
    BY <1>3 DEF AgentBegins, AgentEdits, local, Patch
  <2>2. lease[f] \in {Nobody, Agent} /\ \A g \in File \ {f} : lease'[g] = lease[g]
    BY <1>3 DEF AgentBegins, AgentEdits, TypeOK
  <2>3. QED
    BY <2>1, <2>2, PatchTypes, RunAssumption DEF Held
<1>4. CASE Tick \/ UNCHANGED vars
  BY <1>4 DEF Tick, vars, local, world, Held, Patch
<1>5. QED
  BY <1>1, <1>2, <1>3, <1>4 DEF Next, Held

\* Where another agent's text is, while a fix of the file is under way.
Kept ==
  \A f \in edited \ torn :
    /\ Own \in file[f] \/ \E r \in Run : pc[r] = "writing" /\ Patch(r).path = f
    /\ \A r \in Run : pc[r] \in {"write", "writing"} /\ Patch(r).path = f => Own \in seen[r]

\* The steps of a run that touch no file and begin no write.
Aside(r) ==
  /\ UNCHANGED <<file, written, edited, torn>>
  /\ pc[r] # "writing" /\ pc'[r] \notin {"write", "writing"}

LEMMA StepsAside ==
  ASSUME TypeOK, NEW r \in Run, Pipeline(r), ~Read(r), ~Truncate(r), ~Write(r), ~FixFails(r), ~Crash(r)
  PROVE  Aside(r)
<1>1. UNCHANGED <<file, written, edited, torn>>
  BY Zenon
  DEF Pipeline, world, Reject, StartBackup, BackupFails, Precheck, CopyTarget,
    NoteAction, BlockAction, Psql, PsqlFails, RuntimeDone, NoteFix, Begin, FixRaises, NotFound,
    Release, ReleaseFails, RepoDone, Postcheck, WriteArtifact
<1>2. CASE Fail(r)
  <2>1. pc'[r] = "artifacts"
    BY <1>2 DEF Fail, Goes, TypeOK
  <2>2. pc[r] # "writing"
    BY
    DEF Pipeline, Reject, StartBackup, BackupFails, Precheck, CopyTarget,
      NoteAction, BlockAction, Psql, PsqlFails, RuntimeDone, NoteFix, Begin, FixRaises, NotFound,
      Release, ReleaseFails, RepoDone, Postcheck, WriteArtifact, AtAction, AtFix
  <2>3. QED
    BY <1>1, <2>1, <2>2 DEF Aside
<1>3. CASE ~Fail(r)
  <2>1. pc[r] # "writing" /\ pc'[r] \notin {"write", "writing"}
    BY <1>3
    DEF Pipeline, Reject, StartBackup, BackupFails, Precheck, CopyTarget,
      NoteAction, BlockAction, Psql, PsqlFails, RuntimeDone, NoteFix, Begin, FixRaises, NotFound,
      Release, ReleaseFails, RepoDone, Postcheck, WriteArtifact, AtAction, AtFix, Goes, TypeOK
  <2>2. QED
    BY <1>1, <2>1 DEF Aside
<1>4. QED
  BY <1>2, <1>3

LEMMA KeptNext ==
  ASSUME TypeOK, Where, Held, Kept, [Next]_vars
  PROVE  Kept'
<1>1. \A q \in Run : pc'[q] = pc[q] /\ at'[q] = at[q] => Patch(q)' = Patch(q)
  BY PayloadStays DEF Patch
<1>2. ASSUME NEW r \in Run, Pipeline(r), Aside(r) PROVE Kept'
  BY <1>1, <1>2, OthersStay DEF Aside, Kept
<1>3. ASSUME NEW r \in Run, Read(r) PROVE Kept'
  <2>1. \A q \in Run \ {r} : pc[q] = "writing" => Patch(q).path # Patch(r).path
    BY <1>3 DEF Read, Held, Fixing
  <2>2. UNCHANGED <<payload, at, file, edited, torn>> /\ pc[r] = "read"
    BY <1>3 DEF Read, world
  <2>3. /\ pc'[r] = "write" /\ seen'[r] = file[Patch(r).path]
        /\ \A q \in Run \ {r} : pc'[q] = pc[q] /\ seen'[q] = seen[q]
    BY <1>3 DEF Read, Goes, TypeOK
  <2>4. QED
    BY <2>1, <2>2, <2>3 DEF Kept, Patch
<1>4. ASSUME NEW r \in Run, Truncate(r) PROVE Kept'
  <2>1. UNCHANGED <<payload, at, seen, edited, torn>> /\ pc[r] = "write"
    BY <1>4 DEF Truncate
  <2>2. /\ pc'[r] = "writing" /\ \A q \in Run \ {r} : pc'[q] = pc[q]
        /\ \A f \in File : f # Patch(r).path => file'[f] = file[f]
    BY <1>4 DEF Truncate, Goes, TypeOK
  <2>3. edited \subseteq File
    BY DEF TypeOK
  <2>4. QED
    BY <2>1, <2>2, <2>3 DEF Kept, Patch
<1>5. ASSUME NEW r \in Run, Write(r) PROVE Kept'
  <2> DEFINE p == Patch(r).path
  <2>1. Patch(r).search # Own /\ p \in File
    BY <1>5, PatchTypes, TextAssumption DEF Write, Fixing
  <2>2. UNCHANGED <<payload, at, edited, torn>> /\ pc[r] = "writing"
    BY <1>5 DEF Write
  <2>3. /\ pc'[r] = "release"
        /\ \A q \in Run \ {r} : pc'[q] = pc[q] /\ seen'[q] = seen[q]
        /\ file'[p] = (seen[r] \ {Patch(r).search}) \cup {Patch(r).replace}
        /\ \A f \in File : f # p => file'[f] = file[f]
    BY <1>5, <2>1 DEF Write, Goes, TypeOK
  <2>4. p \in edited \ torn => Own \in file'[p]
    BY <2>1, <2>2, <2>3 DEF Kept
  <2>5. edited \subseteq File
    BY DEF TypeOK
  <2>6. QED
    BY <2>2, <2>3, <2>4, <2>5 DEF Kept, Patch
<1>6. ASSUME NEW r \in Run, FixFails(r) \/ Crash(r) PROVE Kept'
  <2>1. /\ UNCHANGED <<payload, at, file, edited>>
        /\ torn' = IF pc[r] = "writing" THEN torn \cup {Patch(r).path} ELSE torn
    BY <1>6 DEF FixFails, Crash
  <2>2. /\ pc'[r] \in {"release", "dead"}
        /\ \A q \in Run \ {r} : pc'[q] = pc[q] /\ seen'[q] = seen[q]
    BY <1>6 DEF FixFails, Crash, Goes, TypeOK
  <2>3. QED
    BY <2>1, <2>2 DEF Kept, Patch
<1>7. ASSUME NEW f \in File, AgentBegins(f) PROVE Kept'
  BY <1>7 DEF AgentBegins, local, Kept, Patch
<1>8. ASSUME NEW f \in File, AgentEdits(f) PROVE Kept'
  <2>1. \A r \in Run : pc[r] \in Fixing => Patch(r).path # f
    BY <1>8, RunAssumption DEF AgentEdits, Held
  <2>2. UNCHANGED <<payload, pc, at, seen, torn>> /\ edited' = edited \cup {f}
    BY <1>8 DEF AgentEdits, local
  <2>3. file'[f] = file[f] \cup {Own} /\ \A g \in File \ {f} : file'[g] = file[g]
    BY <1>8 DEF AgentEdits, TypeOK
  <2>4. edited \subseteq File
    BY DEF TypeOK
  <2>5. QED
    BY <2>1, <2>2, <2>3, <2>4 DEF Kept, Patch, Fixing
<1>9. CASE Tick \/ UNCHANGED vars
  BY <1>9 DEF Tick, vars, local, world, Kept, Patch
<1>10. QED
  BY <1>2, <1>3, <1>4, <1>5, <1>6, <1>7, <1>8, <1>9, StepsAside DEF Next

\* An edit that another agent makes under its session outlives every fix, of
\* any number of runs, but for an interrupted write (replace_file, coord
\* sessions).
THEOREM EditsHold == Spec => []EditsKept
<1>1. Init => Held /\ Kept
  BY DEF Init, Held, Kept, Fixing
<1>2. TypeOK /\ Where /\ Held /\ Kept /\ [Next]_vars => (Held /\ Kept)'
  BY HeldNext, KeptNext
<1>3. Kept => EditsKept
  BY DEF Kept, EditsKept
<1>4. QED
  BY <1>1, <1>2, <1>3, TypeCorrect, PTL DEF Spec

-----------------------------------------------------------------------------
(* A replacement is written once *)

NoReturn ==
  \A q, r \in Run : \A i \in DOMAIN payload[q].fixes, j \in DOMAIN payload[r].fixes :
    payload[q].fixes[i].replace # payload[r].fixes[j].search

Found == \A r \in Run : pc[r] \in {"write", "writing"} => Patch(r).search \in seen[r]

\* The text a written fix looked for is neither in the file nor in what a fix
\* under way has read of it.
Gone(x) ==
  /\ PatchOf(x).search \notin file[PatchOf(x).path]
  /\ \A r \in Run : pc[r] \in {"write", "writing"} /\ Patch(r).path = PatchOf(x).path =>
                      PatchOf(x).search \notin seen[r]

AllGone == \A x \in written : Gone(x)

Single ==
  \A x, y \in written :
    PatchOf(x).path = PatchOf(y).path /\ PatchOf(x).search = PatchOf(y).search => x = y

LEMMA FoundNext ==
  ASSUME TypeOK, Where, Found, [Next]_vars
  PROVE  Found'
<1>1. \A q \in Run : pc'[q] = pc[q] /\ at'[q] = at[q] => Patch(q)' = Patch(q)
  BY PayloadStays DEF Patch
<1>2. ASSUME NEW r \in Run, Pipeline(r) PROVE Found'
  <2>1. \A q \in Run \ {r} : pc'[q] \in {"write", "writing"} => (Patch(q).search \in seen[q])'
    BY <1>1, <1>2, OthersStay DEF Found
  <2>2. CASE Read(r)
    <3>1. pc[r] = "read" /\ UNCHANGED <<payload, at>> /\ seen'[r] = file[Patch(r).path]
      BY <2>2 DEF Read, TypeOK
    <3>2. QED
      BY <2>1, <2>2, <3>1 DEF Read, Patch, Found
  <2>3. CASE Truncate(r)
    <3>1. pc[r] = "write" /\ UNCHANGED <<payload, at, seen>>
      BY <2>3 DEF Truncate
    <3>2. QED
      BY <2>1, <3>1 DEF Patch, Found
  <2>4. CASE Write(r) \/ FixFails(r) \/ Crash(r)
    <3>1. pc'[r] \in {"release", "dead"}
      BY <2>4 DEF Write, FixFails, Crash, Goes, TypeOK
    <3>2. QED
      BY <2>1, <3>1 DEF Found
  <2>5. QED
    BY <1>2, <2>1, <2>2, <2>3, <2>4, StepsAside DEF Aside, Found
<1>3. CASE \/ \E f \in File : AgentBegins(f) \/ AgentEdits(f)
           \/ Tick
           \/ UNCHANGED vars
  BY <1>3 DEF AgentBegins, AgentEdits, Tick, vars, local, Found, Patch
<1>4. QED
  BY <1>2, <1>3 DEF Next

LEMMA PatchesOf ==
  ASSUME TypeOK, Opened, NEW x \in written
  PROVE  /\ x[1] \in Run /\ x[2] \in DOMAIN payload[x[1]].fixes
         /\ PatchOf(x).path \in File /\ PatchOf(x).search \in Text
<1>1. x[1] \in Run /\ x[2] \in DOMAIN payload[x[1]].fixes
  BY DEF Opened, WrittenOpen
<1>2. PatchOf(x) \in Fix
  BY <1>1, InputTypes DEF PatchOf
<1>3. QED
  BY <1>1, <1>2 DEF Fix

LEMMA OnceNext ==
  ASSUME TypeOK, Where, Opened, Held, Found, NoReturn, AllGone, Single, [Next]_vars
  PROVE  (AllGone /\ Single)'
<1>1. UNCHANGED payload
  BY PayloadStays
<1>2. \A x : PatchOf(x)' = PatchOf(x)
  BY <1>1 DEF PatchOf
<1>3. \A q \in Run : at'[q] = at[q] => Patch(q)' = Patch(q)
  BY <1>1 DEF Patch
<1>4. written' = written => Single'
  BY <1>2 DEF Single
<1>5. ASSUME NEW r \in Run, Pipeline(r), Aside(r) PROVE (AllGone /\ Single)'
  BY <1>2, <1>3, <1>4, <1>5, OthersStay DEF Aside, AllGone, Gone
<1>6. ASSUME NEW r \in Run, Read(r) PROVE (AllGone /\ Single)'
  <2>1. UNCHANGED <<at, file, written>> /\ seen'[r] = file[Patch(r).path]
    BY <1>6 DEF Read, TypeOK, world
  <2>2. \A q \in Run \ {r} : pc'[q] = pc[q] /\ seen'[q] = seen[q]
    BY <1>6 DEF Read, Goes, TypeOK
  <2>3. QED
    BY <1>2, <1>3, <1>4, <2>1, <2>2 DEF AllGone, Gone
<1>7. ASSUME NEW r \in Run, Truncate(r) PROVE (AllGone /\ Single)'
  <2>1. UNCHANGED <<at, seen, written>> /\ pc[r] = "write"
    BY <1>7 DEF Truncate
  <2>2. /\ \A q \in Run \ {r} : pc'[q] = pc[q]
        /\ \A f \in File : file'[f] \subseteq file[f]
    BY <1>7 DEF Truncate, Goes, TypeOK
  <2>3. QED
    BY <1>2, <1>3, <1>4, <2>1, <2>2, PatchesOf DEF AllGone, Gone
<1>8. ASSUME NEW r \in Run, Write(r) PROVE (AllGone /\ Single)'
  <2> DEFINE p == Patch(r).path
             w == <<r, at[r]>>
  <2>1. PatchOf(w) = Patch(r) /\ p \in File /\ pc[r] = "writing" /\ at[r] \in DOMAIN payload[r].fixes
    BY <1>8, PatchTypes DEF Write, Where, Fixing, PatchOf, Patch
  <2>2. written' = written \cup {w} /\ UNCHANGED at /\ pc'[r] = "release"
    BY <1>8 DEF Write, Goes, TypeOK
  <2>3. \A q \in Run \ {r} : pc'[q] = pc[q] /\ seen'[q] = seen[q]
    BY <1>8 DEF Write, Goes, TypeOK
  <2>4. /\ file'[p] = (seen[r] \ {Patch(r).search}) \cup {Patch(r).replace}
        /\ \A f \in File : f # p => file'[f] = file[f]
    BY <1>8, <2>1 DEF Write, TypeOK
  <2>5. \A q \in Run \ {r} : pc[q] \in {"write", "writing"} => Patch(q).path # p
    BY <2>1 DEF Held, Fixing
  <2>6. \A x \in written : PatchOf(x).path = p =>
          PatchOf(x).search \notin seen[r] /\ PatchOf(x).search # Patch(r).replace
    BY <2>1, PatchesOf DEF AllGone, Gone, NoReturn, PatchOf, Patch
  <2>7. Patch(r).search # Patch(r).replace /\ Patch(r).search \in seen[r]
    BY <2>1 DEF NoReturn, Found, Patch
  <2>8. \A x \in written : Gone(x)'
    <3> SUFFICES ASSUME NEW x \in written PROVE Gone(x)'
      OBVIOUS
    <3>1. PatchOf(x).search \notin file'[PatchOf(x).path]
      <4>1. CASE PatchOf(x).path = p
        BY <2>4, <2>6, <4>1
      <4>2. CASE PatchOf(x).path # p
        BY <2>4, <4>2, PatchesOf DEF AllGone, Gone
      <4>3. QED
        BY <4>1, <4>2
    <3>2. \A q \in Run : pc'[q] \in {"write", "writing"} /\ Patch(q)'.path = PatchOf(x).path =>
                          PatchOf(x).search \notin seen'[q]
      <4>1. \A q \in Run \ {r} : Patch(q)' = Patch(q)
        BY <1>3, <2>2
      <4>2. QED
        BY <2>2, <2>3, <4>1 DEF AllGone, Gone
    <3>3. QED
      BY <1>2, <3>1, <3>2 DEF Gone
  <2>9. ASSUME NEW x, x = w PROVE Gone(x)'
    <3>1. PatchOf(x) = Patch(r)
      BY <2>1, <2>9
    <3>2. Patch(r).search \notin file'[p]
      BY <2>4, <2>7
    <3>3. \A q \in Run : ~(pc'[q] \in {"write", "writing"} /\ Patch(q)'.path = p)
      BY <1>3, <2>2, <2>3, <2>5
    <3>4. QED
      BY <1>2, <3>1, <3>2, <3>3 DEF Gone
  <2>10. \A x \in written :
           ~(PatchOf(x).path = PatchOf(w).path /\ PatchOf(x).search = PatchOf(w).search)
    BY <2>1, <2>6, <2>7
  <2>11. Single'
    BY <1>2, <2>2, <2>10 DEF Single
  <2>12. QED
    BY <2>2, <2>8, <2>9, <2>11 DEF AllGone
<1>9. ASSUME NEW r \in Run, FixFails(r) \/ Crash(r) PROVE (AllGone /\ Single)'
  <2>1. UNCHANGED <<at, file, written>>
    BY <1>9 DEF FixFails, Crash
  <2>2. /\ pc'[r] \in {"release", "dead"}
        /\ \A q \in Run \ {r} : pc'[q] = pc[q] /\ seen'[q] = seen[q]
    BY <1>9 DEF FixFails, Crash, Goes, TypeOK
  <2>3. QED
    BY <1>2, <1>3, <1>4, <2>1, <2>2 DEF AllGone, Gone
<1>10. ASSUME NEW f \in File, AgentBegins(f) \/ AgentEdits(f) PROVE (AllGone /\ Single)'
  <2>1. UNCHANGED <<pc, at, seen, written>>
    BY <1>10 DEF AgentBegins, AgentEdits, local
  <2>2. \A g \in File : file'[g] \subseteq file[g] \cup {Own}
    <3>1. CASE AgentBegins(f)
      BY <3>1 DEF AgentBegins
    <3>2. CASE AgentEdits(f)
      BY <3>2 DEF AgentEdits, TypeOK
    <3>3. QED
      BY <1>10, <3>1, <3>2
  <2>3. \A x \in written : PatchOf(x).search # Own
    BY PatchesOf, TextAssumption
  <2>4. QED
    BY <1>2, <1>3, <1>4, <2>1, <2>2, <2>3, PatchesOf DEF AllGone, Gone
<1>11. CASE Tick \/ UNCHANGED vars
  BY <1>2, <1>3, <1>4, <1>11 DEF Tick, vars, local, world, AllGone, Gone
<1>12. QED
  BY <1>5, <1>6, <1>7, <1>8, <1>9, <1>10, <1>11, StepsAside DEF Next

\* However runs and repeated runs interleave, a replacement is written once
\* (replace_file under coord sessions), for any number of runs, files and fixes
\* none of which puts back what another looks for.
THEOREM OnceHolds == Spec => []FixOnce
<1> DEFINE Inv == TypeOK /\ Where /\ Opened /\ Held /\ Found /\ (NoReturn => AllGone /\ Single)
<1>1. Init => Inv
  BY TypeInit DEF Init, Opened, Held, Found, Fixing, AllGone, Single
<1>2. Inv /\ [Next]_vars => Inv'
  <2> SUFFICES ASSUME Inv, [Next]_vars PROVE Inv'
    OBVIOUS
  <2>1. NoReturn' => NoReturn
    BY PayloadStays DEF NoReturn
  <2>2. QED
    BY <2>1, TypeNext, WhereNext, OpenedNext, HeldNext, FoundNext, OnceNext
<1>3. Inv => FixOnce
  BY DEF NoReturn, Single, FixOnce
<1>4. QED
  BY <1>1, <1>2, <1>3, PTL DEF Spec

-----------------------------------------------------------------------------
(* The originals *)

Distinct == \A q, r \in Run : stamp[q] = stamp[r] /\ stamp[q] # Never => q = r

\* A file is as it was but for additions until a run has copied it.
Copied(r, f) == stamp[r] # Never /\ f \notin todo[r]

Safekept(f) ==
  \/ \E r \in Run : Copied(r, f) /\ Original[f] \subseteq snap[stamp[r]][f]
  \/ Original[f] \subseteq file[f] /\ \A r \in Run : ~Copied(r, f)

AllSafe == \A f \in File : Safekept(f)

LEMMA SafeNext ==
  ASSUME TypeOK, Where, Distinct, Distinct', AllSafe, [Next]_vars
  PROVE  AllSafe'
<1>1. ASSUME UNCHANGED <<stamp, todo, snap, file>> PROVE AllSafe'
  BY <1>1 DEF AllSafe, Safekept, Copied
<1>2. ASSUME NEW r \in Run, StartBackup(r) PROVE AllSafe'
  <2>1. /\ stamp[r] = Never /\ todo'[r] = File /\ UNCHANGED <<snap, file>>
        /\ \A q \in Run \ {r} : stamp'[q] = stamp[q] /\ todo'[q] = todo[q]
    BY <1>2 DEF StartBackup, TypeOK, Where, world
  <2>2. QED
    BY <2>1 DEF AllSafe, Safekept, Copied
<1>3. ASSUME NEW r \in Run, NEW g \in File, CopyTarget(r, g) PROVE AllSafe'
  <2>1. /\ UNCHANGED <<stamp, file>> /\ stamp[r] \in 0 .. MaxNow /\ g \in todo[r]
        /\ \A f \in File : f # g => (f \in todo'[r] <=> f \in todo[r])
        /\ g \notin todo'[r]
        /\ \A q \in Run \ {r} : todo'[q] = todo[q]
    BY <1>3 DEF CopyTarget, TypeOK, Where
  <2>2. stamp[r] # Never
    BY <2>1, RunAssumption DEF Never
  <2>3. /\ snap'[stamp[r]][g] = file[g]
        /\ \A s \in 0 .. MaxNow, f \in File :
             s # stamp[r] \/ f # g => snap'[s][f] = snap[s][f]
    BY <1>3, <2>1 DEF CopyTarget, TypeOK
  <2>4. \A q \in Run : stamp[q] # Never => stamp[q] \in 0 .. MaxNow
    BY RunAssumption DEF TypeOK, Never
  <2>5. ASSUME NEW f \in File, f # g PROVE Safekept(f)'
    BY <2>1, <2>3, <2>4, <2>5 DEF AllSafe, Safekept, Copied
  <2>6. Safekept(g)'
    <3>1. CASE \E q \in Run : Copied(q, g) /\ Original[g] \subseteq snap[stamp[q]][g]
      <4>1. PICK q \in Run : Copied(q, g) /\ Original[g] \subseteq snap[stamp[q]][g]
        BY <3>1
      <4>2. q # r /\ stamp[q] # stamp[r] /\ stamp[q] \in 0 .. MaxNow
        BY <2>1, <2>2, <2>4, <4>1 DEF Copied, Distinct
      <4>3. QED
        BY <2>1, <2>3, <4>1, <4>2 DEF Safekept, Copied
    <3>2. CASE Original[g] \subseteq file[g]
      BY <2>1, <2>2, <2>3, <3>2 DEF Safekept, Copied
    <3>3. QED
      BY <3>1, <3>2 DEF AllSafe, Safekept
  <2>7. QED
    BY <2>5, <2>6 DEF AllSafe
<1>4. ASSUME NEW r \in Run, Truncate(r) \/ Write(r) PROVE AllSafe'
  <2>1. /\ UNCHANGED <<stamp, todo, snap>> /\ Patch(r).path \in File
        /\ \A f \in File : f # Patch(r).path => file'[f] = file[f]
    BY <1>4, PatchTypes DEF Truncate, Write, Fixing, TypeOK
  <2>2. \A f \in File : Copied(r, f)
    BY <1>4 DEF Truncate, Write, Where, Passed, Fixing, Copied
  <2>3. QED
    BY <2>1, <2>2 DEF AllSafe, Safekept, Copied
<1>5. ASSUME NEW g \in File, AgentEdits(g) PROVE AllSafe'
  <2>1. UNCHANGED <<stamp, todo, snap>> /\ \A f \in File : file[f] \subseteq file'[f]
    BY <1>5 DEF AgentEdits, TypeOK, local
  <2>2. QED
    BY <2>1 DEF AllSafe, Safekept, Copied
<1>6. QED
  BY <1>1, <1>2, <1>3, <1>4, <1>5, Zenon
  DEF Next, Pipeline, vars, local, world, Reject, BackupFails, Precheck, NoteAction, BlockAction,
      Psql, PsqlFails, RuntimeDone, NoteFix, Begin, FixRaises, NotFound, Read, FixFails, Release,
      ReleaseFails, RepoDone, Postcheck, WriteArtifact, Crash, AgentBegins, Tick, Fail

\* No step takes a stamp back.
LEMMA DistinctBefore ==
  ASSUME TypeOK, Where, [Next]_vars, Distinct'
  PROVE  Distinct
<1>1. ASSUME NEW q \in Run, stamp[q] # Never PROVE stamp'[q] = stamp[q]
  <2>1. CASE UNCHANGED stamp
    BY <2>1
  <2>2. ASSUME NEW r \in Run, StartBackup(r) PROVE stamp'[q] = stamp[q]
    BY <1>1, <2>2 DEF StartBackup, Where, TypeOK
  <2>3. QED
    BY <2>1, <2>2, Zenon
    DEF Next, Pipeline, vars, local, world, Reject, BackupFails, Precheck, CopyTarget, NoteAction,
        BlockAction, Psql, PsqlFails, RuntimeDone, NoteFix, Begin, FixRaises, NotFound, Read, Truncate,
        Write, FixFails, Release, ReleaseFails, RepoDone, Postcheck, WriteArtifact, Crash, AgentBegins,
        AgentEdits, Tick, Fail
<1>2. QED
  BY <1>1 DEF Distinct

\* Every text a file began with is in the file or in a backup directory, when
\* no two runs began in the same second (create_snapshot).
THEOREM OriginalHolds == Spec => []OriginalKept
<1> DEFINE Inv == TypeOK /\ Where /\ (Distinct => AllSafe)
<1>1. Init => Inv
  <2> SUFFICES ASSUME Init PROVE AllSafe
    BY TypeInit
  <2>1. \A f \in File : file[f] = Original[f] /\ \A r \in Run : stamp[r] = Never
    BY DEF Init
  <2>2. QED
    BY <2>1 DEF AllSafe, Safekept, Copied
<1>2. Inv /\ [Next]_vars => Inv'
  BY TypeNext, WhereNext, SafeNext, DistinctBefore
<1>3. Inv => OriginalKept
  <2> SUFFICES ASSUME Inv, Distinct, NEW f \in File, NEW t \in Original[f]
               PROVE  t \in file[f] \/ \E s \in 0 .. MaxNow : t \in snap[s][f]
    BY DEF OriginalKept, Distinct
  <2>1. \A r \in Run : stamp[r] # Never => stamp[r] \in 0 .. MaxNow
    BY RunAssumption DEF TypeOK, Never
  <2>2. QED
    BY <2>1 DEF AllSafe, Safekept, Copied
<1>4. QED
  BY <1>1, <1>2, <1>3, PTL DEF Spec
-----------------------------------------------------------------------------
\* The repo lane loses no edit of another agent and no first text, and applies
\* no fix twice, for any runs, files and texts.
THEOREM FilesHold == Spec => []FilesKept
<1>1. EditsKept /\ FixOnce /\ OriginalKept => FilesKept
  BY DEF FilesKept
<1> QED
  BY <1>1, EditsHold, OnceHolds, OriginalHolds, PTL
=============================================================================
