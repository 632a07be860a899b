--------------------------- MODULE McpRegistration ---------------------------
(***************************************************************************)
(* codex/bin/intdata_mcp_registration.py: main() checks, applies or rolls  *)
(* back the registrations of the managed MCP profiles by running the codex *)
(* CLI, one command at a time.  A command may fail before or after it took *)
(* effect (a non-zero exit, the 30 s timeout), `codex mcp add` may store   *)
(* another row than it was given, and the script may die at any point.     *)
(*                                                                         *)
(* A row is its class: the wanted row, another row that `add` can rebuild, *)
(* or one that assert_safe_to_capture refuses.                             *)
(***************************************************************************)
EXTENDS Integers, FiniteSets

CONSTANTS
  NProfiles,   \* the length of PROFILES; a profile is its position
  Wanted,      \* the row of desired_rows
  SafeRows,    \* rows that assert_safe_to_capture accepts
  UnsafeRows,  \* rows that it refuses
  Absent,      \* no row under that name
  MaxRuns,     \* bound on the invocations
  MaxFaults,   \* bound on the failures of one invocation
  Faults       \* the faults that may happen

Profile  == 1 .. NProfiles
Row      == SafeRows \cup UnsafeRows
Registry == [Profile -> Row \cup {Absent}]

ASSUME ProfileAssumption == NProfiles \in Nat \ {0} /\ MaxRuns \in Nat /\ MaxFaults \in Nat
ASSUME RowAssumption ==
  /\ Wanted \in SafeRows
  /\ SafeRows \cap UnsafeRows = {}
  /\ Absent \notin Row
ASSUME FaultAssumption == Faults \subseteq {"command", "misstore", "crash"}

VARIABLES
  registry,  \* the codex registry, as inventory() reads it
  backups,   \* what the files written by write_backup hold
  pc,        \* where main() is
  mode,      \* "check", "apply" or "rollback"
  replace,   \* --replace
  current,   \* main: the inventory taken first
  target,    \* the rows the loop is to establish
  have,      \* the inventory that decides which rows the loop removes
  i,         \* the profile the loop is at
  removed,   \* the loop has removed the row of profile i
  recovery,  \* in the except branch that restores `current`
  runs,      \* invocations so far
  pre,       \* history: the registry the invocation found
  goal,      \* history: the registry the invocation is asked for
  faults,    \* history: commands of the invocation that failed or misstored
  status     \* what the invocation reported

vars == <<registry, backups, pc, mode, replace, current, target, have, i,
          removed, recovery, runs, pre, goal, faults, status>>
locals == <<mode, replace, current, runs, pre, goal>>

CanFail == "command" \in Faults /\ faults < MaxFaults
Failed  == faults' = faults + 1

AllWanted == [p \in Profile |-> Wanted]
Unsafe(reg) == \E p \in Profile : reg[p] \in UnsafeRows

Init ==
  /\ registry \in Registry
  /\ backups = {}
  /\ pc = "idle"
  /\ mode = "check"
  /\ replace = FALSE
  /\ current = registry
  /\ target = registry
  /\ have = registry
  /\ i = 1
  /\ removed = FALSE
  /\ recovery = FALSE
  /\ runs = 0
  /\ pre = registry
  /\ goal = registry
  /\ faults = 0
  /\ status = "none"

\* The process ends and reports s.
End(s) ==
  /\ pc' = "idle"
  /\ status' = s
  /\ UNCHANGED <<target, have, i, removed, recovery>>

\* Mutant: a failing restore is tried again with the same rows.
Raise_SameTarget ==
  /\ recovery' = TRUE
  /\ pc' = "restore"
  /\ UNCHANGED <<target, have, i, removed, status>>

\* An exception inside the try block of the apply or rollback path restores
\* `current`; one inside that restore asks for a manual recovery.
Raise ==
  IF recovery
  THEN End("manual")
  ELSE /\ recovery' = TRUE
       /\ target' = current
       /\ pc' = "restore"
       /\ UNCHANGED <<have, i, removed, status>>

-----------------------------------------------------------------------------
\* A new invocation.  A rollback names any file of captured rows.
Start(m, rep, captured) ==
  /\ pc = "idle"
  /\ runs < MaxRuns
  /\ runs' = runs + 1
  /\ mode' = m
  /\ replace' = rep
  /\ pre' = registry
  /\ goal' = IF m = "rollback" THEN captured ELSE AllWanted
  /\ target' = goal'
  /\ recovery' = FALSE
  /\ faults' = 0
  /\ status' = "open"
  /\ pc' = "inventory"
  /\ UNCHANGED <<registry, backups, current, have, i, removed>>

\* The interpreter probe, the backup file or the inventory is not usable.
PreflightFails ==
  /\ pc = "inventory"
  /\ CanFail
  /\ Failed
  /\ End("unchanged")
  /\ UNCHANGED <<registry, backups, locals>>

TakeInventory ==
  /\ pc = "inventory"
  /\ current' = registry
  /\ pc' = "gate"
  /\ UNCHANGED <<registry, backups, mode, replace, target, have, i, removed,
                 recovery, runs, pre, goal, faults, status>>

\* Mutant: the rollback path does not check the rows it is about to save.
Refused_Unchecked ==
  \/ mode = "check"
  \/ /\ mode = "apply"
     /\ \/ ~replace /\ \E p \in Profile : current[p] \notin {Absent, Wanted}
        \/ Unsafe(current)

\* What stops main() before it writes anything: a check, drift without
\* --replace, a row that a backup cannot carry.
Refused ==
  \/ mode = "check"
  \/ /\ mode = "apply"
     /\ \/ ~replace /\ \E p \in Profile : current[p] \notin {Absent, Wanted}
        \/ Unsafe(current)
  \/ mode = "rollback" /\ Unsafe(current)

Refuse ==
  /\ pc = "gate"
  /\ Refused
  /\ End("unchanged")
  /\ UNCHANGED <<registry, backups, faults, locals>>

\* The smoke test of an apply, or write_backup, fails.
GateFails ==
  /\ pc = "gate"
  /\ ~Refused
  /\ CanFail
  /\ Failed
  /\ End("unchanged")
  /\ UNCHANGED <<registry, backups, locals>>

\* write_backup, then the try block begins.
WriteBackup ==
  /\ pc = "gate"
  /\ ~Refused
  /\ backups' = backups \cup {current}
  /\ have' = current
  /\ i' = 1
  /\ removed' = FALSE
  /\ pc' = IF mode = "apply" THEN "loop" ELSE "restore"
  /\ UNCHANGED <<registry, target, recovery, faults, status, locals>>

-----------------------------------------------------------------------------
(* restore(), and the loop it shares with the apply path: for every profile, *)
(* remove the row the inventory showed, then add the row wanted              *)

\* Mutant: the restore goes on from the profile that failed.
BeginRestore_Resumes ==
  /\ pc = "restore"
  /\ ~Unsafe(target)
  /\ have' = registry
  /\ removed' = FALSE
  /\ pc' = "loop"
  /\ UNCHANGED <<registry, backups, target, i, recovery, faults, status, locals>>

\* restore() refuses captured rows it could not add, then takes an inventory.
BeginRestore ==
  /\ pc = "restore"
  /\ ~Unsafe(target)
  /\ have' = registry
  /\ i' = 1
  /\ removed' = FALSE
  /\ pc' = "loop"
  /\ UNCHANGED <<registry, backups, target, recovery, faults, status, locals>>

RestoreRefuses ==
  /\ pc = "restore"
  /\ Unsafe(target)
  /\ Raise
  /\ UNCHANGED <<registry, backups, faults, locals>>

RestoreFails ==
  /\ pc = "restore"
  /\ CanFail
  /\ Failed
  /\ Raise
  /\ UNCHANGED <<registry, backups, locals>>

\* The apply path leaves exact rows alone, restore() rewrites every row.
Skips(p) == mode = "apply" /\ ~recovery /\ current[p] = Wanted
Removes  == i <= NProfiles /\ ~Skips(i) /\ have[i] # Absent /\ ~removed
Adds     == i <= NProfiles /\ ~Skips(i) /\ ~Removes /\ target[i] # Absent

Remove ==
  /\ pc = "loop"
  /\ Removes
  /\ registry' = [registry EXCEPT ![i] = Absent]
  /\ removed' = TRUE
  /\ UNCHANGED <<backups, pc, target, have, i, recovery, faults, status, locals>>

AddStores(row) ==
  /\ pc = "loop"
  /\ Adds
  /\ registry' = [registry EXCEPT ![i] = row]
  /\ i' = i + 1
  /\ removed' = FALSE
  /\ UNCHANGED <<backups, pc, target, have, recovery, status, locals>>

Add == AddStores(target[i]) /\ UNCHANGED faults

\* `codex mcp add` succeeds but lists another row afterwards.
Misstore ==
  /\ "misstore" \in Faults
  /\ faults < MaxFaults
  /\ \E row \in Row : AddStores(row)
  /\ Failed

\* Nothing to add for this profile.
Advance ==
  /\ pc = "loop"
  /\ i <= NProfiles
  /\ ~Removes
  /\ ~Adds
  /\ i' = i + 1
  /\ removed' = FALSE
  /\ UNCHANGED <<registry, backups, pc, target, have, recovery, faults, status, locals>>

\* A remove or add fails, with or without having taken effect.
CommandFails ==
  /\ pc = "loop"
  /\ CanFail
  /\ Failed
  /\ Removes \/ Adds
  /\ \/ registry' = registry
     \/ registry' = [registry EXCEPT ![i] = IF Removes THEN Absent ELSE target[i]]
  /\ Raise
  /\ UNCHANGED <<backups, locals>>

-----------------------------------------------------------------------------
(* The inventory after the loop decides what is reported *)

\* Mutant: the exit codes of the commands are trusted.
Verified_Trusting == TRUE

Verified == registry = target

Succeed ==
  /\ pc = "loop"
  /\ i > NProfiles
  /\ Verified
  /\ End(IF recovery THEN "restored" ELSE "committed")
  /\ UNCHANGED <<registry, backups, faults, locals>>

VerifyRefuses ==
  /\ pc = "loop"
  /\ i > NProfiles
  /\ ~Verified
  /\ Raise
  /\ UNCHANGED <<registry, backups, faults, locals>>

\* The inventory or the last smoke test fails.
VerifyFails ==
  /\ pc = "loop"
  /\ i > NProfiles
  /\ CanFail
  /\ Failed
  /\ Raise
  /\ UNCHANGED <<registry, backups, locals>>

\* The script is killed.
Crash ==
  /\ "crash" \in Faults
  /\ pc # "idle"
  /\ End("crashed")
  /\ UNCHANGED <<registry, backups, faults, locals>>

Proceed ==
  \/ TakeInventory \/ Refuse \/ WriteBackup \/ BeginRestore \/ RestoreRefuses
  \/ Remove \/ Add \/ Advance \/ Succeed \/ VerifyRefuses

Fail ==
  \/ PreflightFails \/ GateFails \/ RestoreFails \/ Misstore \/ CommandFails
  \/ VerifyFails

Next ==
  \/ \E m \in {"check", "apply", "rollback"}, rep \in BOOLEAN, captured \in Registry :
       Start(m, rep, captured)
  \/ Proceed
  \/ Fail
  \/ Crash

Spec == Init /\ [][Next]_vars

\* Every command returns or times out after 30 s, and the script goes on.
FairSpec == Spec /\ WF_vars(Proceed \/ Fail)

-----------------------------------------------------------------------------
TypeOK ==
  /\ registry \in Registry
  /\ backups \subseteq Registry
  /\ pc \in {"idle", "inventory", "gate", "restore", "loop"}
  /\ mode \in {"check", "apply", "rollback"}
  /\ replace \in BOOLEAN
  /\ current \in Registry
  /\ target \in Registry
  /\ have \in Registry
  /\ i \in 1 .. NProfiles + 1
  /\ removed \in BOOLEAN
  /\ recovery \in BOOLEAN
  /\ runs \in 0 .. MaxRuns
  /\ pre \in Registry
  /\ goal \in Registry
  /\ faults \in 0 .. MaxFaults
  /\ status \in {"none", "open", "unchanged", "committed", "restored", "manual", "crashed"}

\* What the transaction shows of an invocation.
Txn == INSTANCE McpRegistryTxn WITH
  Registry <- Registry, registry <- registry, pre <- pre, goal <- goal,
  backups <- backups, status <- status

\* main() keeps the promise of McpRegistryTxn: it touches the registry only
\* after what it found is in a backup, and every report it makes is true of
\* the registry at that moment, whichever commands failed.
KeepsPromise == Txn!Spec

\* One failing command, wherever it fails, never ends in "recover manually":
\* that takes two failures, or one after a rollback file that restore()
\* refuses (the except branch rewrites the registry even then).
OneFailureRepaired ==
  status = "manual" => faults + (IF Unsafe(goal) THEN 1 ELSE 0) >= 2

\* Every backup file that write_backup makes can be restored: it holds no row
\* that restore() refuses (assert_safe_to_capture runs before write_backup).
BackupsRestorable == \A b \in backups : ~Unsafe(b)

\* What failed can be put back: by main() after one failure, by its operator
\* from any backup.
Repairable == OneFailureRepaired /\ BackupsRestorable

\* Every invocation ends: an exception in the restore of the except branch is
\* not restored again.
InvocationEnds == status = "open" ~> status # "open"
=============================================================================
