------------------------ MODULE McpRegistrationProofs ------------------------
(***************************************************************************)
(* Theorems about McpRegistration, for any number of profiles, any rows    *)
(* and any number of invocations and failures.                             *)
(*                                                                         *)
(* The inductive invariant follows main(): what it found is in a backup    *)
(* before the loop starts (Saved), the loop establishes the goal or, in    *)
(* the except branch, what was found (Aim), and a pass of the loop either  *)
(* had a failure or has written exactly the profiles before i (CleanPass). *)
(***************************************************************************)
EXTENDS McpRegistration, TLAPS

\* Where main() is and what it has reported.
Control ==
  /\ pc # "idle" <=> status = "open"
  /\ pc \in {"inventory", "gate"} => registry = pre /\ ~recovery
  /\ pc \in {"gate", "restore", "loop"} => current = pre
  /\ pc = "restore" => mode = "rollback" \/ recovery

\* The registry that was found is in a backup, and can be restored.
Saved ==
  /\ pc \in {"restore", "loop"} => pre \in backups /\ ~Unsafe(current)
  /\ BackupsRestorable

\* What the loop establishes.
Aim ==
  /\ pc # "idle" => target = IF recovery THEN current ELSE goal
  /\ pc # "idle" /\ mode = "apply" => goal = AllWanted

\* The failures of the invocation, a refused rollback file being one.
Spent == faults + (IF Unsafe(goal) THEN 1 ELSE 0)

\* A pass of the loop in which every command did what it was told.
CleanPass ==
  /\ \A p \in Profile : p < i => registry[p] = target[p]
  /\ \A p \in Profile : p > i => registry[p] = have[p]
  /\ i \in Profile => registry[i] = IF removed THEN Absent ELSE have[i]
  /\ removed => i \in Profile /\ ~Skips(i)
  /\ mode = "apply" /\ ~recovery => have = current

Failures ==
  /\ pc # "idle" /\ recovery => Spent >= 1
  /\ pc = "loop" => CleanPass \/ Spent >= IF recovery THEN 2 ELSE 1
  /\ OneFailureRepaired

RegInv == TypeOK /\ Control /\ Saved /\ Aim /\ Failures

USE ProfileAssumption, RowAssumption, FaultAssumption

-----------------------------------------------------------------------------
\* The types of TypeOK in three parts.
Numbers ==
  i \in 1 .. NProfiles + 1 /\ runs \in 0 .. MaxRuns /\ faults \in 0 .. MaxFaults

Registries ==
  /\ registry \in Registry
  /\ backups \subseteq Registry
  /\ current \in Registry
  /\ target \in Registry
  /\ have \in Registry
  /\ pre \in Registry
  /\ goal \in Registry

Flags ==
  /\ pc \in {"idle", "inventory", "gate", "restore", "loop"}
  /\ mode \in {"check", "apply", "rollback"}
  /\ replace \in BOOLEAN
  /\ removed \in BOOLEAN
  /\ recovery \in BOOLEAN
  /\ status \in {"none", "open", "unchanged", "committed", "restored", "manual", "crashed"}

LEMMA InitTypeOK == Init => TypeOK
<1> SUFFICES ASSUME Init PROVE TypeOK
  OBVIOUS
<1>1. Numbers
  BY DEF Init, Numbers
<1>2. Registries
  BY DEF Init, Registries
<1>3. QED
  BY <1>1, <1>2 DEF Init, TypeOK, Numbers, Registries

LEMMA AllWantedType == AllWanted \in Registry
BY DEF AllWanted, Registry, Row

\* Replacing one row gives a registry.
LEMMA PutType ==
  ASSUME NEW reg \in Registry, NEW p, NEW row \in Row \cup {Absent}
  PROVE  [reg EXCEPT ![p] = row] \in Registry
BY DEF Registry

LEMMA NumbersTyped == TypeOK /\ [Next]_vars => Numbers'
<1> SUFFICES ASSUME Numbers, [Next]_vars PROVE Numbers'
  BY DEF TypeOK, Numbers
<1> USE DEF Numbers
<1>1. ASSUME NEW m, NEW rep, NEW captured, Start(m, rep, captured) PROVE Numbers'
  BY <1>1 DEF Start
<1>2. CASE Proceed
  BY <1>2 DEF Proceed, TakeInventory, Refuse, WriteBackup, BeginRestore, RestoreRefuses,
     Remove, Add, AddStores, Adds, Advance, Succeed, VerifyRefuses, Raise, End, locals
<1>3. CASE Fail
  BY <1>3 DEF Fail, PreflightFails, GateFails, RestoreFails, Misstore, AddStores, Adds,
     CommandFails, VerifyFails, Failed, CanFail, Raise, End, locals
<1>4. CASE Crash
  BY <1>4 DEF Crash, End, locals
<1>5. CASE UNCHANGED vars
  BY <1>5 DEF vars
<1>6. QED
  BY <1>1, <1>2, <1>3, <1>4, <1>5 DEF Next

LEMMA RegistriesTyped == TypeOK /\ [Next]_vars => Registries'
<1> SUFFICES ASSUME Registries, i \in 1 .. NProfiles + 1, [Next]_vars PROVE Registries'
  BY DEF TypeOK, Registries
<1> USE DEF Registries
<1>1. ASSUME NEW m, NEW rep, NEW captured \in Registry, Start(m, rep, captured)
      PROVE  Registries'
  BY <1>1, AllWantedType DEF Start
<1>2. CASE TakeInventory \/ Refuse \/ PreflightFails \/ GateFails \/ Crash \/ Succeed
  BY <1>2 DEF TakeInventory, Refuse, PreflightFails, GateFails, Crash, Succeed, End, locals
<1>3. CASE WriteBackup \/ BeginRestore \/ Advance
  BY <1>3 DEF WriteBackup, BeginRestore, Advance, locals
<1>4. CASE RestoreRefuses \/ RestoreFails \/ VerifyRefuses \/ VerifyFails
  BY <1>4 DEF RestoreRefuses, RestoreFails, VerifyRefuses, VerifyFails, Raise, End, locals
<1>5. CASE Remove
  BY <1>5, PutType DEF Remove, locals
<1>6. ASSUME NEW row \in Row \cup {Absent}, AddStores(row) PROVE Registries'
  BY <1>6, PutType DEF AddStores, locals
<1>7. CASE Add \/ Misstore
  <2>1. Adds => target[i] \in Row \cup {Absent}
    BY DEF Adds, Registry, Profile
  <2>2. QED
    BY <1>6, <1>7, <2>1 DEF Add, Misstore, AddStores
<1>8. CASE CommandFails
  <2>1. Removes \/ Adds => target[i] \in Row \cup {Absent}
    BY DEF Removes, Adds, Registry, Profile
  <2>2. registry' \in Registry
    <3>1. (IF Removes THEN Absent ELSE target[i]) \in Row \cup {Absent}
      BY <1>8, <2>1 DEF CommandFails
    <3>2. QED
      BY <1>8, <3>1, PutType DEF CommandFails
  <2>3. QED
    BY <1>8, <2>2 DEF CommandFails, Raise, End, locals
<1>9. CASE UNCHANGED vars
  BY <1>9 DEF vars
<1>10. QED
  BY <1>1, <1>2, <1>3, <1>4, <1>5, <1>7, <1>8, <1>9 DEF Next, Proceed, Fail

LEMMA FlagsTyped == TypeOK /\ [Next]_vars => Flags'
<1> SUFFICES ASSUME Flags, [Next]_vars PROVE Flags'
  BY DEF TypeOK, Flags
<1> USE DEF Flags
<1>1. ASSUME NEW m \in {"check", "apply", "rollback"}, NEW rep \in BOOLEAN,
             NEW captured, Start(m, rep, captured)
      PROVE  Flags'
  BY <1>1 DEF Start
<1>2. CASE Proceed
  BY <1>2 DEF Proceed, TakeInventory, Refuse, WriteBackup, BeginRestore, RestoreRefuses,
     Remove, Add, AddStores, Advance, Succeed, VerifyRefuses, Raise, End, locals
<1>3. CASE Fail
  BY <1>3 DEF Fail, PreflightFails, GateFails, RestoreFails, Misstore, AddStores,
     CommandFails, VerifyFails, Raise, End, locals
<1>4. CASE Crash \/ UNCHANGED vars
  BY <1>4 DEF Crash, End, locals, vars
<1>5. QED
  BY <1>1, <1>2, <1>3, <1>4 DEF Next

LEMMA NextTypeOK == TypeOK /\ [Next]_vars => TypeOK'
BY NumbersTyped, RegistriesTyped, FlagsTyped DEF TypeOK, Numbers, Registries, Flags

\* Every reachable state is well typed.
THEOREM TypeCorrect == Spec => []TypeOK
<1>1. QED
  BY InitTypeOK, NextTypeOK, PTL DEF Spec

-----------------------------------------------------------------------------
LEMMA InitRegInv == Init => RegInv
BY InitTypeOK DEF Init, RegInv, Control, Saved, Aim, Failures, BackupsRestorable,
   OneFailureRepaired

LEMMA SpentNat == TypeOK => Spent \in Nat
BY DEF TypeOK, Spent

\* The control facts, one action at a time.
LEMMA NextControl == RegInv /\ TypeOK' /\ [Next]_vars => Control' /\ Saved' /\ Aim'
<1> SUFFICES ASSUME RegInv, TypeOK', [Next]_vars PROVE Control' /\ Saved' /\ Aim'
  OBVIOUS
<1> USE DEF RegInv, Control, Saved, Aim, BackupsRestorable, Unsafe
<1>1. ASSUME NEW m \in {"check", "apply", "rollback"}, NEW rep \in BOOLEAN,
             NEW captured \in Registry, Start(m, rep, captured)
      PROVE  Control' /\ Saved' /\ Aim'
  BY <1>1 DEF Start, AllWanted
<1>2. CASE TakeInventory
  BY <1>2 DEF TakeInventory, AllWanted
<1>3. CASE Refuse \/ PreflightFails \/ GateFails \/ Crash \/ Succeed
  BY <1>3 DEF Refuse, PreflightFails, GateFails, Crash, Succeed, End, Failed, locals
<1>4. CASE WriteBackup
  <2>1. ~Unsafe(current)
    BY <1>4 DEF WriteBackup, Refused, TypeOK
  <2>2. QED
    BY <1>4, <2>1 DEF WriteBackup, Refused, TypeOK, locals, AllWanted
<1>5. CASE BeginRestore
  BY <1>5 DEF BeginRestore, locals, AllWanted
<1>6. CASE RestoreRefuses \/ RestoreFails \/ VerifyRefuses \/ VerifyFails \/ CommandFails
  BY <1>6 DEF RestoreRefuses, RestoreFails, VerifyRefuses, VerifyFails, CommandFails,
     Raise, End, Failed, locals, AllWanted
<1>7. CASE Remove \/ Add \/ Misstore \/ Advance
  BY <1>7 DEF Remove, Add, Misstore, AddStores, Advance, locals, AllWanted
<1>8. CASE UNCHANGED vars
  BY <1>8 DEF vars, AllWanted
<1>9. QED
  BY <1>1, <1>2, <1>3, <1>4, <1>5, <1>6, <1>7, <1>8 DEF Next, Proceed, Fail

\* An exception costs a failure, and the second one ends the invocation.
LEMMA RaiseCounts ==
  ASSUME RegInv, TypeOK', Raise, pc # "idle", Spent' >= IF recovery THEN 2 ELSE 1
  PROVE  Failures'
BY SpentNat DEF RegInv, Control, Failures, Raise, End, OneFailureRepaired, Spent

\* The pass that the loop is in, after a step that wrote row i as told.
LEMMA CleanStep ==
  ASSUME RegInv, TypeOK', pc = "loop", CleanPass,
         Remove \/ Add \/ Advance
  PROVE  CleanPass'
<1> USE DEF RegInv, TypeOK, CleanPass
<1>1. i \in Profile
  BY DEF Remove, Removes, Add, AddStores, Adds, Advance, Profile
<1>2. CASE Remove
  BY <1>1, <1>2 DEF Remove, Removes, Skips, Registry, Profile, locals
<1>3. CASE Add
  <2>1. registry' = [registry EXCEPT ![i] = target[i]] /\ i' = i + 1 /\ ~removed'
        /\ UNCHANGED <<target, have, recovery, mode, current>>
    BY <1>3 DEF Add, AddStores, locals
  <2>2. QED
    BY <1>1, <2>1 DEF Registry, Profile
<1>4. CASE Advance
  <2>1. registry' = registry /\ i' = i + 1 /\ ~removed'
        /\ UNCHANGED <<target, have, recovery, mode, current>>
    BY <1>4 DEF Advance, locals
  <2>2. registry[i] = target[i]
    <3>1. CASE Skips(i)
      BY <1>1, <3>1 DEF Skips, Control, Aim, AllWanted
    <3>2. CASE ~Skips(i)
      BY <1>1, <1>4, <3>2 DEF Advance, Removes, Adds
    <3>3. QED
      BY <3>1, <3>2
  <2>3. QED
    BY <1>1, <2>1, <2>2 DEF Profile
<1>5. QED
  BY <1>2, <1>3, <1>4

LEMMA NextFailures == RegInv /\ TypeOK' /\ [Next]_vars => Failures'
<1> SUFFICES ASSUME RegInv, TypeOK', [Next]_vars PROVE Failures'
  OBVIOUS
<1>0. TypeOK /\ Spent \in Nat
  BY SpentNat DEF RegInv
<1>1. ASSUME NEW m \in {"check", "apply", "rollback"}, NEW rep \in BOOLEAN,
             NEW captured \in Registry, Start(m, rep, captured)
      PROVE  Failures'
  BY <1>1 DEF Start, Failures, OneFailureRepaired
<1>2. CASE TakeInventory
  BY <1>2 DEF TakeInventory, RegInv, Control, Failures, OneFailureRepaired, Spent
<1>3. CASE Refuse \/ PreflightFails \/ GateFails \/ Crash \/ Succeed
  BY <1>3 DEF Refuse, PreflightFails, GateFails, Crash, Succeed, End, Failures,
     OneFailureRepaired
<1>4. CASE WriteBackup \/ BeginRestore
  <2>1. UNCHANGED <<faults, goal, status, recovery, mode, current, registry>> /\ i' = 1 /\ ~removed'
        /\ pc # "idle"
    BY <1>4 DEF WriteBackup, BeginRestore, locals
  <2>2. have' = registry
    BY <1>4 DEF WriteBackup, BeginRestore, RegInv, Control
  <2>3. pc' = "loop" /\ mode = "apply" /\ ~recovery => have' = current
    BY <1>4, <2>2 DEF WriteBackup, BeginRestore, RegInv, Control, locals
  <2>4. pc' = "loop" => CleanPass'
    BY <2>1, <2>2, <2>3 DEF CleanPass, Profile
  <2>5. Spent' = Spent
    BY <2>1 DEF Spent, Unsafe
  <2>6. QED
    BY <2>1, <2>4, <2>5 DEF Failures, RegInv, Control, OneFailureRepaired
<1>5. CASE RestoreRefuses
  <2>1. ~recovery /\ Unsafe(goal) /\ UNCHANGED <<faults, goal>>
    BY <1>5 DEF RestoreRefuses, RegInv, Control, Saved, Aim, locals
  <2>2. QED
    BY <1>0, <1>5, <2>1, RaiseCounts DEF RestoreRefuses, Spent, TypeOK, Unsafe
<1>6. CASE RestoreFails \/ VerifyFails \/ CommandFails
  <2>1. Spent' = Spent + 1
    <3>1. goal' = goal /\ faults' = faults + 1
      BY <1>6 DEF RestoreFails, VerifyFails, CommandFails, Failed, locals
    <3>2. QED
      BY <1>0, <3>1 DEF Spent, Unsafe, TypeOK
  <2>2. recovery => Spent >= 1
    BY <1>6 DEF RegInv, Failures, RestoreFails, VerifyFails, CommandFails
  <2>3. QED
    BY <1>0, <1>6, <2>1, <2>2, RaiseCounts DEF RestoreFails, VerifyFails, CommandFails
<1>7. CASE VerifyRefuses
  <2>1. ~CleanPass
    BY <1>0, <1>7 DEF VerifyRefuses, Verified, CleanPass, TypeOK, Registry, Profile
  <2>2. Spent' = Spent
    BY <1>7 DEF VerifyRefuses, Spent, locals, Unsafe
  <2>3. QED
    BY <1>7, <2>1, <2>2, RaiseCounts DEF VerifyRefuses, RegInv, Failures
<1>8. CASE Remove \/ Add \/ Advance
  <2>1. UNCHANGED <<faults, goal, status, recovery, pc>> /\ pc = "loop"
    BY <1>8 DEF Remove, Add, AddStores, Advance, locals
  <2>2. Spent' = Spent
    BY <2>1 DEF Spent, Unsafe
  <2>3. CleanPass => CleanPass'
    BY <1>8, <2>1, CleanStep
  <2>4. QED
    BY <2>1, <2>2, <2>3 DEF RegInv, Failures, OneFailureRepaired, Control
<1>9. CASE Misstore
  <2>1. UNCHANGED <<goal, status, recovery, pc>> /\ pc = "loop" /\ faults' = faults + 1
    BY <1>9 DEF Misstore, AddStores, Failed, locals
  <2>2. Spent' = Spent + 1
    BY <1>0, <2>1 DEF Spent, Unsafe, TypeOK
  <2>3. QED
    BY <1>0, <2>1, <2>2 DEF RegInv, Failures, OneFailureRepaired, Control
<1>10. CASE UNCHANGED vars
  BY <1>10 DEF vars, RegInv, Failures, OneFailureRepaired, CleanPass, Spent, Skips, Unsafe
<1>11. QED
  BY <1>1, <1>2, <1>3, <1>4, <1>5, <1>6, <1>7, <1>8, <1>9, <1>10
     DEF Next, Proceed, Fail

LEMMA RegInvariant == Spec => []RegInv
<1>1. RegInv /\ [Next]_vars => RegInv'
  BY NextTypeOK, NextControl, NextFailures DEF RegInv
<1>2. QED
  BY <1>1, InitRegInv, PTL DEF Spec

\* A single failing command never leaves the registry to be recovered by hand.
THEOREM OneFailure == Spec => []OneFailureRepaired
<1>1. RegInv => OneFailureRepaired
  BY DEF RegInv, Failures
<1>2. QED
  BY <1>1, RegInvariant, PTL

\* Every backup can be restored.
THEOREM Restorable == Spec => []BackupsRestorable
<1>1. RegInv => BackupsRestorable
  BY DEF RegInv, Saved
<1>2. QED
  BY <1>1, RegInvariant, PTL

-----------------------------------------------------------------------------
(* main() implements McpRegistryTxn *)

LEMMA StepImplements == RegInv /\ RegInv' /\ [Next]_vars => [Txn!Next]_(Txn!txnVars)
<1> SUFFICES ASSUME RegInv, RegInv', [Next]_vars
             PROVE  Txn!Next \/ UNCHANGED Txn!txnVars
  OBVIOUS
<1> USE DEF RegInv, Control, Saved, Aim, Txn!txnVars
<1>0. TypeOK /\ TypeOK'
  OBVIOUS
<1>1. ASSUME NEW m \in {"check", "apply", "rollback"}, NEW rep \in BOOLEAN,
             NEW captured \in Registry, Start(m, rep, captured)
      PROVE  Txn!Next
  BY <1>0, <1>1 DEF Start, TypeOK, Txn!Next, Txn!Open
<1>2. CASE TakeInventory \/ BeginRestore \/ Advance
  BY <1>2 DEF TakeInventory, BeginRestore, Advance, locals
<1>3. CASE Refuse \/ PreflightFails \/ GateFails \/ Crash \/ Succeed
  <2>1. UNCHANGED <<registry, pre, goal, backups>> /\ status = "open"
    BY <1>3 DEF Refuse, PreflightFails, GateFails, Crash, Succeed, locals
  <2>2. CASE Refuse \/ PreflightFails \/ GateFails
    BY <2>1, <2>2 DEF Refuse, PreflightFails, GateFails, End, Txn!Next, Txn!Close
  <2>3. CASE Crash
    <3>1. registry = pre \/ pre \in backups
      BY <1>0, <2>3 DEF Crash, TypeOK
    <3>2. QED
      BY <2>1, <2>3, <3>1 DEF Crash, End, Txn!Next, Txn!Close
  <2>4. CASE Succeed
    BY <2>1, <2>4 DEF Succeed, Verified, End, Txn!Next, Txn!Close
  <2>5. QED
    BY <1>3, <2>2, <2>3, <2>4
<1>4. CASE WriteBackup
  BY <1>4 DEF WriteBackup, locals, Txn!Next, Txn!Save
<1>5. CASE Remove \/ Add \/ Misstore
  BY <1>0, <1>5 DEF Remove, Add, Misstore, AddStores, locals, TypeOK, Txn!Next, Txn!Touch
<1>6. CASE RestoreRefuses \/ RestoreFails \/ VerifyRefuses \/ VerifyFails \/ CommandFails
  <2>1. pc \in {"restore", "loop"} /\ UNCHANGED <<pre, goal, backups>> /\ Raise
        /\ registry' \in Registry
    BY <1>0, <1>6 DEF RestoreRefuses, RestoreFails, VerifyRefuses, VerifyFails,
       CommandFails, locals, TypeOK
  <2>2. CASE recovery
    BY <2>1, <2>2 DEF Raise, End, Txn!Next, Txn!GiveUp
  <2>3. CASE ~recovery
    BY <2>1, <2>3 DEF Raise, Txn!Next, Txn!Touch
  <2>4. QED
    BY <2>2, <2>3
<1>7. CASE UNCHANGED vars
  BY <1>7 DEF vars
<1>8. QED
  BY <1>1, <1>2, <1>3, <1>4, <1>5, <1>6, <1>7 DEF Next, Proceed, Fail

\* Whichever commands fail, main() touches the registry only after what it
\* found is in a backup, and every report it makes is true of the registry.
THEOREM PromiseKept == Spec => KeepsPromise
<1>1. Init => Txn!Init
  BY DEF Init, Txn!Init
<1>2. QED
  BY <1>1, StepImplements, RegInvariant, PTL DEF Spec, KeepsPromise, Txn!Spec

\* main() and restore() put back what one failure broke, and every backup can
\* be restored, for any number of profiles.
THEOREM RepairsHold == Spec => []Repairable
<1>1. OneFailureRepaired /\ BackupsRestorable => Repairable
  BY DEF Repairable
<1> QED
  BY <1>1, OneFailure, Restorable, PTL
=============================================================================
