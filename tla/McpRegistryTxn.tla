---------------------------- MODULE McpRegistryTxn ----------------------------
(***************************************************************************)
(* What intdata_mcp_registration.py promises its operator, one invocation  *)
(* after another: the registry is left as it was, taken to the goal, or    *)
(* put back; where it cannot promise any of these it says so, and then the *)
(* registry it found is in a backup.  In between the registry may be       *)
(* anything, but only once what it found is saved.                         *)
(***************************************************************************)
CONSTANT Registry   \* the registries there can be

VARIABLES
  registry,   \* what the codex CLI has registered
  pre,        \* the registry the invocation found
  goal,       \* the registry it is asked for
  backups,    \* the registries in backup files
  status      \* "open" while the invocation runs, then what it reports

txnVars == <<registry, pre, goal, backups, status>>

Status == {"none", "open", "unchanged", "committed", "restored", "manual", "crashed"}

Init ==
  /\ registry \in Registry
  /\ pre = registry
  /\ goal = registry
  /\ backups = {}
  /\ status = "none"

Open ==
  /\ status # "open"
  /\ status' = "open"
  /\ pre' = registry
  /\ goal' \in Registry
  /\ UNCHANGED <<registry, backups>>

Save ==
  /\ status = "open"
  /\ backups' = backups \cup {pre}
  /\ UNCHANGED <<registry, pre, goal, status>>

Touch ==
  /\ status = "open"
  /\ pre \in backups
  /\ registry' \in Registry
  /\ UNCHANGED <<pre, goal, backups, status>>

Close ==
  /\ status = "open"
  /\ \/ status' = "unchanged" /\ registry = pre
     \/ status' = "committed" /\ registry = goal
     \/ status' = "restored" /\ registry = pre
     \/ status' = "crashed" /\ (registry = pre \/ pre \in backups)
  /\ UNCHANGED <<registry, pre, goal, backups>>

\* "recover manually": the last command may have left the registry anyhow.
GiveUp ==
  /\ status = "open"
  /\ pre \in backups
  /\ registry' \in Registry
  /\ status' = "manual"
  /\ UNCHANGED <<pre, goal, backups>>

Next == Open \/ Save \/ Touch \/ Close \/ GiveUp

Spec == Init /\ [][Next]_txnVars
=============================================================================
