------------------------------ MODULE LocalTest ------------------------------
(***************************************************************************)
(* dba local-test: run brings a local Supabase runtime up in a workspace,  *)
(* fills its database and stops it, and stop stops one that was kept.  Two *)
(* commands may have one workspace: it is given with --workdir, or named   *)
(* after the second.                                                       *)
(***************************************************************************)
EXTENDS Naturals

CONSTANTS
  Command,    \* commands that are given
  Workspace,
  MaxSmokes   \* bound on the smoke files

VARIABLES
  made,   \* workspaces that were initialised
  up,     \* workspaces whose runtime is up
  cmd     \* cmd[c]: [op, at, keep, seed, smokes, pc, result, stopped]

vars == <<made, up, cmd>>

NotGiven == [op |-> "none", at |-> "none", keep |-> FALSE, seed |-> FALSE, smokes |-> 0,
             pc |-> "none", result |-> "none", stopped |-> TRUE]

Init ==
  /\ made = {} /\ up = {}
  /\ cmd = [c \in Command |-> NotGiven]

At(c, pc) == cmd[c].pc = pc
Go(c, pc) == cmd' = [cmd EXCEPT ![c].pc = pc]

-----------------------------------------------------------------------------
\* The owner's token and Docker are there, or nothing happens.
Run(c) ==
  /\ At(c, "none")
  /\ \E w \in Workspace, keep, seed \in BOOLEAN, n \in 0 .. MaxSmokes :
       cmd' = [cmd EXCEPT ![c] = [NotGiven EXCEPT !.op = "run", !.at = w, !.keep = keep, !.seed = seed,
                                                  !.smokes = n, !.pc = "init"]]
  /\ UNCHANGED <<made, up>>

Stop(c) ==
  /\ At(c, "none")
  /\ \E w \in made : cmd' = [cmd EXCEPT ![c] = [NotGiven EXCEPT !.op = "stop", !.at = w, !.pc = "stop"]]
  /\ UNCHANGED <<made, up>>

\* What follows an exception in the body, or an interrupt: finally.  The mutant
\* begins the try after supabase start.
Unwound_LateTry(c) == IF cmd[c].pc \in {"init", "start"} \/ cmd[c].keep THEN "over" ELSE "stop"
Unwound(c) == IF cmd[c].keep THEN "over" ELSE "stop"

Raise(c) == cmd' = [cmd EXCEPT ![c].pc = Unwound(c), ![c].result = "failed"]

\* supabase init refuses a directory that has a project.
InitWorkspace(c) ==
  /\ At(c, "init")
  /\ IF cmd[c].at \in made THEN Raise(c) ELSE Go(c, "start")
  /\ made' = made \cup {cmd[c].at}
  /\ UNCHANGED up

\* supabase start; when it fails the runtime may be there in part.
StartRuntime(c) ==
  /\ At(c, "start")
  /\ \/ up' = up \cup {cmd[c].at} /\ Go(c, "apply")
     \/ up' \in {up, up \cup {cmd[c].at}} /\ Raise(c)
  /\ UNCHANGED made

\* supabase status and the migrations, init/seed.sql, each smoke file: they
\* need the runtime.
AfterApply(c) == IF cmd[c].seed THEN "seed" ELSE "smoke"

Work(c) ==
  /\ \/ At(c, "apply") /\ Go(c, AfterApply(c))
     \/ At(c, "seed") /\ Go(c, "smoke")
     \/ At(c, "smoke") /\ cmd[c].smokes > 0 /\ cmd' = [cmd EXCEPT ![c].smokes = @ - 1]
  /\ cmd[c].at \in up
  /\ UNCHANGED <<made, up>>

Succeed(c) ==
  /\ At(c, "smoke") /\ cmd[c].smokes = 0
  /\ cmd' = [cmd EXCEPT ![c].pc = IF cmd[c].keep THEN "over" ELSE "stop", ![c].result = "done"]
  /\ UNCHANGED <<made, up>>

\* A step ends with an error, or the command is interrupted.
Break(c) ==
  /\ cmd[c].pc \in {"init", "start", "apply", "seed", "smoke"}
  /\ Raise(c)
  /\ UNCHANGED <<made, up>>

\* supabase stop --no-backup: run forgets that it failed, stop reports it.
StopRuntime(c) ==
  /\ At(c, "stop")
  /\ \/ /\ up' = up \ {cmd[c].at}
        /\ cmd' = [cmd EXCEPT ![c].pc = "over", ![c].result = IF cmd[c].op = "stop" THEN "done" ELSE @]
     \/ /\ cmd' = [cmd EXCEPT ![c].pc = "over", ![c].stopped = FALSE,
                              ![c].result = IF cmd[c].op = "stop" THEN "failed" ELSE @]
        /\ UNCHANGED up
  /\ UNCHANGED made

Step(c) ==
  \/ Run(c) \/ Stop(c) \/ InitWorkspace(c) \/ StartRuntime(c) \/ Work(c) \/ Succeed(c)
  \/ Break(c) \/ StopRuntime(c)

Next == \E c \in Command : Step(c)

Spec == Init /\ [][Next]_vars

-----------------------------------------------------------------------------
\* _cmd_local_test_run: a runtime that is up is one that a command still works
\* with, that --keep-running has left, or that supabase stop did not stop.
RuntimesOwned ==
  \A w \in up : \E c \in Command :
    /\ cmd[c].op = "run" /\ cmd[c].at = w
    /\ cmd[c].pc # "over" \/ cmd[c].keep \/ ~cmd[c].stopped

-----------------------------------------------------------------------------
\* The inductive invariant.
Commands ==
  [op : {"none", "run", "stop"}, at : Workspace \cup {"none"}, keep : BOOLEAN, seed : BOOLEAN, smokes : Nat,
   pc : {"none", "init", "start", "apply", "seed", "smoke", "stop", "over"},
   result : {"none", "done", "failed"}, stopped : BOOLEAN]

Types == made \subseteq Workspace /\ cmd \in [Command -> Commands]

\* Only run starts a runtime, in its workspace.
RunStarts ==
  \A c \in Command :
    /\ cmd[c].op = "run" => cmd[c].at \in Workspace
    /\ cmd[c].pc = "none" => cmd[c].op = "none"
    /\ cmd[c].pc \in {"init", "start", "apply", "seed", "smoke"} => cmd[c].op = "run"

Safe == Types /\ RunStarts /\ RuntimesOwned
=============================================================================
