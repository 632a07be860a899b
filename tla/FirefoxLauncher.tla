---------------------------- MODULE FirefoxLauncher ----------------------------
(***************************************************************************)
(* codex/bin/firefox_mcp_launcher.py: starts the Firefox MCP server of a   *)
(* profile, unless the run file of the profile names a process that is     *)
(* alive.  The run file is written after the server was started and        *)
(* removed when it ends.  (One profile; profiles share nothing.)           *)
(*                                                                         *)
(* The server that launcher l starts has the process id l.                 *)
(***************************************************************************)
EXTENDS Naturals

CONSTANT Launcher  \* 1 .. n

Blank == {0}

VARIABLES
  meta,     \* the run file: {} if there is none, {id}, or Blank while it is
            \* being written (it is read as {})
  pc,       \* what each launcher does next
  servers,  \* servers that run
  strange,  \* ids of servers that ended, which other processes have got
  slip      \* history: launchers started at the same time, one ended without
            \* its server, or removed the run file of another

vars == <<meta, pc, servers, strange, slip>>

Init ==
  /\ meta = {}
  /\ pc = [l \in Launcher |-> "new"]
  /\ servers = {}
  /\ strange = {}
  /\ slip = FALSE

Goto(l, at) == pc' = [pc EXCEPT ![l] = at]

\* pid_alive
Alive(p) == p \in servers \cup strange

\* Launchers that have looked at the run file and not yet written it.
Starting == {l \in Launcher : pc[l] \in {"unlink", "spawn", "open", "write"}}

\* remove_stale_run_meta
Check(l) ==
  /\ pc[l] = "new"
  /\ slip' = (slip \/ Starting # {})
  /\ \/ (\E p \in meta : Alive(p)) /\ Goto(l, "refused")
     \/ meta = {} /\ Goto(l, "spawn")
     \/ meta # {} /\ (\A p \in meta : ~Alive(p)) /\ Goto(l, "unlink")
  /\ UNCHANGED <<meta, servers, strange>>

Unlink(l) ==
  /\ pc[l] = "unlink"
  /\ meta' = {}
  /\ Goto(l, "spawn")
  /\ UNCHANGED <<servers, strange, slip>>

\* npx or Firefox is not found, or the command line asked for a dry run.
Stop(l) ==
  /\ pc[l] = "spawn"
  /\ Goto(l, "done")
  /\ UNCHANGED <<meta, servers, strange, slip>>

Spawn(l) ==
  /\ pc[l] = "spawn"
  /\ servers' = servers \cup {l}
  /\ Goto(l, "open")
  /\ UNCHANGED <<meta, strange, slip>>

\* write_text empties the file first.
Open(l) ==
  /\ pc[l] = "open"
  /\ meta' = Blank
  /\ Goto(l, "write")
  /\ UNCHANGED <<servers, strange, slip>>

\* Mutant: the id is that of the launcher (0 stands for an id that is free
\* when the launcher is killed).
Write_Own(l) ==
  /\ pc[l] = "write"
  /\ meta' = {0}
  /\ Goto(l, "wait")
  /\ UNCHANGED <<servers, strange, slip>>

Write(l) ==
  /\ pc[l] = "write"
  /\ meta' = {l}
  /\ Goto(l, "wait")
  /\ UNCHANGED <<servers, strange, slip>>

\* The run file is no longer that of l.
Others(l) == meta \notin {{}, {l}}

\* process.wait returns: the run file is removed, whosever it is.
Finish(l) ==
  /\ pc[l] = "wait" /\ l \notin servers
  /\ meta' = {}
  /\ Goto(l, "done")
  /\ slip' = (slip \/ Others(l))
  /\ UNCHANGED <<servers, strange>>

\* Ctrl-C: the run file is removed although the server may go on.
Interrupt(l) ==
  /\ pc[l] = "wait"
  /\ meta' = {}
  /\ Goto(l, "done")
  /\ slip' = (slip \/ Others(l) \/ l \in servers)
  /\ UNCHANGED <<servers, strange>>

\* The file cannot be written, or the launcher is killed: the server goes on.
\* Once the file is written, it goes on to name the server.
Die(l) ==
  /\ pc[l] \in {"unlink", "spawn", "open", "write", "wait"}
  /\ Goto(l, "done")
  /\ slip' = (slip \/ (pc[l] \in {"open", "write"} /\ l \in servers))
  /\ UNCHANGED <<meta, servers, strange>>

ServerEnds(l) ==
  /\ l \in servers
  /\ servers' = servers \ {l}
  /\ UNCHANGED <<meta, pc, strange, slip>>

\* The operating system uses an id again, and frees it again.
IdTaken(l) ==
  /\ l \notin servers /\ pc[l] \in {"wait", "done"}
  /\ strange' = IF l \in strange THEN strange \ {l} ELSE strange \cup {l}
  /\ UNCHANGED <<meta, pc, servers, slip>>

Launch(l) ==
  \/ Check(l) \/ Unlink(l) \/ Stop(l) \/ Spawn(l) \/ Open(l) \/ Write(l)
  \/ Finish(l) \/ Interrupt(l) \/ Die(l)

Next == \E l \in Launcher : Launch(l) \/ ServerEnds(l) \/ IdTaken(l)

Spec == Init /\ [][Next]_vars

-----------------------------------------------------------------------------
\* A profile is used by one server at a time, also when launchers are killed
\* and leave their servers behind, unless two launchers started at the same
\* time, one was interrupted or died before the run file was written, or one
\* whose server had ended came to remove the run file when the next launcher
\* had written its own.
OneServer == ~slip => \A k, l \in servers : k = l

-----------------------------------------------------------------------------
\* The invariant: one launcher starts at a time, a server that runs is its own,
\* and the run file names the server of a launcher that has started.
Types ==
  /\ pc \in [Launcher -> {"new", "refused", "unlink", "spawn", "open", "write", "wait", "done"}]
  /\ slip \in BOOLEAN /\ servers \subseteq Launcher
Spawned == \A s \in servers : pc[s] \in {"open", "write", "wait", "done"}
OneStarts == \A k, l \in Starting : k = l
Alone == \A s \in servers, l \in Starting : s = l
Named == \A s \in servers : s \in Starting \/ meta = {s}
Safe == Types /\ Spawned /\ (~slip => OneStarts /\ Alone /\ Named)
=============================================================================
