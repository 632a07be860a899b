----------------------------- MODULE DbaCommands -----------------------------
(***************************************************************************)
(* dba: copy, clone, dump and restore between two databases, through files *)
(* in a directory that is named after the second in which a command began. *)
(* A command is a few PostgreSQL clients one after the other, each with    *)
(* its own connection; any of them may fail.  Users write meanwhile.       *)
(***************************************************************************)
EXTENDS Naturals, FiniteSets

CONSTANTS
  Command,    \* commands that are given
  Row,        \* rows, told apart by their primary key
  MaxNow,     \* bound on the seconds that pass
  MaxWrites   \* bound on the writes of users

Db == {"prod", "dev"}

VARIABLES
  now,
  rows,    \* rows[d]: the table
  file,    \* file[s]: whether import.sql truncates the table, and the rows of
           \* the csv file or of the dump, for the files that are there
  cmd,     \* cmd[c]: the command
  writes   \* writes of users

vars == <<now, rows, file, cmd, writes>>

NoFile == [truncates |-> FALSE, rows |-> {}]

\* A command: wipe is --truncate or --clean; read, wrote, wiped and mixed are
\* history: what it read, what it wrote, whether it emptied the table, and
\* whether another command had its files at the same time.
NotGiven == [op |-> "none", from |-> "prod", to |-> "dev", wipe |-> FALSE, second |-> 0, slot |-> <<>>,
             pc |-> "none", read |-> {}, wrote |-> {}, wiped |-> FALSE, mixed |-> FALSE]

Init ==
  /\ now = 0
  /\ rows \in [Db -> SUBSET Row]
  /\ file = [s \in {} |-> NoFile]
  /\ cmd = [c \in Command |-> NotGiven]
  /\ writes = 0

Over(k) == k.pc \in {"none", "done", "failed"}

-----------------------------------------------------------------------------
\* _tool_tmp_dir, and the names of the files in it.  The mutant makes one
\* directory for all copies.
SlotOf_OneDirectory(k) ==
  IF k.op = "copy" THEN [op |-> "copy", from |-> "any", to |-> "any", second |-> 0]
  ELSE [op |-> k.op, from |-> k.from, to |-> IF k.op = "clone" THEN k.to ELSE "any", second |-> k.second]

SlotOf(k) ==
  IF k.op = "copy" THEN [op |-> "copy", from |-> "any", to |-> "any", second |-> k.second]
  ELSE [op |-> k.op, from |-> k.from, to |-> IF k.op = "clone" THEN k.to ELSE "any", second |-> k.second]

\* --approve-target and --force-prod-write; a dump writes to no database.
WriteAllowed(k, approved, force) ==
  k.op = "dump" \/ (approved = k.to /\ (k.to = "prod" => force))

Tick ==
  /\ now < MaxNow
  /\ now' = now + 1
  /\ UNCHANGED <<rows, file, cmd, writes>>

\* Users of a database, and sql and file with --write; without it they change
\* nothing.
UserWrites(d) ==
  /\ writes < MaxWrites
  /\ \E R \in SUBSET Row \ {rows[d]} : rows' = [rows EXCEPT ![d] = R]
  /\ writes' = writes + 1
  /\ UNCHANGED <<now, file, cmd>>

\* Command c begins as k.  Others have its files if they began in one second
\* and write the same files, or one restores from what the other writes.
Meets(k, l) ==
  ~Over(l) /\ IF k.op = "copy" THEN l.op = "copy" /\ l.second = k.second ELSE l.slot = k.slot

Begin(c, k) ==
  /\ cmd' = [d \in Command |->
               IF d = c THEN [k EXCEPT !.mixed = \E x \in Command : Meets(k, cmd[x])]
               ELSE [cmd[d] EXCEPT !.mixed = @ \/ Meets(k, cmd[d])]]
  /\ UNCHANGED <<now, rows, file, writes>>

Given(op, from, to, wipe) ==
  [NotGiven EXCEPT !.op = op, !.from = from, !.to = to, !.wipe = wipe, !.second = now,
                   !.pc = IF op = "copy" THEN "scripts" ELSE "open"]

\* Source and target may be one database; a dump has no other.
Start(c) ==
  /\ cmd[c].pc = "none"
  /\ \E op \in {"copy", "clone", "dump"}, from, to, approved \in Db, wipe, force \in BOOLEAN :
       LET k == Given(op, from, to, wipe) IN
       /\ op = "dump" => to = from /\ ~wipe
       /\ WriteAllowed(k, approved, force)
       /\ Begin(c, [k EXCEPT !.slot = SlotOf(k)])

\* restore, from a file that a dump or a clone has left.
StartRestore(c) ==
  /\ cmd[c].pc = "none"
  /\ \E s \in {s \in DOMAIN file : s.op # "copy"}, to, approved \in Db, wipe, force \in BOOLEAN :
       LET k == [NotGiven EXCEPT !.op = "restore", !.from = s.from, !.to = to, !.wipe = wipe, !.slot = s,
                                 !.pc = "wipe", !.read = file[s].rows]
       IN WriteAllowed(k, approved, force) /\ Begin(c, k)

\* What the directory has at a slot, and the file that is put there.
FileAt(s) == IF s \in DOMAIN file THEN file[s] ELSE NoFile
PutFile(s, f) == [t \in DOMAIN file \cup {s} |-> IF t = s THEN f ELSE file[t]]

\* copy: export.sql and import.sql.
WriteScripts(c) ==
  /\ cmd[c].pc = "scripts"
  /\ file' = PutFile(cmd[c].slot, [FileAt(cmd[c].slot) EXCEPT !.truncates = cmd[c].wipe])
  /\ cmd' = [cmd EXCEPT ![c].pc = "open"]
  /\ UNCHANGED <<now, rows, writes>>

\* The file is made anew, and then has the rows of one moment.
OpenFile(c) ==
  /\ cmd[c].pc = "open"
  /\ file' = PutFile(cmd[c].slot, [FileAt(cmd[c].slot) EXCEPT !.rows = {}])
  /\ cmd' = [cmd EXCEPT ![c].pc = "fill"]
  /\ UNCHANGED <<now, rows, writes>>

FillFile(c) ==
  /\ cmd[c].pc = "fill"
  /\ file' = [file EXCEPT ![cmd[c].slot].rows = rows[cmd[c].from]]
  /\ cmd' = [cmd EXCEPT ![c].read = rows[cmd[c].from], ![c].pc = IF cmd[c].op = "dump" THEN "done" ELSE "wipe"]
  /\ UNCHANGED <<now, rows, writes>>

\* TRUNCATE in import.sql, and what pg_restore --clean drops, are gone at once.
Wipes(k) == IF k.op = "copy" THEN file[k.slot].truncates ELSE k.wipe

Wipe(c) ==
  /\ cmd[c].pc = "wipe"
  /\ rows' = IF Wipes(cmd[c]) THEN [rows EXCEPT ![cmd[c].to] = {}] ELSE rows
  /\ cmd' = [cmd EXCEPT ![c].wiped = Wipes(cmd[c]), ![c].pc = "load"]
  /\ UNCHANGED <<now, file, writes>>

\* All rows of the table are loaded, or none if one is there already.
\* pg_restore goes on after what else went wrong, and fails at the end.
Load(c) ==
  /\ cmd[c].pc = "load"
  /\ LET R == file[cmd[c].slot].rows IN
     IF R \cap rows[cmd[c].to] = {}
       THEN /\ rows' = [rows EXCEPT ![cmd[c].to] = @ \cup R]
            /\ \E end \in {"done"} \cup IF cmd[c].op = "copy" THEN {} ELSE {"failed"} :
                 cmd' = [cmd EXCEPT ![c].wrote = R, ![c].pc = end]
       ELSE /\ cmd' = [cmd EXCEPT ![c].pc = "failed"]
            /\ UNCHANGED rows
  /\ UNCHANGED <<now, file, writes>>

\* _run_checked: a client ends with an error, or the command is interrupted.
Fail(c) ==
  /\ ~Over(cmd[c])
  /\ cmd' = [cmd EXCEPT ![c].pc = "failed"]
  /\ UNCHANGED <<now, rows, file, writes>>

Step(c) ==
  Start(c) \/ StartRestore(c) \/ WriteScripts(c) \/ OpenFile(c) \/ FillFile(c) \/ Wipe(c) \/ Load(c) \/ Fail(c)

Next ==
  \/ Tick
  \/ \E d \in Db : UserWrites(d)
  \/ \E c \in Command : Step(c)

Spec == Init /\ [][Next]_vars

-----------------------------------------------------------------------------
Exact(k) ==
  /\ k.pc = "done" /\ k.op # "dump" => k.wrote = k.read
  /\ k.pc # "done" /\ k.op = "copy" => k.wrote = {}
  /\ k.wiped => k.wipe

\* _cmd_copy, _cmd_clone, _cmd_restore: a command that succeeds has written to
\* the target what it read from the source, a copy that fails has written
\* nothing, and a table is emptied only by a command that was told to, unless
\* another one had its files: it was given in the same second, or restored
\* from what was being written.
CopiesExact == \A c \in Command : ~cmd[c].mixed => Exact(cmd[c])

-----------------------------------------------------------------------------
\* The inductive invariant.
Slots == [op : {"copy", "clone", "dump"}, from : Db \cup {"any"}, to : Db \cup {"any"}, second : Nat]

Commands ==
  [op : {"none", "copy", "clone", "dump", "restore"}, from : Db \cup {"any"}, to : Db, wipe : BOOLEAN,
   second : Nat, slot : Slots \cup {<<>>},
   pc : {"none", "scripts", "open", "fill", "wipe", "load", "done", "failed"},
   read : SUBSET Row, wrote : SUBSET Row, wiped : BOOLEAN, mixed : BOOLEAN]

Files == [truncates : BOOLEAN, rows : SUBSET Row]

Types ==
  /\ now \in Nat
  /\ rows \in [Db -> SUBSET Row]
  /\ DOMAIN file \subseteq Slots /\ \A s \in DOMAIN file : file[s] \in Files
  /\ cmd \in [Command -> Commands]

\* A command at work has a slot, and from "fill" on a file there;
HasFile(k, f) ==
  /\ k.slot \in Slots
  /\ k.op = "restore" => k.slot.op # "copy"
  /\ k.op \in {"copy", "clone", "dump"} => k.slot = SlotOf(k) /\ k.from \in Db
  /\ k.op # "none" /\ (k.op = "restore" => k.pc \in {"wipe", "load"})
  /\ k.pc \in {"fill", "wipe", "load"} => k.slot \in DOMAIN f

\* if it is not mixed with another, the file is as it has written or read it,
FileIsOwn(k, f) ==
  /\ k.op = "copy" /\ k.pc # "scripts" => k.slot \in DOMAIN f /\ f[k.slot].truncates = k.wipe
  /\ k.pc \in {"wipe", "load"} => f[k.slot].rows = k.read

\* as nobody else has that slot.
Apart ==
  \A c, d \in Command :
    c # d /\ ~Over(cmd[c]) /\ ~Over(cmd[d]) /\ ~cmd[c].mixed => cmd[c].slot # cmd[d].slot

Safe ==
  /\ Types /\ Apart /\ CopiesExact
  /\ \A c \in Command :
       /\ ~Over(cmd[c]) => HasFile(cmd[c], file) /\ (~cmd[c].mixed => FileIsOwn(cmd[c], file))
       /\ cmd[c].pc \notin {"done", "failed"} => cmd[c].wrote = {}
=============================================================================
