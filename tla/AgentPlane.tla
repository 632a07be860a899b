------------------------------ MODULE AgentPlane ------------------------------
(***************************************************************************)
(* agent_plane: AgentPlane.call_tool under ThreadingHTTPServer.  Every     *)
(* POST has a thread that validates the payload, asks PolicyEngine, runs   *)
(* the tool through the dispatcher, records the call in the audit store    *)
(* and only then answers.  The tool's effect, its audit record and the     *)
(* answer are separate steps; threads interleave between them, the record  *)
(* may fail and the server may die.                                        *)
(*                                                                         *)
(* Requests are classes: a request from_payload refuses ("invalid", which  *)
(* includes the cabinet tools), a tool the dispatcher does not know, a     *)
(* tool of MUTATING_TOOLS, any other tool.                                 *)
(***************************************************************************)
EXTENDS Integers, Sequences, FiniteSets

CONSTANTS
  Call,    \* POSTs to /v1/tools/call
  Stores,  \* the stores create_audit_store may pick
  Faults   \* the faults that may happen

ASSUME StoreAssumption == Stores \subseteq {"jsonl", "postgres"}
ASSUME FaultAssumption == Faults \subseteq {"record", "crash"}

Kind   == {"invalid", "unknown", "guarded", "plain"}
Status == {"rejected", "ok", "error"}
Answer == Status \cup {"none", "invalid"}

VARIABLES
  store,     \* the store picked when the server was set up
  up,        \* the server process runs
  phase,        \* phase[c]: where the thread of call c is
  kind,      \* kind[c]: the class of its request
  approved,  \* approved[c]: approval_ref is given
  status,    \* status[c]: what the call is to be recorded as
  answer,    \* answer[c]: what the caller was told
  effects,   \* calls whose tool ran
  entries,   \* MemoryAuditStore._entries, what recent() shows
  journal,   \* the lines of audit.jsonl, or the rows of agent_plane.tool_calls
  failed     \* history: calls whose record raised

callVars == <<kind, approved, status, answer>>
planeVars == <<store, up, phase, kind, approved, status, answer, effects, entries, journal,
          failed>>

\* A journal entry; a line is closed when its newline was written.
Entry(c, closed) == [call |-> c, status |-> status[c], closed |-> closed]
EntryType == [call : Call, status : Status, closed : BOOLEAN]

Running == {"call", "tool", "record", "write", "reply"}
Ended   == {"answered", "dropped"}

PlaneInit ==
  /\ store \in Stores
  /\ up = TRUE
  /\ phase = [c \in Call |-> "new"]
  /\ kind = [c \in Call |-> "invalid"]
  /\ approved = [c \in Call |-> FALSE]
  /\ status = [c \in Call |-> "error"]
  /\ answer = [c \in Call |-> "none"]
  /\ effects = {}
  /\ entries = <<>>
  /\ journal = <<>>
  /\ failed = {}

-----------------------------------------------------------------------------
\* Mutant: the approval_ref is not looked at.
Allowed_Any(k, a) == k \in Kind /\ a \in BOOLEAN

\* PolicyEngine.decide: a mutating tool needs an approval_ref.
Allowed(k, a) == k = "guarded" => a

\* from_payload and decide read the request only.  An invalid request is
\* answered at once and leaves no audit entry.
Receive(c, k, a) ==
  /\ up
  /\ phase[c] = "new"
  /\ kind' = [kind EXCEPT ![c] = k]
  /\ approved' = [approved EXCEPT ![c] = a]
  /\ \/ /\ k = "invalid"
        /\ phase' = [phase EXCEPT ![c] = "answered"]
        /\ answer' = [answer EXCEPT ![c] = "invalid"]
        /\ UNCHANGED status
     \/ /\ k # "invalid"
        /\ Allowed(k, a)
        /\ phase' = [phase EXCEPT ![c] = "call"]
        /\ UNCHANGED <<store, status, answer>>
     \/ /\ k # "invalid"
        /\ ~Allowed(k, a)
        /\ phase' = [phase EXCEPT ![c] = "record"]
        /\ status' = [status EXCEPT ![c] = "rejected"]
        /\ UNCHANGED answer
  /\ UNCHANGED <<store, up, effects, entries, journal, failed>>

\* ToolDispatcher.call: the runtime starts the tool.
Dispatch(c) ==
  /\ phase[c] = "call"
  /\ kind[c] # "unknown"
  /\ phase' = [phase EXCEPT ![c] = "tool"]
  /\ effects' = effects \cup {c}
  /\ UNCHANGED <<store, up, callVars, entries, journal, failed>>

\* DispatchError: unknown tool.
UnknownTool(c) ==
  /\ phase[c] = "call"
  /\ kind[c] = "unknown"
  /\ phase' = [phase EXCEPT ![c] = "record"]
  /\ status' = [status EXCEPT ![c] = "error"]
  /\ UNCHANGED <<store, up, kind, approved, answer, effects, entries, journal, failed>>

\* Mutant: a tool that raises is answered without a record.
ToolReturns_RaiseUnaudited(c) ==
  /\ phase[c] = "tool"
  /\ \/ /\ status' = [status EXCEPT ![c] = "ok"]
        /\ phase' = [phase EXCEPT ![c] = "record"]
     \/ /\ status' = [status EXCEPT ![c] = "error"]
        /\ phase' = [phase EXCEPT ![c] = "reply"]
  /\ UNCHANGED <<store, up, kind, approved, answer, effects, entries, journal, failed>>

\* The tool returns an object with or without ok, returns something else or
\* raises: the last three are recorded alike, as an error.
ToolReturns(c) ==
  /\ phase[c] = "tool"
  /\ \E s \in {"ok", "error"} : status' = [status EXCEPT ![c] = s]
  /\ phase' = [phase EXCEPT ![c] = "record"]
  /\ UNCHANGED <<store, up, kind, approved, answer, effects, entries, journal, failed>>

-----------------------------------------------------------------------------
(* AuditStore.record *)

\* Mutant: a rejection is kept in memory only.
Remember_NotRejected(c) ==
  /\ store = "jsonl"
  /\ phase[c] = "record"
  /\ entries' = Append(entries, c)
  /\ phase' = [phase EXCEPT ![c] = IF status[c] = "rejected" THEN "reply" ELSE "write"]
  /\ UNCHANGED <<store, up, callVars, effects, journal, failed>>

\* MemoryAuditStore.record, which JsonlAuditStore.record calls first.
Remember(c) ==
  /\ store = "jsonl"
  /\ phase[c] = "record"
  /\ entries' = Append(entries, c)
  /\ phase' = [phase EXCEPT ![c] = "write"]
  /\ UNCHANGED <<store, up, callVars, effects, journal, failed>>

\* Mutant: the newline goes in front of the next line.
Write_Unclosed(c) ==
  /\ store = "jsonl"
  /\ phase[c] = "write"
  /\ journal' = Append(journal, Entry(c, FALSE))
  /\ phase' = [phase EXCEPT ![c] = "reply"]
  /\ UNCHANGED <<store, up, callVars, effects, entries, failed>>

\* The line and its newline are one append.
Write(c) ==
  /\ store = "jsonl"
  /\ phase[c] = "write"
  /\ journal' = Append(journal, Entry(c, TRUE))
  /\ phase' = [phase EXCEPT ![c] = "reply"]
  /\ UNCHANGED <<store, up, callVars, effects, entries, failed>>

\* PostgresAuditStore.record: both inserts are one transaction.
Insert(c) ==
  /\ store = "postgres"
  /\ phase[c] = "record"
  /\ journal' = Append(journal, Entry(c, TRUE))
  /\ phase' = [phase EXCEPT ![c] = "reply"]
  /\ UNCHANGED <<store, up, callVars, effects, entries, failed>>

\* Mutant: an error of the store is swallowed.
RecordFails_Swallowed(c) ==
  /\ "record" \in Faults
  /\ phase[c] = IF store = "jsonl" THEN "write" ELSE "record"
  /\ failed' = failed \cup {c}
  /\ phase' = [phase EXCEPT ![c] = "reply"]
  /\ UNCHANGED <<store, up, callVars, effects, entries, journal>>

\* The store raises out of call_tool and the connection is closed without an
\* answer.  The file may not open, or the disk is full in the middle of the
\* line; the database may have committed before the connection broke.
RecordFails(c) ==
  /\ "record" \in Faults
  /\ phase[c] = IF store = "jsonl" THEN "write" ELSE "record"
  /\ \/ UNCHANGED journal
     \/ journal' = Append(journal, Entry(c, store = "postgres"))
  /\ failed' = failed \cup {c}
  /\ phase' = [phase EXCEPT ![c] = "dropped"]
  /\ UNCHANGED <<store, up, callVars, effects, entries>>

Reply(c) ==
  /\ phase[c] = "reply"
  /\ answer' = [answer EXCEPT ![c] = status[c]]
  /\ phase' = [phase EXCEPT ![c] = "answered"]
  /\ UNCHANGED <<store, up, kind, approved, status, effects, entries, journal, failed>>

-----------------------------------------------------------------------------
\* The server dies with its threads and with _entries.
Crash ==
  /\ "crash" \in Faults
  /\ up
  /\ up' = FALSE
  /\ phase' = [c \in Call |-> IF phase[c] \in Running THEN "dropped" ELSE phase[c]]
  /\ entries' = <<>>
  /\ UNCHANGED <<store, callVars, effects, journal, failed>>

\* A new server appends to the same store; it does not read it back.
Restart ==
  /\ ~up
  /\ up' = TRUE
  /\ UNCHANGED <<store, phase, callVars, effects, entries, journal, failed>>

PlaneNext ==
  \/ \E c \in Call :
       \/ \E k \in Kind, a \in BOOLEAN : Receive(c, k, a)
       \/ Dispatch(c) \/ UnknownTool(c) \/ ToolReturns(c)
       \/ Remember(c) \/ Write(c) \/ Insert(c) \/ RecordFails(c) \/ Reply(c)
  \/ Crash
  \/ Restart

PlaneSpec == PlaneInit /\ [][PlaneNext]_planeVars

-----------------------------------------------------------------------------
PlaneTypeOK ==
  /\ store \in Stores
  /\ up \in BOOLEAN
  /\ phase \in [Call -> Running \cup Ended \cup {"new"}]
  /\ kind \in [Call -> Kind]
  /\ approved \in [Call -> BOOLEAN]
  /\ status \in [Call -> Status]
  /\ answer \in [Call -> Answer]
  /\ effects \subseteq Call
  /\ entries \in Seq(Call)
  /\ journal \in Seq(EntryType)
  /\ failed \subseteq Call

\* Call c has a complete line in the journal that says what c ended as.
Audited(c) ==
  \E n \in 1 .. Len(journal) : journal[n] = Entry(c, TRUE)

\* A caller is only told the outcome of a call that is in the durable journal,
\* and is told what the journal says (call_tool records before it returns, also
\* when the tool raised).
AnsweredAudited ==
  \A c \in Call : answer[c] \in Status => answer[c] = status[c] /\ Audited(c)

\* A mutating tool only ever runs with an approval_ref, and the journal says
\* "rejected" only of calls that had no effect and "ok" only of calls that had.
JournalTruthful ==
  /\ \A c \in effects : kind[c] = "guarded" => approved[c]
  /\ \A n \in 1 .. Len(journal) :
       LET l == journal[n] IN
       /\ l.status = "rejected" => l.call \notin effects
       /\ l.status = "ok" => l.call \in effects

\* A line can be parsed when it is closed and does not continue a torn line.
Readable(n) == journal[n].closed /\ (n > 1 => journal[n - 1].closed)

\* A write that fails in the middle of a line costs at most one other call its
\* entry: never were more callers answered without a readable entry than
\* records failed.
TornLineCost ==
  LET unreadable == {c \in Call :
                       /\ answer[c] \in Status
                       /\ ~\E n \in 1 .. Len(journal) : journal[n].call = c /\ Readable(n)}
  IN  Cardinality(unreadable) <= Cardinality(failed)

\* recent() may show a call that the file lacks, but only while the call is
\* being written or after its write failed (record appends to _entries first).
RecentHonest ==
  \A n \in 1 .. Len(entries) :
    LET c == entries[n] IN Audited(c) \/ phase[c] = "write" \/ c \in failed

\* What a reader of the audit is shown, from memory or from the file, is off by
\* the records that failed and no more.
AuditServes == TornLineCost /\ RecentHonest

\* No restart and no failure removes or rewrites an audit entry.
JournalAppendOnly ==
  [][/\ Len(journal') >= Len(journal)
     /\ \A n \in 1 .. Len(journal) : journal'[n] = journal[n]]_planeVars
=============================================================================
