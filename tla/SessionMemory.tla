---------------------------- MODULE SessionMemory ----------------------------
(***************************************************************************)
(* codex/lib/intbrain_memory.py: extract_session_items reads the session   *)
(* files that Codex is still writing, from the offset of the last run; its *)
(* caller stores the items and calls mark_stored, which saves offsets and  *)
(* hashes in one state file.                                               *)
(*                                                                         *)
(* A file is measured in half lines: line k is the halves 2k-1 and 2k, and *)
(* only a whole line parses.  Line 1 is the session_meta record, each      *)
(* other line a message that makes an item.  The hash of an item covers    *)
(* its text and the number of its line, counted from where the read began. *)
(***************************************************************************)
EXTENDS Integers, FiniteSets

CONSTANTS
  NPaths,    \* session files, in the order of list_session_files
  MaxLines,  \* bound on the lines of a file
  Scopes,    \* the sets of files that scope_roots may select
  Habits     \* the habits of writer, caller and host considered, see Habit

Path == 1 .. NPaths
Line == 1 .. MaxLines

ASSUME SizeAssumption  == NPaths \in Nat /\ MaxLines \in Nat
ASSUME ScopeAssumption == Scopes \subseteq SUBSET Path

\* The writer may stop in the middle of a line ("halves") and write while a file
\* is being read ("growing"); the caller may ask for a full read ("full": file_path
\* or since is given) and store only some of the items ("picky"); an extraction
\* may raise, a save may fail, the process may crash ("raise", "save", "crash").
\* If "short", files are a line shorter, which is a bound.
Habit == SUBSET {"halves", "growing", "full", "picky", "raise", "save", "crash", "short"}

ASSUME HabitAssumption == Habits \subseteq Habit

VARIABLES
  habit,   \* the habits of writer, caller and host, once and for all
  size,    \* size[f]: halves of file f written so far
  disk,    \* the state file
  pc,      \* where the reader is
  mem,     \* _StateStore.data
  scope,   \* the files in scope_roots
  full,    \* the extraction is not incremental
  todo,    \* files that the extraction has yet to visit
  from,    \* start_offset
  upto,    \* file_size
  got,     \* items collected by the extraction
  out,     \* items returned and not yet marked
  given,   \* history: every item returned to the caller
  passed   \* history: lines that were passed over, see Measure, Read and Raise

reader == <<mem, scope, full, todo, from, upto, got, out>>
vars   == <<habit, size, disk, pc, reader, given, passed>>

Size == 0 .. 2 * MaxLines
Item == [kind : {"message", "summary"}, path : Path, first : Line, line : Line,
         number : Line]
Data == [off : [Path -> Size], hashes : SUBSET Item]

Empty == [off |-> [f \in Path |-> 0], hashes |-> {}]

\* A file that json.loads reads as data d, and one that is cut short.
Whole(d) == [whole |-> TRUE, data |-> d]
Broken   == [whole |-> FALSE, data |-> Empty]
File     == [whole : BOOLEAN, data : Data]

Init ==
  /\ habit \in Habits
  /\ size = [f \in Path |-> 0]
  /\ disk = Whole(Empty)
  /\ pc = "off"
  /\ mem = Empty
  /\ scope = {}
  /\ full = FALSE
  /\ todo = {}
  /\ from = 0
  /\ upto = 0
  /\ got = {}
  /\ out = {}
  /\ given = {}
  /\ passed = {}

-----------------------------------------------------------------------------
MostLines == IF "short" \in habit /\ MaxLines > 0 THEN MaxLines - 1 ELSE MaxLines

\* Codex appends to a session file.
WriterAppends(f) ==
  /\ "growing" \in habit \/ pc \notin {"next", "read"}
  /\ \E n \in IF "halves" \in habit THEN {1, 2} ELSE {2} :
       /\ size[f] + n <= 2 * MostLines
       /\ size' = [size EXCEPT ![f] = @ + n]
  /\ UNCHANGED <<habit, disk, pc, reader, given, passed>>

\* IntBrainMemory.__init__ loads the state file.
Open ==
  /\ pc = "off"
  /\ disk.whole
  /\ mem' = disk.data
  /\ scope' \in Scopes
  /\ pc' = "idle"
  /\ UNCHANGED <<habit, size, disk, full, todo, from, upto, got, out, given, passed>>

\* extract_session_items over all files, or over those the caller asks for.
\* A caller that is not picky has marked what the last call returned.
Begin ==
  /\ pc = "idle"
  /\ "picky" \in habit \/ out = {}
  /\ \/ /\ full' = FALSE
        /\ todo' = Path
     \/ /\ "full" \in habit
        /\ full' = TRUE
        /\ todo' \in (SUBSET Path) \ {{}}
  /\ pc' = "next"
  /\ got' = {}
  /\ out' = {}
  /\ UNCHANGED <<habit, size, disk, mem, scope, from, upto, given, passed>>

Current == CHOOSE f \in todo : \A g \in todo : f <= g

\* Where the read of the current file starts.
StartOffset ==
  IF full \/ mem.off[Current] > size[Current] THEN 0 ELSE mem.off[Current]

\* Mutant: the offset stays at the last line.
SetOffset_LastLine(f, n) ==
  [mem EXCEPT !.off[f] = IF n > 2 THEN n - 2 ELSE 0]

\* _StateStore.set_offset
SetOffset(f, n) == [mem EXCEPT !.off[f] = n]

\* The lines of f that have a half below n.
Begun(f, n) == {<<f, k>> : k \in {k \in Line : 2 * k - 1 <= n}}

\* Mutant: the offset moves before the file is read.
Measure_MovesFirst ==
  /\ pc = "next"
  /\ todo # {}
  /\ size[Current] >= 2
  /\ from' = StartOffset
  /\ upto' = size[Current]
  /\ mem' = SetOffset(Current, size[Current])
  /\ pc' = "read"
  /\ UNCHANGED <<habit, size, disk, scope, full, todo, got, out, given, passed>>

\* load_session_meta, the size, the scope.  A file out of scope is passed
\* over for good: its offset moves to its end.
Measure ==
  /\ pc = "next"
  /\ todo # {}
  /\ LET f == Current IN
     \/ /\ size[f] < 2
        /\ todo' = todo \ {f}
        /\ UNCHANGED <<pc, mem, from, upto, passed>>
     \/ /\ size[f] >= 2
        /\ f \notin scope
        /\ mem' = SetOffset(f, size[f])
        /\ todo' = todo \ {f}
        /\ passed' = passed \cup Begun(f, size[f])
        /\ UNCHANGED <<pc, from, upto>>
     \/ /\ size[f] >= 2
        /\ f \in scope
        /\ from' = StartOffset
        /\ upto' = size[f]
        /\ pc' = "read"
        /\ UNCHANGED <<mem, todo, passed>>
  /\ UNCHANGED <<habit, size, disk, scope, full, got, out, given>>

-----------------------------------------------------------------------------
\* The messages that iter_jsonl yields of f from offset n on; a half line at
\* either end does not parse.
Messages(f, n) == {k \in Line : k > 1 /\ 2 * (k - 1) >= n /\ 2 * k <= size[f]}

\* line_no counts the lines from the start of the read.
Number(k, n) == k - (n \div 2)

Message(f, k, n) ==
  [kind |-> "message", path |-> f, first |-> k, line |-> k, number |-> Number(k, n)]

\* The summary of a read: its first and last message, at its last record.
Summary(f, K, n) ==
  {[kind |-> "summary", path |-> f, first |-> ab[1], line |-> ab[2],
    number |-> Number(ab[2], n)] :
     ab \in {ab \in K \X K : \A k \in K : ab[1] <= k /\ k <= ab[2]}}

\* extract_items
Extracted(f, n) ==
  LET K == Messages(f, n)
  IN  {Message(f, k, n) : k \in K} \cup Summary(f, K, n)

\* A line that is half written when the size is measured, and still is when
\* it is read, is passed over: the next read starts in its middle.
Torn(f) == {<<f, k>> : k \in {k \in Line : upto = 2 * k - 1 /\ size[f] < 2 * k}}

\* iter_jsonl to the end of the file; items with a known hash are dropped.
\* The offset to continue from is the size measured before the read.
Read ==
  /\ pc = "read"
  /\ LET f == Current IN
     /\ got' = got \cup (Extracted(f, from) \ mem.hashes)
     /\ mem' = SetOffset(f, upto)
     /\ passed' = passed \cup Torn(f)
     /\ todo' = todo \ {f}
  /\ pc' = "next"
  /\ from' = 0
  /\ upto' = 0
  /\ UNCHANGED <<habit, size, disk, scope, full, out, given>>

\* Mutant: the offsets are saved before the items are stored.
Return_Saves ==
  /\ pc = "next"
  /\ todo = {}
  /\ pc' = "idle"
  /\ out' = got
  /\ given' = given \cup got
  /\ got' = {}
  /\ full' = FALSE
  /\ disk' = Whole(mem)
  /\ UNCHANGED <<habit, size, mem, scope, todo, from, upto, passed>>

\* The summary dict with its items goes to the caller.
Return ==
  /\ pc = "next"
  /\ todo = {}
  /\ pc' = "idle"
  /\ out' = got
  /\ given' = given \cup got
  /\ got' = {}
  /\ full' = FALSE
  /\ UNCHANGED <<habit, size, disk, mem, scope, todo, from, upto, passed>>

\* A file that vanishes or a record that is no object: the exception drops the
\* items collected so far, whose offsets have moved in memory.
Raise ==
  /\ "raise" \in habit
  /\ pc \in {"next", "read"}
  /\ todo # {}
  /\ pc' = "idle"
  /\ got' = {}
  /\ todo' = {}
  /\ passed' = passed \cup {<<i.path, i.line>> : i \in got}
  /\ full' = FALSE
  /\ from' = 0
  /\ upto' = 0
  /\ UNCHANGED <<habit, size, disk, mem, scope, out, given>>

-----------------------------------------------------------------------------
\* mark_stored remembers the hashes of the items the caller stored, and saves.
Mark ==
  /\ pc = "idle"
  /\ \E S \in SUBSET out :
       /\ "picky" \in habit \/ S = out
       /\ mem' = [mem EXCEPT !.hashes = @ \cup S]
       /\ out' = out \ S
  /\ pc' = "save"
  /\ UNCHANGED <<habit, size, disk, scope, full, todo, from, upto, got, given, passed>>

\* save writes a temporary file,
Rewrite ==
  /\ pc = "save"
  /\ pc' = "replace"
  /\ UNCHANGED <<habit, size, disk, reader, given, passed>>

\* and replaces the state file with it.
Replace ==
  /\ pc = "replace"
  /\ pc' = "idle"
  /\ disk' = Whole(mem)
  /\ UNCHANGED <<habit, size, reader, given, passed>>

\* save raises; memory keeps what was remembered.
SaveFails ==
  /\ "save" \in habit
  /\ pc \in {"save", "replace"}
  /\ pc' = "idle"
  /\ UNCHANGED <<habit, size, disk, reader, given, passed>>

\* The reader is killed, or ends.
Exit ==
  /\ "crash" \in habit
  /\ pc # "off"
  /\ pc' = "off"
  /\ mem' = Empty
  /\ scope' = {}
  /\ full' = FALSE
  /\ todo' = {}
  /\ from' = 0
  /\ upto' = 0
  /\ got' = {}
  /\ out' = {}
  /\ UNCHANGED <<habit, size, disk, given, passed>>

Next ==
  \/ \E f \in Path : WriterAppends(f)
  \/ Open \/ Begin \/ Measure \/ Read \/ Return \/ Raise
  \/ Mark \/ Rewrite \/ Replace \/ SaveFails \/ Exit

Spec == Init /\ [][Next]_vars

-----------------------------------------------------------------------------
TypeOK ==
  /\ habit \in Habit
  /\ size \in [Path -> Size]
  /\ disk \in File
  /\ pc \in {"off", "idle", "next", "read", "save", "replace"}
  /\ mem \in Data
  /\ scope \in SUBSET Path
  /\ full \in BOOLEAN
  /\ todo \in SUBSET Path
  /\ from \in Size /\ upto \in Size
  /\ got \in SUBSET Item /\ out \in SUBSET Item /\ given \in SUBSET Item
  /\ passed \in SUBSET (Path \X Line)

\* Whatever interrupts a save, the next start can load the state file.
StateLoads == disk.whole

\* I has an item of every message of f below offset off[f], but for the lines
\* in P.
Accounted(I, off, P) ==
  \A f \in Path, k \in Line :
    (k > 1 /\ 2 * k - 1 <= off[f]) =>
      \/ \E i \in I : i.kind = "message" /\ i.path = f /\ i.line = k
      \/ <<f, k>> \in P

\* No message below a saved offset, which no incremental extraction will read
\* again, was kept from the caller; except where its file was out of scope, it
\* was half written when the file was read, or the extraction that read it
\* raised and a later save wrote its offset.
NothingWithheld == disk.whole => Accounted(given, disk.data.off, passed)

\* With a caller that stores and marks all it gets, every message below a saved
\* offset is stored, wherever the reader was killed or a save failed.
SavedIsStored ==
  "picky" \notin habit /\ disk.whole => Accounted(disk.data.hashes, disk.data.off, passed)

\* Such a caller, with incremental extractions from files that rest while they
\* are read, stores no message twice, under two hashes.
StoredOnce ==
  disk.whole /\ habit \cap {"halves", "growing", "full", "picky"} = {} =>
    \A i, j \in disk.data.hashes :
      (i.kind = "message" /\ j.kind = "message" /\ i.path = j.path /\ i.line = j.line) => i = j
=============================================================================
