------------------------------ MODULE MemoryImport ------------------------------
(***************************************************************************)
(* codex/lib/intbrain_memory.py: import_mempalace and import_cabinet       *)
(* return an item for each text file of a tree whose hash is not in the    *)
(* state file; the caller stores items in the memory and has them marked.  *)
(* Only the first 4000 characters of a file make its item and its hash.    *)
(* An object loads the state file when it is made and writes all of it     *)
(* when it marks, to state.tmp, which all processes share and which then   *)
(* replaces the state file.  A file cut short is left to SessionMemory.    *)
(***************************************************************************)
EXTENDS Naturals, FiniteSets

CONSTANTS
  NFiles,     \* files of the tree, sorted, that have a suffix that counts
  Proc,       \* processes that import
  Limits,     \* values of limit; NoLimit is none
  NoLimit,
  MaxEdits,   \* bound on the changes of files
  MaxCalls    \* bound on the imports

File == 1..NFiles

VARIABLES
  text,     \* text[f]: the versions of its first 4000 characters and of the rest; 0 is empty
  stored,   \* how often an item was stored
  disk,     \* hashes of the state file
  tmp,      \* state.tmp: whether it is there, and its hashes
  mem,      \* hashes of a process
  pc,       \* "off", "idle", "items", "save"
  items,    \* what the import returned and the caller has yet to store
  done,     \* what it stored and has not yet saved as marked
  edits, calls,
  redo,     \* items that a process stored and did not save as marked, or that
            \* another process was given as well
  starved   \* an import with room for an item gave none of those there were

vars == <<text, stored, disk, tmp, mem, pc, items, done, edits, calls, redo, starved>>

Item == File \X (1..MaxEdits)
NoFile == [there |-> FALSE, hashes |-> {}]
ItemOf(f) == <<f, text[f].head>>

Init ==
  /\ text = [f \in File |-> [head |-> 0, tail |-> 0]]
  /\ stored = [i \in Item |-> 0]
  /\ disk = {}
  /\ tmp = NoFile
  /\ mem = [p \in Proc |-> {}]
  /\ pc = [p \in Proc |-> "off"]
  /\ items = [p \in Proc |-> {}]
  /\ done = [p \in Proc |-> {}]
  /\ edits = 0 /\ calls = 0
  /\ redo = {}
  /\ starved = FALSE

\* A file changes in what the item shows, or beyond it.
Edit(f) ==
  /\ edits < MaxEdits
  /\ edits' = edits + 1
  /\ \/ text' = [text EXCEPT ![f].head = edits']
     \/ text[f].head # 0 /\ text' = [text EXCEPT ![f].tail = edits']
  /\ UNCHANGED <<stored, disk, tmp, mem, pc, items, done, calls, redo, starved>>

Open(p) ==
  /\ pc[p] = "off"
  /\ mem' = [mem EXCEPT ![p] = disk]
  /\ pc' = [pc EXCEPT ![p] = "idle"]
  /\ UNCHANGED <<text, stored, disk, tmp, items, done, edits, calls, redo, starved>>

\* The limit counts the files that were looked at.
New_Seen(p, limit) ==
  {f \in File : text[f].head # 0 /\ ItemOf(f) \notin mem[p] /\ (limit = NoLimit \/ f <= limit)}

\* The files whose items are new: the walk stops when it has limit items, and
\* files that are empty, cannot be read or are known do not count.
New(p, limit) ==
  LET new == {f \in File : text[f].head # 0 /\ ItemOf(f) \notin mem[p]}
  IN IF limit = NoLimit THEN new ELSE {f \in new : Cardinality({g \in new : g < f}) < limit}

Import(p, limit) ==
  /\ pc[p] = "idle" /\ calls < MaxCalls
  /\ calls' = calls + 1
  /\ LET new == {ItemOf(f) : f \in New(p, limit)}
         known == disk \cup UNION {items[q] \cup done[q] : q \in Proc \ {p}}
     IN items' = [items EXCEPT ![p] = new] /\ redo' = redo \cup (new \cap known)
  /\ starved' = (starved \/ (limit # 0 /\ New(p, limit) = {}
                                         /\ \E f \in File : text[f].head # 0 /\ ItemOf(f) \notin mem[p]))
  /\ pc' = [pc EXCEPT ![p] = "items"]
  /\ UNCHANGED <<text, stored, disk, tmp, mem, done, edits>>

\* The caller stores an item in the memory, or fails to.
Store(p, i) ==
  /\ i \in items[p]
  /\ items' = [items EXCEPT ![p] = @ \ {i}]
  /\ \/ stored' = [stored EXCEPT ![i] = @ + 1] /\ done' = [done EXCEPT ![p] = @ \cup {i}]
     \/ UNCHANGED <<stored, done>>
  /\ UNCHANGED <<text, disk, tmp, mem, pc, edits, calls, redo, starved>>

\* Whatever was returned is marked, stored or not.
Mark_Returned(p) ==
  /\ pc[p] = "items"
  /\ mem' = [mem EXCEPT ![p] = @ \cup done[p] \cup items[p]]
  /\ tmp' = [there |-> TRUE, hashes |-> mem'[p]]
  /\ items' = [items EXCEPT ![p] = {}]
  /\ pc' = [pc EXCEPT ![p] = "save"]
  /\ UNCHANGED <<text, stored, disk, done, edits, calls, redo, starved>>

\* mark_stored: what this process knows is written to state.tmp.
Mark(p) ==
  /\ pc[p] = "items" /\ items[p] = {}
  /\ mem' = [mem EXCEPT ![p] = @ \cup done[p]]
  /\ tmp' = [there |-> TRUE, hashes |-> mem'[p]]
  /\ pc' = [pc EXCEPT ![p] = "save"]
  /\ UNCHANGED <<text, stored, disk, items, done, edits, calls, redo, starved>>

\* state.tmp, whoever wrote it last, becomes the state file; there is an error if
\* another process has moved it, or the write or the move failed.
Replace(p) ==
  /\ pc[p] = "save"
  /\ \/ tmp.there /\ disk' = tmp.hashes /\ tmp' = NoFile
     \/ UNCHANGED <<disk, tmp>>
  /\ redo' = redo \cup ((disk \cup done[p]) \ disk')
  /\ done' = [done EXCEPT ![p] = {}]
  /\ pc' = [pc EXCEPT ![p] = "idle"]
  /\ UNCHANGED <<text, stored, mem, items, edits, calls, starved>>

Stop(p) ==
  /\ pc[p] # "off"
  /\ redo' = redo \cup done[p]
  /\ pc' = [pc EXCEPT ![p] = "off"]
  /\ items' = [items EXCEPT ![p] = {}]
  /\ done' = [done EXCEPT ![p] = {}]
  /\ mem' = [mem EXCEPT ![p] = {}]
  /\ UNCHANGED <<text, stored, disk, tmp, edits, calls, starved>>

Next ==
  \/ \E f \in File : Edit(f)
  \/ \E p \in Proc : \/ Open(p) \/ Mark(p) \/ Replace(p) \/ Stop(p)
                     \/ \E limit \in Limits : Import(p, limit)
                     \/ \E i \in Item : Store(p, i)

Spec == Init /\ [][Next]_vars

-----------------------------------------------------------------------------
\* An item that is marked was stored; it is stored again only if a process
\* stopped or failed before it saved the mark, or did not know that another one had
\* it too; an import with a limit comes to every file.
ImportsAccounted ==
  /\ \A i \in disk : stored[i] > 0
  /\ \A i \in Item : stored[i] > 1 => i \in redo
  /\ ~starved

-----------------------------------------------------------------------------
\* What is assumed of the constants.
Assumed == NFiles \in Nat /\ MaxEdits \in Nat /\ Limits \ {NoLimit} \subseteq Nat

\* The invariant: what was stored is marked, or will be, or may be stored again;
\* what a process was given, nobody else has and nobody has marked, or it may be
\* stored again.
Types ==
  /\ text \in [File -> [head : 0 .. edits, tail : 0 .. edits]]
  /\ stored \in [Item -> Nat] /\ edits \in 0 .. MaxEdits /\ starved \in BOOLEAN
  /\ disk \subseteq Item /\ tmp \in [there : BOOLEAN, hashes : SUBSET Item]
  /\ mem \in [Proc -> SUBSET Item] /\ items \in [Proc -> SUBSET Item] /\ done \in [Proc -> SUBSET Item]
  /\ pc \in [Proc -> {"off", "idle", "items", "save"}]
Idle ==
  \A p \in Proc : (pc[p] # "items" => items[p] = {}) /\ (pc[p] \notin {"items", "save"} => done[p] = {})
Known == \A p \in Proc : mem[p] \subseteq disk \cup redo \cup done[p]
Begun == tmp.hashes \subseteq disk \cup redo \cup UNION {done[p] : p \in Proc}
Marked ==
  \A i \in Item : i \in disk \cup tmp.hashes \/ (\E p \in Proc : i \in mem[p] \/ i \in done[p]) => stored[i] > 0
Kept == \A i \in Item : stored[i] > 0 => i \in disk \cup redo \/ \E p \in Proc : i \in done[p]
Given ==
  \A p \in Proc : \A i \in items[p] :
    /\ i \notin done[p]
    /\ i \in redo \/ (i \notin disk /\ \A q \in Proc \ {p} : i \notin items[q] \cup done[q])
Safe == Types /\ Idle /\ Known /\ Begun /\ Marked /\ Kept /\ Given /\ ImportsAccounted
=============================================================================
