----------------------------- MODULE IssueMirror -----------------------------
(***************************************************************************)
(* delivery/devops: the file AGENTS/issues.json and the two scripts that   *)
(* write it.  Agents that are offline queue drafts in it;                  *)
(* import_archive_to_project.py makes items of a GitHub project of them    *)
(* and takes them out; sync_issues_mirror.py replaces the file by the      *)
(* issues of the project.  None of them knows of the others.               *)
(*                                                                         *)
(* The issues themselves are left out: the import writes back those it     *)
(* read, and no draft becomes one.  A file that was emptied and not        *)
(* written again does not parse.                                           *)
(***************************************************************************)
EXTENDS Naturals, FiniteSets

CONSTANTS
  Draft,       \* entries of offline_queue
  Id,          \* values of draft_id
  NoId,        \* no draft_id (it is none of Id): the title is taken for it
  MaxImports,  \* bound on the runs of the import
  MaxSyncs,    \* bound on the runs of the sync
  Stops        \* the scripts may stop in the middle

VARIABLES
  queue,      \* offline_queue of the file
  torn,       \* the file does not parse
  idOf,       \* idOf[d]: the draft_id of d
  created,    \* created[d]: items of the project that were made of d
  imp,        \* what the import does next: "idle", "load", "import", "write"
  raw,        \* remaining_queue
  drafts,     \* drafts it has yet to import
  imports,    \* runs of it
  syn,        \* what the sync does next: "idle", "collect", "write"
  syncs,      \* runs of it
  queued,     \* history: drafts that agents queued and did not take out
  dropped,    \* history: drafts of the file that a sync wrote over
  late,       \* history: drafts queued while an import ran
  cut,        \* history: drafts in a file that was emptied and not written
  repeats     \* history: repeats[d], why d may be imported once more

mirror  == <<queue, torn>>
import  == <<imp, raw, drafts, imports>>
sync    == <<syn, syncs>>
history == <<queued, dropped, late, cut, repeats>>
vars    == <<mirror, idOf, created, import, sync, history>>

Init ==
  /\ queue = {}
  /\ torn = FALSE
  /\ idOf \in [Draft -> Id \cup {NoId}]
  /\ created = [d \in Draft |-> 0]
  /\ imp = "idle"
  /\ raw = {}
  /\ drafts = {}
  /\ imports = 0
  /\ syn = "idle"
  /\ syncs = 0
  /\ queued = {}
  /\ dropped = {}
  /\ late = {}
  /\ cut = {}
  /\ repeats = [d \in Draft |-> 0]

-----------------------------------------------------------------------------
(* Agents *)

Queue(d) ==
  /\ ~torn
  /\ d \notin queued
  /\ created[d] = 0
  /\ queue' = queue \cup {d}
  /\ queued' = queued \cup {d}
  /\ late' = IF imp = "idle" THEN late ELSE late \cup {d}
  /\ UNCHANGED <<torn, idOf, created, import, sync, dropped, cut, repeats>>

TakeOut(d) ==
  /\ ~torn
  /\ d \in queue
  /\ queue' = queue \ {d}
  /\ queued' = queued \ {d}
  /\ UNCHANGED <<torn, idOf, created, import, sync, dropped, late, cut, repeats>>

-----------------------------------------------------------------------------
(* import_archive_to_project *)

\* load_mirror_raw
StartImport ==
  /\ imp = "idle"
  /\ imports < MaxImports
  /\ imports' = imports + 1
  /\ ~torn
  /\ raw' = queue
  /\ imp' = "load"
  /\ UNCHANGED <<mirror, idOf, created, drafts, sync, history>>

\* load_offline_drafts reads the file again; an empty queue ends the run.
LoadDrafts ==
  /\ imp = "load"
  /\ IF torn \/ queue = {}
     THEN imp' = "idle" /\ UNCHANGED drafts
     ELSE imp' = "import" /\ drafts' = queue
  /\ UNCHANGED <<mirror, idOf, created, raw, imports, sync, history>>

\* Mutant: a draft leaves the queue before it is imported.
Import_Early(d) ==
  /\ imp = "import"
  /\ d \in drafts
  /\ drafts' = drafts \ {d}
  /\ raw' = {e \in raw : idOf[e] = NoId \/ idOf[e] # idOf[d]}
  /\ \/ /\ created' = [created EXCEPT ![d] = @ + 1]
        /\ UNCHANGED repeats
     \/ UNCHANGED <<created, repeats>>
  /\ UNCHANGED <<mirror, idOf, imp, imports, sync, queued, dropped, late, cut>>

\* One draft: the item is made and its fields are set, and all entries with its
\* draft_id are taken out of the queue in memory (no entry has the title that
\* stands for a missing one); or a field fails; or no item is made.
Import(d) ==
  /\ imp = "import"
  /\ d \in drafts
  /\ drafts' = drafts \ {d}
  /\ \/ /\ created' = [created EXCEPT ![d] = @ + 1]
        /\ raw' = {e \in raw : idOf[e] = NoId \/ idOf[e] # idOf[d]}
        /\ repeats' = [repeats EXCEPT ![d] = IF idOf[d] = NoId THEN @ + 1 ELSE @]
     \/ /\ created' = [created EXCEPT ![d] = @ + 1]
        /\ repeats' = [repeats EXCEPT ![d] = @ + 1]
        /\ UNCHANGED raw
     \/ UNCHANGED <<created, raw, repeats>>
  /\ UNCHANGED <<mirror, idOf, imp, imports, sync, queued, dropped, late, cut>>

\* save_offline_queue empties the file and writes it.
EmptyForImport ==
  /\ imp = "import"
  /\ drafts = {}
  /\ imp' = "write"
  /\ torn' = TRUE
  /\ queue' = {}
  /\ UNCHANGED <<idOf, created, raw, drafts, imports, sync, history>>

SaveQueue ==
  /\ imp = "write"
  /\ imp' = "idle"
  /\ torn' = FALSE
  /\ queue' = raw
  /\ UNCHANGED <<idOf, created, raw, drafts, imports, sync, history>>

\* No project, a kill, or a full disk: what was made of the drafts so far is not
\* in the file.
StopImport ==
  /\ Stops
  /\ imp # "idle"
  /\ imp' = "idle"
  /\ repeats' = [d \in Draft |-> IF d \in queue \ raw THEN repeats[d] + 1 ELSE repeats[d]]
  /\ cut' = IF imp = "write" THEN cut \cup raw ELSE cut
  /\ drafts' = {}
  /\ UNCHANGED <<mirror, idOf, created, raw, imports, sync, queued, dropped, late>>

-----------------------------------------------------------------------------
(* sync_issues_mirror *)

\* collect_items reads the project, page by page; it may fail.
StartSync ==
  /\ syn = "idle"
  /\ syncs < MaxSyncs
  /\ syncs' = syncs + 1
  /\ syn' \in {"idle", "collect"}
  /\ UNCHANGED <<mirror, idOf, created, import, history>>

EmptyForSync ==
  /\ syn = "collect"
  /\ syn' = "write"
  /\ torn' = TRUE
  /\ queue' = {}
  /\ dropped' = dropped \cup queue
  /\ UNCHANGED <<idOf, created, import, syncs, queued, late, cut, repeats>>

\* The payload has no offline_queue.
WriteMirror ==
  /\ syn = "write"
  /\ syn' = "idle"
  /\ torn' = FALSE
  /\ queue' = {}
  /\ dropped' = dropped \cup queue
  /\ UNCHANGED <<idOf, created, import, syncs, queued, late, cut, repeats>>

StopSync ==
  /\ Stops
  /\ syn # "idle"
  /\ syn' = "idle"
  /\ UNCHANGED <<mirror, idOf, created, import, syncs, history>>

-----------------------------------------------------------------------------
ImportNext ==
  \/ StartImport \/ LoadDrafts \/ EmptyForImport \/ SaveQueue \/ StopImport
  \/ \E d \in Draft : Import(d)

SyncNext == StartSync \/ EmptyForSync \/ WriteMirror \/ StopSync

Next == (\E d \in Draft : Queue(d) \/ TakeOut(d)) \/ ImportNext \/ SyncNext

Spec == Init /\ [][Next]_vars

-----------------------------------------------------------------------------
TypeOK ==
  /\ queue \subseteq Draft /\ torn \in BOOLEAN
  /\ idOf \in [Draft -> Id \cup {NoId}]
  /\ created \in [Draft -> 0 .. MaxImports]
  /\ imp \in {"idle", "load", "import", "write"}
  /\ raw \subseteq Draft /\ drafts \subseteq Draft
  /\ syn \in {"idle", "collect", "write"}
  /\ {queued, dropped, late, cut} \subseteq SUBSET Draft

\* d is in the file, is about to be written to it, or is an item of the project.
Kept(d) == d \in queue \/ (imp = "write" /\ d \in raw) \/ created[d] > 0

Twins(d) == {e \in Draft \ {d} : idOf[e] = idOf[d] /\ idOf[d] # NoId}

\* A draft is lost in no other way than these: a sync wrote the file while it was
\* in the queue, it was queued while an import ran, whose save then wrote an
\* older queue, a save was cut short, or the import of another draft with its
\* draft_id succeeded.  A draft that could not be imported is not lost.
DraftsLost ==
  \A d \in queued :
    \/ Kept(d)
    \/ d \in dropped \cup late \cup cut
    \/ \E e \in Twins(d) : created[e] > 0

\* A draft becomes more than one item only if an import failed after it made an
\* item, stopped before it saved the queue without it, or knew no draft_id.
RepeatsExplained == \A d \in Draft : created[d] <= 1 + repeats[d]

-----------------------------------------------------------------------------
\* The inductive invariant.
Types ==
  /\ queue \subseteq Draft /\ raw \subseteq Draft /\ queued \subseteq Draft /\ idOf \in [Draft -> Id \cup {NoId}]
  /\ created \in [Draft -> Nat] /\ repeats \in [Draft -> Nat]

\* A draft that the save of a running import will leave out was imported, or it
\* was queued meanwhile.
LeftOut ==
  imp # "idle" =>
    \A d \in queue \ raw : d \in late \/ created[d] > 0 \/ \E e \in Twins(d) : created[e] > 0

\* A draft that may still be imported is no item yet, but for what repeats tells.
Due(d) ==
  \/ idOf[d] = NoId
  \/ d \in drafts
  \/ d \in raw /\ imp # "idle"
  \/ d \in queue /\ imp \in {"idle", "load"}
DueOnce == \A d \in Draft : Due(d) => created[d] <= repeats[d]

Safe == Types /\ LeftOut /\ DueOnce /\ DraftsLost /\ RepeatsExplained
=============================================================================
