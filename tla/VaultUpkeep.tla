----------------------------- MODULE VaultUpkeep -----------------------------
(***************************************************************************)
(* vault/installers: vault_sanitize.py moves files out of a vault that     *)
(* people go on writing in, runtime_vault_gc.py archives the tree that     *)
(* they are moved to.  Either may run while the other does, and may stop   *)
(* at any point.                                                           *)
(*                                                                         *)
(* A file is known by the directory of the vault it was written in and by  *)
(* whether the profile allows its suffix.  The directories are             *)
(* .tmp/git-history-inspect ("hist"), .tmp ("tmp", which stands for the    *)
(* other runtime directories as well), Resources/OpenClaw ("notes"),       *)
(* Resources/Agents/OpenClaw ("agents") and any other ("inbox").  What a   *)
(* file says is the number of the write that made it.                      *)
(***************************************************************************)
EXTENDS Integers, Sequences, FiniteSets

CONSTANTS
  Names,      \* <<directory, allowed>> of the files that people write
  MaxWrites,  \* bound on their writes
  MaxRuns,    \* bound on the runs of vault_sanitize
  MaxGcs,     \* bound on the runs of runtime_vault_gc
  MaxNow      \* bound on the seconds that pass

Runtime == {"artifacts", "non_whitelist"}

VARIABLES
  files,     \* all files of all trees
  far,       \* the vault is on a device of its own
  writes,    \* writes so far
  latest,    \* history: what each name last was in the vault, 0 if nothing
  exposed,   \* history: writes made where a copied tree was about to be removed
  todo,      \* the moves left, the first of them under way
  pc,        \* "idle", "act", "merge", "place", "copied"
  listing,   \* names listed in the source that were not moved yet
  cur,       \* names being moved
  runs,      \* runs of vault_sanitize
  clean,     \* history: complete runs since the last write, -1 if it was in the last run
  now,       \* the second
  gc,        \* what runtime_vault_gc does next: "idle", "runtime", "legacy"
  stamp,     \* the second it began in, 0 if it does not run
  archives,  \* archive directories
  gcs        \* runs of runtime_vault_gc

people   == <<writes, latest, exposed>>
sanitize == <<todo, pc, listing, cur, runs, clean>>
collect  == <<gc, stamp, archives, gcs>>
vars     == <<files, far, people, sanitize, now, collect>>

\* The trees are "vault", "tools", the two of the runtime root and "legacy", each
\* in use (stamp 0) or archived.
InUse(roots) == {f \in files : f.root \in roots /\ f.stamp = 0}
Vault == InUse({"vault"})

SameSlot(f, g) == f.root = g.root /\ f.stamp = g.stamp /\ f.name = g.name

Init ==
  /\ files = {[root |-> "legacy", stamp |-> 0, name |-> <<"inbox", TRUE>>, write |-> 0]}
  /\ far \in BOOLEAN
  /\ writes = 0
  /\ latest = [m \in Names |-> 0]
  /\ exposed = {}
  /\ todo = <<>>
  /\ pc = "idle"
  /\ listing = {}
  /\ cur = {}
  /\ runs = 0
  /\ clean = 0
  /\ now = 1
  /\ gc = "idle"
  /\ stamp = 0
  /\ archives = {}
  /\ gcs = 0

-----------------------------------------------------------------------------
(* People, and programs that they run *)

\* Somebody writes a file, new or over the one that is there.
Write(m) ==
  /\ writes < MaxWrites
  /\ writes' = writes + 1
  /\ LET old == {f \in Vault : f.name = m}
         new == [root |-> "vault", stamp |-> 0, name |-> m, write |-> writes']
     IN  /\ files' = (files \ old) \cup {new}
  /\ latest' = [latest EXCEPT ![m] = writes']
  /\ exposed' = IF pc = "copied" /\ m \in cur THEN exposed \cup {writes'} ELSE exposed
  /\ clean' = IF pc = "idle" THEN 0 ELSE -1
  /\ UNCHANGED <<far, todo, pc, listing, cur, runs, now, collect>>

Tick ==
  /\ now < MaxNow
  /\ now' = now + 1
  /\ UNCHANGED <<files, far, people, sanitize, collect>>

-----------------------------------------------------------------------------
(* vault_sanitize *)

In(dirs) == {m \in Names : m[1] \in dirs}

\* A move of the directory that names are in, or of one file, to a tree.
MoveDir(dirs, to) == [dir |-> TRUE, names |-> In(dirs), to |-> to]
MoveFile(m) == [dir |-> FALSE, names |-> {m}, to |-> "non_whitelist"]

DefaultActions ==
  <<MoveDir({"hist"}, "tools"), MoveDir({"notes"}, "agents"),
    MoveDir({"tmp", "hist"}, "artifacts")>>

\* Mutant: all of Resources/Agents is allowed.
ScanNonWhitelist_Agents == {f.name : f \in {g \in Vault : ~g.name[2] /\ g.name[1] # "agents"}}

\* scan_non_whitelist
ScanNonWhitelist == {f.name : f \in {g \in Vault : ~g.name[2]}}

\* The members of S, one after another.
InOneOrder(S) == CHOOSE s \in [1 .. Cardinality(S) -> S] : \A x \in S : \E n \in DOMAIN s : s[n] = x

\* main: the files that must not stay are listed before anything is moved.
StartSanitize ==
  /\ pc = "idle"
  /\ runs < MaxRuns
  /\ runs' = runs + 1
  /\ LET bad == InOneOrder(ScanNonWhitelist)
     IN  todo' = DefaultActions \o [i \in DOMAIN bad |-> MoveFile(bad[i])]
  /\ pc' = "act"
  /\ clean' = IF clean = -1 THEN 0 ELSE clean
  /\ UNCHANGED <<files, far, people, listing, cur, now, collect>>

Action == Head(todo)
Source == {f \in Vault : f.name \in Action.names}

\* Where the move puts file f.
Moved(f) ==
  IF Action.to = "agents" THEN [f EXCEPT !.name = <<"agents", @[2]>>]
  ELSE [f EXCEPT !.root = Action.to]

Across == far /\ Action.to # "agents"

\* What names are after files F of the source were moved: a note that moves
\* within the vault is by then what its new name is.
Renamed(F) ==
  IF Action.to # "agents" THEN latest
  ELSE [m \in Names |->
          IF \E f \in F : f.name = m THEN 0
          ELSE IF \E f \in F : Moved(f).name = m
               THEN (CHOOSE f \in F : Moved(f).name = m).write
          ELSE latest[m]]

\* The source is not there, or no longer.
SkipAction ==
  /\ pc = "act"
  /\ todo # <<>>
  /\ Source = {}
  /\ todo' = Tail(todo)
  /\ UNCHANGED <<files, far, people, pc, listing, cur, runs, clean, now, collect>>

\* The directory can move as a whole: what it would be is not there yet.
Whole ==
  /\ pc = "act"
  /\ todo # <<>>
  /\ Source # {}
  /\ Action.dir
  /\ \A f \in files, g \in Source : ~SameSlot(f, Moved(g))

MoveWhole ==
  /\ Whole
  /\ ~Across
  /\ files' = (files \ Source) \cup {Moved(f) : f \in Source}
  /\ latest' = Renamed(Source)
  /\ todo' = Tail(todo)
  /\ UNCHANGED <<far, writes, exposed, pc, listing, cur, runs, clean, now, collect>>

\* Across devices shutil.move copies the tree, then removes it; the copy may
\* fail after a part of it.
CopyWhole ==
  /\ Whole
  /\ Across
  /\ \/ /\ files' = files \cup {Moved(f) : f \in Source}
        /\ pc' = "copied"
        /\ cur' = Action.names
        /\ UNCHANGED todo
     \/ \E part \in SUBSET Source :
          /\ files' = files \cup {Moved(f) : f \in part}
          /\ pc' = "idle"
          /\ todo' = <<>>
          /\ UNCHANGED cur
  /\ UNCHANGED <<far, people, listing, runs, clean, now, collect>>

\* merge_move_dir, or one file.
StartMerge ==
  /\ pc = "act"
  /\ todo # <<>>
  /\ Source # {}
  /\ listing' = {f.name : f \in Source}
  /\ pc' = "merge"
  /\ UNCHANGED <<files, far, people, todo, cur, runs, clean, now, collect>>

\* The next child: the file in its place is unlinked.  A child that came after
\* the listing may or may not be met.
MakeRoom ==
  /\ pc = "merge"
  /\ \E f \in Source :
       LET there == {g \in files : SameSlot(g, Moved(f))} IN
       /\ files' = files \ there
       /\ latest' = [m \in Names |-> IF \E g \in there \cap Vault : g.name = m THEN 0 ELSE latest[m]]
       /\ cur' = {f.name}
       /\ listing' = listing \ {f.name}
  /\ pc' = "place"
  /\ UNCHANGED <<far, writes, exposed, todo, runs, clean, now, collect>>

\* It is renamed, or copied and then removed; what was written in its place
\* since there was room is replaced.
Place ==
  /\ pc = "place"
  /\ LET child == {f \in Source : f.name \in cur}
         rest  == {g \in files : \A f \in child : ~SameSlot(g, Moved(f))}
     IN  IF Across
         THEN files' = rest \cup {Moved(f) : f \in child} /\ pc' = "copied" /\ UNCHANGED cur
         ELSE files' = (rest \ child) \cup {Moved(f) : f \in child} /\ pc' = "merge" /\ cur' = {}
  /\ latest' = Renamed({f \in Source : f.name \in cur})
  /\ UNCHANGED <<far, writes, exposed, todo, listing, runs, clean, now, collect>>

\* The source of a copy is removed, as it is by now.
RemoveSource ==
  /\ pc = "copied"
  /\ files' = files \ {f \in Vault : f.name \in cur}
  /\ IF cur = Action.names /\ Action.dir /\ listing = {}
     THEN pc' = "act" /\ todo' = Tail(todo)
     ELSE pc' = "merge" /\ UNCHANGED todo
  /\ cur' = {}
  /\ UNCHANGED <<far, people, listing, runs, clean, now, collect>>

\* Mutant: the source is removed with all that is in it.
EndMerge_Rmtree ==
  /\ pc = "merge"
  /\ listing = {}
  /\ files' = IF Action.dir THEN files \ Source ELSE files
  /\ pc' = "act"
  /\ todo' = Tail(todo)
  /\ UNCHANGED <<far, people, listing, cur, runs, clean, now, collect>>

\* rmdir ends a merge, and the run if a file was added.
EndMerge ==
  /\ pc = "merge"
  /\ listing = {}
  /\ IF Action.dir /\ Source # {}
     THEN pc' = "idle" /\ todo' = <<>>
     ELSE pc' = "act" /\ todo' = Tail(todo)
  /\ UNCHANGED <<files, far, people, listing, cur, runs, clean, now, collect>>

EndSanitize ==
  /\ pc = "act"
  /\ todo = <<>>
  /\ pc' = "idle"
  /\ clean' = IF clean < 2 THEN clean + 1 ELSE clean
  /\ UNCHANGED <<files, far, people, todo, listing, cur, runs, now, collect>>

\* An error or a kill between any two steps.
StopSanitize ==
  /\ pc # "idle"
  /\ pc' = "idle"
  /\ todo' = <<>>
  /\ listing' = {}
  /\ cur' = {}
  /\ UNCHANGED <<files, far, people, runs, clean, now, collect>>

-----------------------------------------------------------------------------
(* runtime_vault_gc *)

StartGc ==
  /\ gc = "idle"
  /\ gcs < MaxGcs
  /\ gcs' = gcs + 1
  /\ gc' = "runtime"
  /\ stamp' = now
  /\ UNCHANGED <<files, far, people, sanitize, now, archives>>

\* A tree goes to the archive of this second, unless one is there: that ends the
\* run.  An empty tree may not exist.
Archive(what, roots, next) ==
  /\ \/ /\ <<what, stamp>> \notin archives
        /\ archives' = archives \cup {<<what, stamp>>}
        /\ files' = (files \ InUse(roots)) \cup {[f EXCEPT !.stamp = stamp] : f \in InUse(roots)}
        /\ gc' = next
     \/ /\ <<what, stamp>> \in archives
        /\ gc' = "idle"
        /\ UNCHANGED <<files, archives>>
     \/ /\ InUse(roots) = {}
        /\ gc' = next
        /\ UNCHANGED <<files, archives>>
  /\ stamp' = IF gc' = "idle" THEN 0 ELSE stamp
  /\ UNCHANGED <<far, people, sanitize, now, gcs>>

ArchiveRuntime == gc = "runtime" /\ Archive("runtime", Runtime, "legacy")
ArchiveLegacy  == gc = "legacy" /\ Archive("legacy", {"legacy"}, "idle")

StopGc ==
  /\ gc # "idle"
  /\ gc' = "idle"
  /\ stamp' = 0
  /\ UNCHANGED <<files, far, people, sanitize, now, archives, gcs>>

-----------------------------------------------------------------------------
Sanitize ==
  \/ StartSanitize \/ SkipAction \/ MoveWhole \/ CopyWhole \/ StartMerge
  \/ MakeRoom \/ Place \/ RemoveSource \/ EndMerge \/ EndSanitize \/ StopSanitize

Collect == StartGc \/ ArchiveRuntime \/ ArchiveLegacy \/ StopGc

Next == (\E m \in Names : Write(m)) \/ Tick \/ Sanitize \/ Collect

Spec == Init /\ [][Next]_vars

-----------------------------------------------------------------------------
\* What a name last was in the vault is in one of the trees or archives, whatever
\* stops between whatever steps.  The exceptions are the code's: a note of
\* Resources/Agents/OpenClaw makes room for the one of that name that is moved
\* there, and what is written to a tree between its copy to another device and
\* its removal goes with it.
NewestKept ==
  \A m \in Names :
    \/ latest[m] \in {0} \cup exposed
    \/ \E f \in files : f.write = latest[m]

\* Two complete runs leave no file in the vault that the profile does not allow,
\* if nobody writes meanwhile.  One is not enough: notes that it moves within the
\* vault were listed where they had been.
SecondRunClean ==
  \A f \in Vault :
    /\ clean = 2 => f.name[2]
    /\ clean = 1 => f.name[2] \/ f.name[1] = "agents"

-----------------------------------------------------------------------------
\* What is assumed of the constants.
Assumed ==
  /\ IsFiniteSet(Names)
  /\ Names \subseteq {"hist", "tmp", "notes", "agents", "inbox"} \X BOOLEAN
  /\ \A b \in BOOLEAN : <<"notes", b>> \in Names => <<"agents", b>> \in Names

\* What holds in every state, of which the properties are parts.
Moves == {move \in [dir : BOOLEAN, names : SUBSET Names, to : {"tools", "agents"} \cup Runtime] :
            move.to = "agents" => move.dir /\ move.names = In({"notes"})}

Proper(f) ==
  /\ f \in [root : {"vault", "tools", "legacy"} \cup Runtime, stamp : Nat, name : Names \cup {<<"inbox", TRUE>>}, write : Nat]
  /\ f.root # "legacy" => f.name \in Names

Types ==
  /\ \A f \in files : Proper(f)
  /\ far \in BOOLEAN /\ writes \in Nat
  /\ latest \in [Names -> Nat]
  /\ todo \in Seq(Moves)
  /\ pc \in {"idle", "act", "merge", "place", "copied"}
  /\ pc \in {"merge", "place", "copied"} => todo # <<>>
  /\ pc = "place" => cur \subseteq Action.names
  /\ listing \subseteq Names /\ cur \subseteq Names
  /\ clean \in -1 .. 2
  /\ now \in Nat \ {0} /\ stamp \in Nat /\ (gc # "idle" => stamp # 0)

\* A name has one file in the vault, the latest; the latest has its name,
\* wherever it is; and it is outside the vault as well before its source is
\* removed.
VaultLatest == \A f \in Vault : latest[f.name] = f.write

Safely(m, S) == latest[m] \in {0} \cup exposed \/ \E f \in S : f.name = m /\ f.write = latest[m]
LatestKept == \A m \in Names : Safely(m, files)
CopyKept   == pc = "copied" => \A m \in cur : Safely(m, files \ Vault)

\* In a run that nobody writes in, what is left of the source of a merge was
\* listed, and every file that must go is still to be moved.
MergeListed ==
  pc \in {"merge", "place", "copied"} /\ clean # -1 =>
    \A f \in Source : f.name \in listing \/ (pc # "merge" /\ f.name \in cur)

ToBeMoved(f) == \E n \in DOMAIN todo : ~todo[n].dir /\ f.name \in todo[n].names
AllToMove ==
  pc # "idle" /\ clean \in {0, 1} =>
    \A f \in Vault : f.name[2] \/ (clean = 0 /\ f.name[1] = "agents") \/ ToBeMoved(f)

Safe == Types /\ VaultLatest /\ LatestKept /\ CopyKept /\ MergeListed /\ AllToMove /\ SecondRunClean
=============================================================================
