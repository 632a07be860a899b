------------------------------- MODULE SchemaSet -------------------------------
(***************************************************************************)
(* platform-tooling: SchemaSet.load of intdata-tools reads the registry of *)
(* the platform's schemas (schema-set.json) and every file it names, looks *)
(* at each path before it opens it, and keeps what has the registered      *)
(* digest.  Nothing is locked: a checkout or an update may change the      *)
(* files between any two steps.                                            *)
(*                                                                         *)
(* A document is [id, rev, refs, good]: good if it parses strictly and is  *)
(* what its place asks for (a Draft 2020-12 schema, the closed profile).   *)
(* Its digest is the document.                                             *)
(***************************************************************************)
EXTENDS Naturals, Sequences, FiniteSets, SequencesExt

CONSTANTS
  Id,          \* EXPECTED_SCHEMA_IDS, each with a file in schemas/
  Contents,    \* what may be in the files: functions from File to documents
  Registries,  \* the registries that may be written: [good, entries, rest, items]
  MaxEdits     \* bound on the changes of the files

\* The files in conformance/, in the order in which they are read; the registry
\* has one item for the profile and its cases, and one for the vectors.
Rest == <<"profile", "cases", "vectors">>
File == Id \cup ToSet(Rest)
Folder(f) == IF f \in Id THEN "schemas" ELSE "conformance"

VARIABLES
  registry,  \* schema-set.json
  nodes,     \* nodes[f]: [kind, doc]: "file", "link" (to doc), "folded" (another case), "none"
  folders,   \* folders[d]: "dir" or "link"
  stray,     \* schemas/ holds another name too
  pc, at,
  set,       \* the registry that was read
  loaded,    \* the documents so far, by file
  edits,
  changed    \* history: an edit since the load began

disk == <<registry, nodes, folders, stray>>
vars == <<registry, nodes, folders, stray, pc, at, set, loaded, edits, changed>>

-----------------------------------------------------------------------------
\* identity of the set: every id once
Identity(r) == {e.id : e \in ToSet(r.entries)} = Id /\ Len(r.entries) = Cardinality(Id)

\* What is read, one after the other: [file, digest, right].
Parts(r) == [n \in DOMAIN r.entries |-> [file |-> r.entries[n].id, digest |-> r.entries[n].digest,
                                         right |-> r.entries[n].right]]
            \o [n \in DOMAIN Rest |-> [file |-> Rest[n], digest |-> r.rest[n],
                                       right |-> r.items[IF n = 3 THEN "vectors" ELSE "profiles"]]]

\* _exact_relative_path, _source_path: no symlink, no other case, a file
Exact(f) == folders[Folder(f)] = "dir" /\ nodes[f].kind = "file"

\* _validate_profile_document: the closed profile, without links
ProfileFits(doc) == doc.good /\ doc.refs = {}

\* what a document must be where it stands; of the vectors only the digest counts
Fits(f, doc) ==
  CASE f \in Id      -> doc.good /\ doc.id = f
    [] f = "profile" -> ProfileFits(doc)
    [] f = "cases"   -> doc.good
    [] OTHER         -> TRUE

Init ==
  /\ registry \in Registries
  /\ nodes \in {[f \in File |-> [kind |-> "file", doc |-> c[f]]] : c \in Contents}
  /\ folders = [d \in {"schemas", "conformance"} |-> "dir"]
  /\ stray = FALSE
  /\ pc = "start" /\ at = 0
  /\ set = registry
  /\ loaded = <<>>
  /\ edits = 0 /\ changed = FALSE

-----------------------------------------------------------------------------
Go(ok, next) == pc' = IF ok THEN next ELSE "refused"

ReadSet ==
  /\ pc = "start"
  /\ set' = registry
  /\ Go(registry.good /\ Identity(registry), "inventory")
  /\ UNCHANGED <<disk, at, loaded, edits, changed>>

\* _require_exact_schema_inventory: these names in schemas/, regular files, and
\* no others; conformance/ may hold more.
Inventory ==
  /\ pc = "inventory"
  /\ Go(~stray /\ \A f \in Id : Exact(f), "find")
  /\ at' = 1
  /\ UNCHANGED <<disk, set, loaded, edits, changed>>

Find ==
  /\ pc = "find"
  /\ LET part == Parts(set)[at]
     IN Go(part.right /\ part.file \notin DOMAIN loaded /\ Exact(part.file), "read")
  /\ UNCHANGED <<disk, at, set, loaded, edits, changed>>

Keep(f, doc) ==
  /\ loaded' = [g \in DOMAIN loaded \cup {f} |-> IF g = f THEN doc ELSE loaded[g]]
  /\ at' = at + 1
  /\ pc' = IF at = Len(Parts(set)) THEN "references" ELSE "find"

\* The file is hashed where it was found, and parsed as it is now.
Read_Apart ==
  LET part == Parts(set)[at]
      node == nodes[part.file]
  IN /\ pc = "read"
     /\ IF node.kind \in {"file", "link"} /\ Fits(part.file, node.doc)
        THEN Keep(part.file, node.doc)
        ELSE /\ pc' = IF node.kind \in {"file", "link"} THEN "refused" ELSE "crashed"
             /\ UNCHANGED <<at, loaded>>
     /\ UNCHANGED <<disk, set, edits, changed>>

\* read_bytes opens whatever is at the path now; that there is nothing is no
\* SchemaSetError, and main does not catch it.
Read ==
  LET part == Parts(set)[at]
      node == nodes[part.file]
  IN /\ pc = "read"
     /\ IF node.kind \in {"file", "link"} /\ node.doc = part.digest /\ Fits(part.file, node.doc)
        THEN Keep(part.file, node.doc)
        ELSE /\ pc' = IF node.kind \in {"file", "link"} THEN "refused" ELSE "crashed"
             /\ UNCHANGED <<at, loaded>>
     /\ UNCHANGED <<disk, set, edits, changed>>

\* _walk_references: every reference is to a schema of the set
References ==
  /\ pc = "references"
  /\ Go(\A f \in Id : loaded[f].refs \subseteq Id, "loaded")
  /\ UNCHANGED <<disk, at, set, loaded, edits, changed>>

-----------------------------------------------------------------------------
Edit ==
  /\ edits < MaxEdits
  /\ edits' = edits + 1
  /\ changed' = (changed \/ pc # "start")
  /\ \/ /\ \E r \in Registries : registry' = r
        /\ UNCHANGED <<nodes, folders, stray>>
     \/ /\ \E f \in File, k \in {"file", "link", "folded", "none"} :
             \E doc \in {c[f] : c \in Contents} : nodes' = [nodes EXCEPT ![f] = [kind |-> k, doc |-> doc]]
        /\ UNCHANGED <<registry, folders, stray>>
     \/ /\ \E d \in DOMAIN folders : folders' = [folders EXCEPT ![d] = "link"]
        /\ UNCHANGED <<registry, nodes, stray>>
     \/ stray' = ~stray /\ UNCHANGED <<registry, nodes, folders>>
  /\ UNCHANGED <<pc, at, set, loaded>>

Next == ReadSet \/ Inventory \/ Find \/ Read \/ References \/ Edit

Spec == Init /\ [][Next]_vars

-----------------------------------------------------------------------------
\* A schema set as the README of platform/v1 wants it: the ids, each once, in the
\* files of their names, which are all there is in schemas/, hold what is
\* registered and refer to nothing else.
Sound ==
  /\ registry.good
  /\ \A e \in ToSet(registry.entries) : e.right /\ e.id \in Id
  /\ \A f \in Id : Cardinality({n \in DOMAIN registry.entries : registry.entries[n].id = f}) = 1
  /\ registry.items["profiles"] /\ registry.items["vectors"]
  /\ ~stray /\ \A d \in DOMAIN folders : folders[d] = "dir"
  /\ \A part \in ToSet(Parts(registry)) :
       /\ nodes[part.file] = [kind |-> "file", doc |-> part.digest]
       /\ part.file \in Id => /\ part.digest.good /\ part.digest.id = part.file
                              /\ part.digest.refs \subseteq Id
       /\ part.file \in {"profile", "cases"} => part.digest.good
       /\ part.file = "profile" => part.digest.refs = {}

\* A set that was loaded is what the registry that was read has registered, under
\* the right ids and closed under references, whatever changes meanwhile; if
\* nothing does, exactly the sound ones are loaded.  load ends with an error that
\* is not its own only if a file went away between the look at its path and its
\* opening.
LoadExact ==
  /\ pc = "loaded" =>
       /\ DOMAIN loaded = File
       /\ \A part \in ToSet(Parts(set)) : loaded[part.file] = part.digest /\ Fits(part.file, part.digest)
       /\ \A f \in Id : loaded[f].refs \subseteq Id
  /\ ~changed => /\ pc = "loaded" => Sound
                 /\ pc = "refused" => ~Sound
                 /\ pc # "crashed"
=============================================================================
