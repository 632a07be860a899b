--------------------------- MODULE ConformanceSuite ---------------------------
(***************************************************************************)
(* contracts/platform/v1/conformance: the validators of the contract files *)
(* and the digests by which those name each other, and the delivery of one *)
(* validator in packages/intdata-platform-ppa-validator, whose code holds  *)
(* the digests of its seven files.                                         *)
(*                                                                         *)
(* A file is its text and the digests it holds; the digest of a file is    *)
(* the file, as no two have one.  Of a text it matters whether it can be   *)
(* loaded, and whether the cases that it takes part in come out as they    *)
(* are expected to.  The files may change while a validator runs.          *)
(***************************************************************************)
EXTENDS Naturals, Sequences

CONSTANTS
  Published,       \* the files that the code was written for
  Corpora,         \* what the files may be
  Unread,          \* the content of a file that is not there, or malformed
  Answered(_, _),  \* Answered(s, t): with the texts t, the cases of step s come out as expected
  MaxChanges       \* bound on the changes

Schema == {"schema", "ppaSchema", "receiptSchema"}  \* the first for all the others
File == Schema \cup {"profile", "uriVectors", "ppaVectors", "receiptVectors", "vectors", "fixtures", "schemaSet",
                     "digests", "terminalDigests", "ppaDigests", "receiptDigests", "terminal", "receipt"}

\* The digests that a file must hold.
Pins ==
  [digests         |-> {"receiptDigests", "terminalDigests", "schemaSet"},
   schemaSet       |-> Schema \cup {"profile", "uriVectors", "vectors"},
   vectors         |-> {"ppaVectors", "uriVectors", "receiptVectors", "terminalDigests", "receiptDigests"},
   terminalDigests |-> {"profile", "uriVectors", "ppaVectors", "ppaSchema"},
   ppaDigests      |-> {"ppaVectors", "ppaSchema"},
   receiptDigests  |-> {"profile", "uriVectors", "receiptVectors", "receipt", "receiptSchema"},
   receiptVectors  |-> {"profile", "uriVectors"}]

Packaged == {"ppaSchema", "ppaVectors", "ppaDigests", "profile", "uriVectors", "terminalDigests", "terminal"}

\* The files that each set of cases runs on.
Cases ==
  [fixtures |-> Schema \cup {"vectors", "fixtures"}, bootstrap |-> {"vectors"}, strict |-> {"vectors"},
   ppa |-> {"ppaSchema", "ppaVectors", "terminal"}, uri |-> {"profile", "uriVectors", "terminal"},
   receipt |-> {"receiptSchema", "receiptVectors", "receipt", "terminal"}]

\* run, or main, of each script.
Steps ==
  [suite    |-> <<"schemas", "schemaSet", "fixtures", "bootstrap", "strict", "digests", "index", "validators",
                  "ppa", "uri", "ppaDigests", "terminalDigests", "receipt", "receiptDigests">>,
   terminal |-> <<"ppa", "uri", "ppaDigests", "terminalDigests">>,
   receipt  |-> <<"receipt", "receiptDigests">>,
   package  |-> <<"raw", "manifests", "published", "ppa", "uri", "ppaDigests", "terminalDigests">>]
Script == DOMAIN Steps

\* What is assumed of the constants.
Assumed ==
  /\ Published \in Corpora /\ \A c \in Corpora : c = [f \in File |-> c[f]]
  /\ \A f \in File : Published[f] # Unread
  /\ \A m \in DOMAIN Pins : \A f \in Pins[m] : Published[m].pins[f] = Published[f]
  /\ \A s \in DOMAIN Cases : Answered(s, [f \in Cases[s] |-> Published[f].text])

VARIABLES
  files,    \* files[f]: the content of f
  script,   \* the script that runs, or did last
  at,       \* the step it comes to; 0 between runs
  mem,      \* mem[f]: what the run has loaded of f and keeps
  verdict,  \* what the last run said
  touched,  \* history: the files that changed since its start
  changes

vars == <<files, script, at, mem, verdict, touched, changes>>

Nothing == [f \in File |-> Unread]

Init ==
  /\ files \in Corpora /\ script \in Script /\ at = 0 /\ mem = Nothing
  /\ verdict = "none" /\ touched = {} /\ changes = 0

-----------------------------------------------------------------------------
Loadable(S) == \A f \in S : files[f] # Unread
Keep(S) == mem' = [f \in File |-> IF f \in S THEN files[f] ELSE mem[f]]

\* The digests in file m are those of the files.
Exact(m) == Loadable({m} \cup Pins[m]) /\ \A f \in Pins[m] : files[m].pins[f] = files[f]

\* The cases s come out, where what is in Held was loaded before.
Pass(s, Held) ==
  /\ Loadable(Cases[s] \ Held)
  /\ Answered(s, [f \in Cases[s] |-> (IF f \in Held THEN mem[f] ELSE files[f]).text])

schema_registry == Loadable(Schema)
validate_schema_set == Exact("schemaSet")

\* The fixtures, as they are and with mutations; the root set of the vectors,
\* with its adverse ones; and the documents that only a strict parser refuses.
run_fixtures == Pass("fixtures", Schema)
bootstrap_root_set == Pass("bootstrap", {"vectors"})
check_strict_vectors == Pass("strict", {"vectors"})
validate_priority_digests == Exact("digests")

\* The files in the index are not looked at.
delegated_index_Listed == \A f \in Pins.vectors : mem["vectors"].pins[f] = Published[f]

\* validate_delegated_vector_sets: the index is the one in the code, and so are
\* the files.
delegated_index ==
  \A f \in Pins.vectors : mem["vectors"].pins[f] = Published[f] /\ files[f] = Published[f]

validate_ppa == Pass("ppa", {"terminal"})
validate_uri == Pass("uri", {"terminal"})
validate_ppa_digests == Exact("ppaDigests")
validate_digests == Exact("terminalDigests")

\* validate_vectors loads the other validator itself.
validate_vectors == Exact("receiptVectors") /\ Pass("receipt", {"receipt"})
receipt_validate_digests == Exact("receiptDigests")

\* What was verified is not verified again.
load_published_validator_Once == files["terminal"] # Unread

\* verify_embedded, in two parts, and _load_published_validator.
raw_digests == \A f \in Packaged : files[f] = Published[f]
verify_manifests == \A m \in {"ppaDigests", "terminalDigests"} : files[m].pins = Published[m].pins
load_published_validator == files["terminal"] = Published["terminal"]

Passes(s) ==
  \/ s = "schemas" /\ schema_registry
  \/ s = "schemaSet" /\ validate_schema_set
  \/ s = "fixtures" /\ run_fixtures
  \/ s = "bootstrap" /\ bootstrap_root_set
  \/ s = "strict" /\ check_strict_vectors
  \/ s = "digests" /\ validate_priority_digests
  \/ s = "index" /\ delegated_index
  \/ s = "validators" /\ Loadable({"terminal", "receipt"})
  \/ s = "ppa" /\ validate_ppa
  \/ s = "uri" /\ validate_uri
  \/ s = "ppaDigests" /\ validate_ppa_digests
  \/ s = "terminalDigests" /\ validate_digests
  \/ s = "receipt" /\ validate_vectors
  \/ s = "receiptDigests" /\ receipt_validate_digests
  \/ s = "raw" /\ raw_digests
  \/ s = "manifests" /\ verify_manifests
  \/ s = "published" /\ load_published_validator

\* What a step loads that later ones use.
Loads(s) ==
  CASE s = "schemas"    -> Schema
    [] s = "fixtures"   -> {"vectors"}
    [] s = "validators" -> {"terminal", "receipt"}
    [] s = "published"  -> {"terminal"}
    [] OTHER            -> {}

-----------------------------------------------------------------------------
\* A script that is a validator of its own has loaded itself.
Start ==
  /\ at = 0
  /\ at' = 1 /\ verdict' = "none" /\ touched' = {} /\ script' \in Script
  /\ mem' = [f \in File |-> IF f = script' THEN files[f] ELSE Unread]
  /\ Loadable({script'} \cap File)
  /\ UNCHANGED <<files, changes>>

Here == Steps[script][at]

Check ==
  /\ at > 0 /\ Passes(Here)
  /\ Keep(Loads(Here))
  /\ IF at = Len(Steps[script]) THEN at' = 0 /\ verdict' = "ok" ELSE at' = at + 1 /\ UNCHANGED verdict
  /\ UNCHANGED <<files, script, touched, changes>>

\* A ConformanceError; main of the package tells two kinds.
Fail ==
  /\ at > 0 /\ ~Passes(Here)
  /\ at' = 0
  /\ verdict' = IF Here \in {"raw", "manifests", "published"} THEN "integrity_failed" ELSE "validation_failed"
  /\ UNCHANGED <<files, script, mem, touched, changes>>

\* An edit, a checkout or an installation.
Change ==
  /\ changes < MaxChanges
  /\ changes' = changes + 1
  /\ files' \in Corpora
  /\ touched' = touched \cup {f \in File : files'[f] # files[f]}
  /\ UNCHANGED <<script, at, mem, verdict>>

Next == Start \/ Check \/ Fail \/ Change

Spec == Init /\ [][Next]_vars

-----------------------------------------------------------------------------
AsPublished(S) == \A f \in S : files[f] = Published[f]

\* The files that a run reads, and those that its verdict vouches for: by the
\* digests in the code, and by the file that nothing else pins.
Uses ==
  [suite    |-> File,
   terminal |-> Packaged,
   receipt  |-> Cases.receipt \cup Pins.receiptDigests \cup {"receiptDigests"},
   package  |-> Packaged]
Root ==
  [suite    |-> {"digests"},
   terminal |-> {"terminalDigests"},
   receipt  |-> {"receiptDigests"},
   package  |-> {}]
ByCode ==
  [suite    |-> Pins.vectors \cup Pins.terminalDigests \cup Pins.receiptDigests,
   terminal |-> {}, receipt |-> {}, package |-> Packaged]
ByRoot ==
  [suite    |-> File \ {"fixtures", "terminal", "ppaDigests"},
   terminal |-> Pins.terminalDigests, receipt |-> Pins.receiptDigests, package |-> Packaged]

\* run and main: if nothing changes meanwhile, a run says ok of the published
\* files, and where it does, the files are the published ones that the digests
\* in the code lead to, and those that the digests in the topmost manifest lead
\* to, if that is the published one.  The package says integrity_failed of any
\* other files, and never runs another validator than the published one,
\* whatever changes meanwhile.
VerdictVouches ==
  /\ at = 0 /\ verdict # "none" /\ touched = {} =>
       /\ AsPublished(Uses[script]) => verdict = "ok"
       /\ verdict = "ok" => AsPublished(ByCode[script])
       /\ verdict = "ok" /\ AsPublished(Root[script]) => AsPublished(ByRoot[script])
       /\ script = "package" => verdict \in {"ok", "integrity_failed"}
  /\ script = "package" /\ mem["terminal"] # Unread => mem["terminal"] = Published["terminal"]
-----------------------------------------------------------------------------
\* The invariant: what a run has loaded is what the files are, and what its steps
\* have shown is so, if nothing has changed since its start.
Types ==
  /\ files \in Corpora /\ script \in Script /\ at \in 0 .. Len(Steps[script])
  /\ mem = [f \in File |-> mem[f]]
Held == {f \in File : f = script \/ \E i \in 1 .. at - 1 : f \in Loads(Steps[script][i])}
Loaded == at > 0 /\ touched = {} => \A f \in Held : mem[f] = files[f]

Shown(s) ==
  /\ s = "index" => AsPublished(Pins.vectors)
  /\ s = "raw" => AsPublished(Packaged)
  /\ s \in {"schemaSet", "digests", "terminalDigests", "receiptDigests"} => Exact(s)
Passed ==
  touched = {} /\ (at > 0 \/ verdict = "ok") =>
    \A i \in 1 .. IF at = 0 THEN Len(Steps[script]) ELSE at - 1 : Shown(Steps[script][i])
Safe == Types /\ Loaded /\ Passed /\ VerdictVouches
=============================================================================
