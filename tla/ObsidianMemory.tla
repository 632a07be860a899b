---------------------------- MODULE ObsidianMemory ----------------------------
(***************************************************************************)
(* codex/tools/mcp-obsidian-memory/src/index.mjs: an MCP server that       *)
(* edits the notes of a vault.  Its calls run at the same time and         *)
(* interleave at every await, and a person edits the notes meanwhile.      *)
(*                                                                         *)
(* A text is the number of the write that made it, 0 if the file is empty. *)
(* A file is emptied when it is opened for writing (fs.writeFile) and      *)
(* filled afterwards; an open file is followed when it is renamed.         *)
(***************************************************************************)
EXTENDS Naturals, FiniteSets

CONSTANTS
  Call,      \* calls of tools
  Note,      \* paths: <<category, name>>
  Home,      \* the path of "00_Index/Home MOC.md"
  Mocs,      \* notes with a name that contains "moc"
  Requests,  \* what calls may ask for
  Vaults,    \* the vaults that the server may find
  MaxEdits   \* bound on the edits of a person

\* Requests are [op, note, to, full, auto]: upsert_note of note with links to
\* the set "to"; move_note_para of note to the path "to"; link_notes of note
\* and "to", both ways if full; suggest_links of note, applied.

Empty == [text |-> 0, links |-> {}]
Gone  == <<"unlinked">>                      \* where an open file is that was replaced
None  == [text |-> 0, links |-> {Gone}]      \* no such file

VARIABLES
  notes,    \* the files of the vault
  changed,  \* changedNotes
  ask,      \* ask[c]: what the call asks for
  pc,       \* pc[c]: what it does next
  put,      \* put[c]: the write under way: [note, content, next]
  at,       \* at[c]: where the file is that it has open
  graph,    \* graph[c]: the links as the call read them, and the notes
  todo,     \* todo[c]: notes it has yet to patch
  texts,    \* texts made so far
  edits,    \* edits of the person
  excused,  \* history: texts that may be lost
  foreign   \* history: foreign[c]: notes others changed since it listed them

mine    == <<ask, put, at, graph, todo>>
history == <<texts, edits, excused, foreign>>
vars    == <<notes, changed, mine, pc, history>>

Exists(n) == notes[n] # None
Existing  == {n \in Note : Exists(n)}

NoGraph == [notes |-> {}, links |-> {}]
NoPut   == [note |-> Home, content |-> Empty, next |-> "done"]

Init ==
  /\ notes \in Vaults
  /\ changed = {}
  /\ ask \in [Call -> Requests]
  /\ pc = [c \in Call |-> "start"]
  /\ put = [c \in Call |-> NoPut]
  /\ at = [c \in Call |-> Gone]
  /\ graph = [c \in Call |-> NoGraph]
  /\ todo = [c \in Call |-> {}]
  /\ texts = Cardinality(Existing)
  /\ edits = 0
  /\ excused = {}
  /\ foreign = [c \in Call |-> {}]

-----------------------------------------------------------------------------
(* Bookkeeping of the properties *)

Putting(c) == pc[c] \in {"truncate", "write"}

\* The write under way has a text that upsert_note made, and no other.
Fresh(d) == ask[d].op = "upsert" /\ graph[d] = NoGraph

\* Call d has what it read of note n, or has the file open: what is written to
\* n now, it may write over.
InHand(d, n) ==
  \/ pc[d] = "truncate" /\ put[d].note = n /\ ~Fresh(d)
  \/ pc[d] = "write" /\ at[d] = n

Rivals(c, n) == {d \in Call \ {c} : InHand(d, n)}

\* Call c takes note n into its hands: if others have it, the texts are at risk.
AtRisk(c, n, text) ==
  IF Rivals(c, n) = {} THEN {}
  ELSE {text, notes[n].text} \cup {put[d].content.text : d \in Rivals(c, n)}

Touch(c, n) == foreign' = [d \in Call |-> IF d = c THEN foreign[d] ELSE foreign[d] \cup {n}]

-----------------------------------------------------------------------------
(* Steps that several tools share *)

Go(c, where) == pc' = [pc EXCEPT ![c] = where]

\* writeText is called: the file is opened next.
Put(c, n, content, next) ==
  /\ put' = [put EXCEPT ![c] = [note |-> n, content |-> content, next |-> next]]
  /\ Go(c, "truncate")

\* An error is the answer.
Answer(c) ==
  /\ Go(c, "done")
  /\ UNCHANGED <<notes, changed, mine, history>>

\* readText of note n, addWikiLinkIfMissing of a link to m, and writeText if
\* it was missing.
AddLink(c, n, m, next) ==
  \/ ~Exists(n) /\ Answer(c)
  \/ /\ Exists(n) /\ m \in notes[n].links
     /\ Go(c, next)
     /\ UNCHANGED <<notes, changed, mine, history>>
  \/ /\ Exists(n) /\ m \notin notes[n].links
     /\ Put(c, n, [notes[n] EXCEPT !.links = @ \cup {m}], next)
     /\ excused' = excused \cup AtRisk(c, n, notes[n].text)
     /\ UNCHANGED <<notes, changed, ask, at, graph, todo, texts, edits, foreign>>

\* The file is opened, created if need be.  An upsert takes the place of the
\* text that was there.
Truncate(c) ==
  /\ pc[c] = "truncate"
  /\ LET n == put[c].note
     IN  /\ notes' = [notes EXCEPT ![n] = Empty]
         /\ at' = [at EXCEPT ![c] = n]
         /\ Touch(c, n)
         /\ excused' =
              IF Fresh(c)
              THEN excused \cup {notes[n].text} \cup AtRisk(c, n, put[c].content.text)
              ELSE excused
  /\ Go(c, "write")
  /\ UNCHANGED <<changed, ask, put, graph, todo, texts, edits>>

\* What another call wrote into the open file meanwhile stays behind the new
\* text if it is longer.
Filled(c) ==
  LET new == put[c].content
  IN  IF notes[at[c]].text = 0 THEN {new}
      ELSE {new, [new EXCEPT !.links = @ \cup notes[at[c]].links]}

Write(c) ==
  /\ pc[c] = "write"
  /\ \/ at[c] = Gone /\ UNCHANGED <<notes, foreign>>
     \/ /\ at[c] # Gone
        /\ \E content \in Filled(c) : notes' = [notes EXCEPT ![at[c]] = content]
        /\ Touch(c, at[c])
  /\ changed' = changed \cup {put[c].note}
  /\ at' = [at EXCEPT ![c] = Gone]
  /\ todo' = [todo EXCEPT ![c] = @ \ {put[c].note}]
  /\ Go(c, put[c].next)
  /\ UNCHANGED <<ask, put, graph, texts, edits, excused>>

\* The disk is full: the file stays empty.
WriteFails(c) ==
  /\ pc[c] = "write"
  /\ excused' = excused \cup {put[c].content.text}
  /\ at' = [at EXCEPT ![c] = Gone]
  /\ Go(c, "done")
  /\ UNCHANGED <<notes, changed, ask, put, graph, todo, texts, edits, foreign>>

\* buildLinkGraph; the notes are read one by one, here at one moment.
Links == {l \in Note \X Note : Exists(l[1]) /\ l[2] \in notes[l[1]].links}

ReadGraph(c) ==
  /\ pc[c] = "graph"
  /\ graph' = [graph EXCEPT ![c] = [notes |-> Existing, links |-> Links]]
  /\ Go(c, "backlink")
  /\ UNCHANGED <<notes, changed, ask, put, at, todo, history>>

\* The note that is to link to n: the home note, or else one of its category
\* that collects links.
Sources(n, among) ==
  IF Home \in among THEN {Home}
  ELSE {m \in among \cap Mocs : m[1] = n[1]}

\* applyAutoBacklink and the loop of suggest_links
Backlink(c) ==
  /\ pc[c] = "backlink"
  /\ LET n == ask[c].note
         from == Sources(n, graph[c].notes)
         linked == \E m \in Note : <<m, n>> \in graph[c].links
     IN  \/ (linked \/ from = {}) /\ Answer(c)
         \/ ~linked /\ \E m \in from : AddLink(c, m, n, "done")

-----------------------------------------------------------------------------
(* upsert_note *)

Upsert(c) ==
  /\ pc[c] = "start" /\ ask[c].op = "upsert"
  /\ LET n == ask[c].note
         next == IF ask[c].auto THEN "graph" ELSE "done"
     IN  \/ /\ Exists(n) /\ ~ask[c].full
            /\ Go(c, next)
            /\ UNCHANGED <<put, texts>>
         \/ /\ ~Exists(n) \/ ask[c].full
            /\ Put(c, n, [text |-> texts + 1, links |-> ask[c].to], next)
            /\ texts' = texts + 1
  /\ UNCHANGED <<notes, changed, ask, at, graph, todo, edits, excused, foreign>>

-----------------------------------------------------------------------------
(* move_note_para *)

StartMove(c) ==
  /\ pc[c] = "start" /\ ask[c].op = "move"
  /\ Go(c, IF Exists(ask[c].note) THEN "rename" ELSE "done")
  /\ UNCHANGED <<notes, changed, mine, history>>

\* rename replaces a note that is in the way.  Files that are open follow.
Rename(c) ==
  /\ pc[c] = "rename"
  /\ Exists(ask[c].note)
  /\ LET s == ask[c].note
         t == ask[c].to
     IN  /\ notes' = [notes EXCEPT ![s] = None, ![t] = notes[s]]
         /\ changed' = changed \cup {t}
         /\ at' = [d \in Call |-> IF at[d] = s THEN t ELSE IF at[d] = t THEN Gone ELSE at[d]]
         /\ excused' = excused \cup
              IF s = t THEN {}
              ELSE {notes[t].text} \cup {put[d].content.text : d \in Rivals(c, t)}
                   \cup IF Rivals(c, t) = {} THEN {}
                        ELSE {notes[s].text} \cup {put[d].content.text : d \in Rivals(c, s)}
         /\ Touch(c, t)
  /\ Go(c, "list")
  /\ UNCHANGED <<ask, put, graph, todo, texts, edits>>

RenameFails(c) == pc[c] = "rename" /\ ~Exists(ask[c].note) /\ Answer(c)

List(c) ==
  /\ pc[c] = "list"
  /\ todo' = [todo EXCEPT ![c] = Existing]
  /\ foreign' = [foreign EXCEPT ![c] = {}]
  /\ Go(c, "patch")
  /\ UNCHANGED <<notes, changed, ask, put, at, graph, texts, edits, excused>>

\* replaceWikiReferences
Replaced(content, s, t) ==
  IF s \in content.links THEN [content EXCEPT !.links = (@ \ {s}) \cup {t}] ELSE content

\* The notes are patched one by one; one that is not there any more ends the
\* call with an error.
Patch(c, n) ==
  /\ pc[c] = "patch" /\ n \in todo[c]
  /\ LET new == Replaced(notes[n], ask[c].note, ask[c].to)
     IN  \/ ~Exists(n) /\ Answer(c)
         \/ /\ Exists(n) /\ new = notes[n]
            /\ todo' = [todo EXCEPT ![c] = @ \ {n}]
            /\ UNCHANGED <<notes, changed, ask, put, at, graph, pc, history>>
         \/ /\ Exists(n) /\ new # notes[n]
            /\ Put(c, n, new, "patch")
            /\ excused' = excused \cup AtRisk(c, n, notes[n].text)
            /\ UNCHANGED <<notes, changed, ask, at, graph, todo, texts, edits, foreign>>

Patched(c) == pc[c] = "patch" /\ todo[c] = {} /\ Answer(c)

-----------------------------------------------------------------------------
(* link_notes and suggest_links *)

StartLink(c) ==
  /\ pc[c] = "start" /\ ask[c].op = "link"
  /\ Go(c, IF Exists(ask[c].note) /\ Exists(ask[c].to) THEN "from" ELSE "done")
  /\ UNCHANGED <<notes, changed, mine, history>>

LinkFrom(c) ==
  /\ pc[c] = "from"
  /\ AddLink(c, ask[c].note, ask[c].to, IF ask[c].full THEN "to" ELSE "done")

\* Mutant: the second link is added to the text of the first note.
LinkTo_FirstText(c) ==
  /\ pc[c] = "to"
  /\ \/ ~Exists(ask[c].to) /\ Answer(c)
     \/ /\ Exists(ask[c].to) /\ Exists(ask[c].note)
        /\ Put(c, ask[c].to, [notes[ask[c].note] EXCEPT !.links = @ \cup {ask[c].note}], "done")
        /\ UNCHANGED <<notes, changed, ask, at, graph, todo, history>>

LinkTo(c) ==
  /\ pc[c] = "to"
  /\ AddLink(c, ask[c].to, ask[c].note, "done")

StartSuggest(c) ==
  /\ pc[c] = "start" /\ ask[c].op = "suggest"
  /\ Go(c, "graph")
  /\ UNCHANGED <<notes, changed, mine, history>>

-----------------------------------------------------------------------------
(* The person, and the end of the process *)

Edit(n) ==
  /\ edits < MaxEdits
  /\ edits' = edits + 1
  /\ Exists(n)
  /\ texts' = texts + 1
  /\ notes' = [notes EXCEPT ![n].text = texts + 1]
  /\ excused' = excused \cup {notes[n].text} \cup
       {text \in {texts + 1} \cup {put[d].content.text : d \in {d \in Call : InHand(d, n)}} :
          \E d \in Call : InHand(d, n)}
  /\ foreign' = [d \in Call |-> foreign[d] \cup {n}]
  /\ UNCHANGED <<changed, mine, pc>>

Crash ==
  /\ \E c \in Call : pc[c] # "done"
  /\ pc' = [c \in Call |-> "done"]
  /\ excused' = excused \cup {put[c].content.text : c \in {c \in Call : Putting(c)}}
  /\ at' = [c \in Call |-> Gone]
  /\ changed' = {}
  /\ UNCHANGED <<notes, ask, put, graph, todo, texts, edits, foreign>>

Step(c) ==
  \/ Upsert(c)
  \/ StartMove(c) \/ Rename(c) \/ RenameFails(c) \/ List(c) \/ Patched(c)
  \/ \E n \in Note : Patch(c, n)
  \/ StartLink(c) \/ LinkFrom(c) \/ LinkTo(c)
  \/ StartSuggest(c) \/ ReadGraph(c) \/ Backlink(c)
  \/ Truncate(c) \/ Write(c) \/ WriteFails(c)

Next == (\E c \in Call : Step(c)) \/ (\E n \in Note : Edit(n)) \/ Crash

Spec == Init /\ [][Next]_vars

-----------------------------------------------------------------------------
\* A text is in a note, or about to be, unless it was replaced by an upsert, an
\* edit or a note that was moved onto it, the write was cut off, or two calls
\* (or a call and the person) had the note in their hands at the same time.
TextsKept ==
  \A k \in 1 .. texts :
    \/ \E n \in Note : notes[n].text = k
    \/ \E c \in Call : Putting(c) /\ put[c].content.text = k
    \/ k \in excused

\* When a note was moved, no note links to its old place, except those that
\* somebody else changed since the move began to patch them.
LinksFollow ==
  \A c \in Call : \A n \in Note \ todo[c] :
    pc[c] = "patch" /\ ask[c].to # ask[c].note /\ ask[c].note \in notes[n].links => n \in foreign[c]

-----------------------------------------------------------------------------
Contents == [text : Nat, links : SUBSET (Note \cup {Gone})]

\* What is assumed of the constants.
Assumed ==
  /\ Gone \notin Note /\ Home \in Note
  /\ \A r \in Requests :
       /\ r.op \in {"upsert", "move", "link", "suggest"} /\ r.note \in Note
       /\ r.full \in BOOLEAN /\ r.auto \in BOOLEAN
       /\ IF r.op \in {"move", "link"} THEN r.to \in Note ELSE r.to \subseteq Note
  /\ \A vault \in Vaults :
       LET there == {n \in Note : vault[n] # None}
       IN /\ vault \in [Note -> Contents]
          /\ IsFiniteSet(there) /\ 1 .. Cardinality(there) \subseteq {vault[n].text : n \in there}

\* What holds in every state, of which the properties are parts.
Types ==
  /\ notes \in [Note -> Contents]
  /\ ask \in [Call -> Requests]
  /\ pc \in [Call -> {"start", "truncate", "write", "graph", "backlink", "rename", "list", "patch", "from", "to", "done"}]
  /\ put \in [Call -> [note : Note, content : Contents, next : {"graph", "patch", "to", "done"}]]
  /\ at \in [Call -> Note \cup {Gone}]
  /\ graph \in [Call -> [notes : SUBSET Note, links : SUBSET (Note \X Note)]]
  /\ todo \in [Call -> SUBSET Note]
  /\ texts \in Nat /\ edits \in Nat
  /\ foreign \in [Call -> SUBSET Note]

\* Text x may take the place of text y.
Covers(x, y) == x = y \/ {x, y} \subseteq excused \cup {0}

\* The text of a note that calls have in their hands is theirs, and so they
\* have the same, unless it may be lost.
HandsKeep ==
  /\ \A c \in Call : \A n \in Note :
       InHand(c, n) => notes[n].text = 0 \/ Covers(put[c].content.text, notes[n].text)
  /\ \A c, d \in Call : \A n \in Note :
       InHand(c, n) /\ InHand(d, n) => Covers(put[c].content.text, put[d].content.text)
  /\ \A c \in Call : pc[c] = "write" /\ at[c] = Gone => put[c].content.text \in excused \cup {0}

Goes(c, next) == pc[c] = next \/ (Putting(c) /\ put[c].next = next)

Places ==
  \A c \in Call :
    /\ pc[c] = "start" => graph[c] = NoGraph
    /\ Goes(c, "patch") \/ pc[c] \in {"rename", "list"} => ask[c].op = "move"
    /\ Goes(c, "to") \/ pc[c] = "from" => ask[c].op = "link"

\* The moves: what c writes has no link to the old place, and neither has what
\* it wrote, nor what it has written half.
Behind(c) ==
  (Note \ todo[c]) \cup (IF pc[c] = "write" THEN {put[c].note, at[c]} \cap Note ELSE {})

MoveKeeps(c) ==
  Goes(c, "patch") /\ ask[c].to # ask[c].note =>
    /\ Putting(c) => ask[c].note \notin put[c].content.links
    /\ \A n \in Behind(c) : ask[c].note \in notes[n].links => n \in foreign[c]

Safe == Types /\ Places /\ HandsKeep /\ TextsKept /\ \A c \in Call : MoveKeeps(c)
=============================================================================
