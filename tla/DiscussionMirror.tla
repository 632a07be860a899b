---------------------------- MODULE DiscussionMirror ----------------------------
(***************************************************************************)
(* delivery/devops/sync_discussions_mirror.py: for one category after the  *)
(* other, the open discussions are read page by page, the one that changed *)
(* last first, and written to the file of the category.  People go on      *)
(* discussing between two pages: what they touch moves to the front, which *)
(* is behind the cursor.  An error ends the run; one that is no SyncError, *)
(* as a discussion whose author is gone, with a traceback.                 *)
(***************************************************************************)
EXTENDS Naturals, Sequences, FiniteSets

CONSTANTS
  Discussion,
  Categories,      \* the categories in the order of the run
  CategoryOf(_),
  All,             \* --include-closed
  PageSize,        \* discussions of a page: 100
  MaxTouches,      \* bound on what people do
  MaxRuns          \* bound on the runs

VARIABLES
  updated,   \* when a discussion was touched last; 0 if it is not there
  open,      \* discussions that are open
  ghost,     \* discussions whose author has no account any more
  files,     \* by category: the entries and whether the file is whole
  pc,        \* "idle", "pages", "write"
  at,        \* the category at work
  cursor,    \* when the last discussion of the pages read so far was touched
  read,      \* entries of those pages
  touches, runs,
  missed     \* discussions that somebody touched while their category was read

vars == <<updated, open, ghost, files, pc, at, cursor, read, touches, runs, missed>>

Assumed == IsFiniteSet(Discussion) /\ PageSize \in Nat \ {0} /\ MaxTouches \in Nat

Entry(d) == [discussion |-> d, updated |-> updated[d]]
NoFile == [whole |-> TRUE, entries |-> <<>>]
Start == MaxTouches + 1

Init ==
  /\ updated = [d \in Discussion |-> 0]
  /\ open = {}
  /\ ghost = {}
  /\ files = [i \in DOMAIN Categories |-> NoFile]
  /\ pc = "idle"
  /\ at = 1
  /\ cursor = Start
  /\ read = <<>>
  /\ touches = 0 /\ runs = 0
  /\ missed = {}

Reading(d) == pc # "idle" /\ CategoryOf(d) = Categories[at]

\* Somebody opens a discussion, adds to one, closes one, or gives up an account.
Touch(d) ==
  /\ touches < MaxTouches
  /\ touches' = touches + 1
  /\ \/ /\ \/ open' = open \cup {d}
           \/ d \in open /\ open' = open \ {d}
        /\ updated' = [updated EXCEPT ![d] = touches']
        /\ missed' = IF Reading(d) THEN missed \cup {d} ELSE missed
        /\ UNCHANGED ghost
     \/ d \in open \ ghost /\ ghost' = ghost \cup {d} /\ UNCHANGED <<updated, open, missed>>
  /\ UNCHANGED <<files, pc, at, cursor, read, runs>>

Run ==
  /\ pc = "idle" /\ runs < MaxRuns
  /\ runs' = runs + 1
  /\ pc' = "pages" /\ at' = 1 /\ cursor' = Start /\ read' = <<>>
  /\ missed' = {}
  /\ UNCHANGED <<updated, open, ghost, files, touches>>

Listed == {d \in Discussion : updated[d] # 0 /\ CategoryOf(d) = Categories[at] /\ (All \/ d \in open)}

\* The oldest comes first.
Page_Ascending ==
  LET after == {d \in Listed : cursor = Start \/ updated[d] > cursor}
      first == CHOOSE d \in after : \A e \in after : updated[d] <= updated[e]
  IN IF after = {} THEN {} ELSE {first}

\* The first PageSize of those behind the cursor.
Page ==
  LET after == {d \in Listed : updated[d] < cursor}
  IN {d \in after : Cardinality({e \in after : updated[e] > updated[d]}) < PageSize}

\* A page: the last one is followed by the write.
ReadPage ==
  /\ pc = "pages" /\ Page \cap ghost = {}
  /\ LET page == Page
         last == IF page = {} THEN cursor
                 ELSE CHOOSE u \in {updated[d] : d \in page} : \A d \in page : u <= updated[d]
         ordered == CHOOSE s \in [1..Cardinality(page) -> page] :
                      \A i, j \in DOMAIN s : i < j => updated[s[i]] > updated[s[j]]
     IN /\ read' = read \o [i \in DOMAIN ordered |-> Entry(ordered[i])]
        /\ cursor' = last
        /\ pc' = IF {d \in Listed : updated[d] < last} \ page = {} THEN "write" ELSE "pages"
  /\ UNCHANGED <<updated, open, ghost, files, at, touches, runs, missed>>

\* A request fails, or an author is null.
FailPage ==
  /\ pc = "pages"
  /\ pc' = "idle"
  /\ UNCHANGED <<updated, open, ghost, files, at, cursor, read, touches, runs, missed>>

\* write_text empties the file and writes it, then the next category is read;
\* the script may be stopped in between.
WriteFile ==
  /\ pc = "write"
  /\ \/ /\ files' = [files EXCEPT ![at] = [whole |-> TRUE, entries |-> read]]
        /\ pc' = IF at = Len(Categories) THEN "idle" ELSE "pages"
        /\ at' = IF at = Len(Categories) THEN at ELSE at + 1
     \/ /\ files' = [files EXCEPT ![at] = [NoFile EXCEPT !.whole = FALSE]]
        /\ pc' = "idle"
        /\ UNCHANGED at
  /\ cursor' = Start /\ read' = <<>> /\ missed' = {}
  /\ UNCHANGED <<updated, open, ghost, touches, runs>>

Next == (\E d \in Discussion : Touch(d)) \/ Run \/ ReadPage \/ FailPage \/ WriteFile

Spec == Init /\ [][Next]_vars

-----------------------------------------------------------------------------
\* What is read for a file names no discussion twice, and is the listing of its
\* category but for the discussions that somebody touched meanwhile.
MirrorExact ==
  /\ \A j, k \in DOMAIN read : j # k => read[j].discussion # read[k].discussion
  /\ pc = "write" => \A d \in Discussion \ missed : d \in Listed <=> \E k \in DOMAIN read : read[k] = Entry(d)

-----------------------------------------------------------------------------
\* The inductive invariant.
Types ==
  /\ touches \in 0 .. MaxTouches /\ cursor \in 0 .. Start
  /\ updated \in [Discussion -> 0 .. touches]
  /\ read \in Seq([discussion : Discussion, updated : Nat])

\* Two discussions are not touched at one time;
OneAtATime == \A d, e \in Discussion : updated[d] = updated[e] /\ updated[d] # 0 => d = e

\* the entries are of before the cursor, and name no discussion twice;
Behind == \A j \in DOMAIN read : cursor <= read[j].updated /\ read[j].updated <= updated[read[j].discussion]
Once   == \A j, k \in DOMAIN read : j # k => read[j].discussion # read[k].discussion

\* they are what is listed before it, but for what was touched meanwhile.
AsListed ==
  pc # "idle" => \A d \in Discussion \ missed :
                   d \in Listed /\ (updated[d] >= cursor \/ pc = "write") <=> \E k \in DOMAIN read : read[k] = Entry(d)

Safe == Types /\ OneAtATime /\ Behind /\ Once /\ AsListed
=============================================================================
