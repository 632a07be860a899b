---------------------------- MODULE GetcourseExport ----------------------------
(***************************************************************************)
(* getcourse-mcp: tools that start exports of an account, poll them, and   *)
(* import users and deals.  GetCourse prepares one export at a time and    *)
(* takes a limited number of them; while it does, reading the export is    *)
(* answered by an error that says "not ready".  Calls run at the same time *)
(* and interleave at each request.                                         *)
(***************************************************************************)
EXTENDS Naturals, FiniteSets

CONSTANTS
  Call,
  MaxAttempts,  \* MAX_POLL_ATTEMPTS
  MaxExports    \* exports that the account may start

VARIABLES
  job,       \* the export that GetCourse prepares, 0 if none
  started,   \* exports so far; they are numbered
  ready,     \* exports that can be read
  imported,  \* calls whose import took effect
  pc, tool, id, left,  \* of each call: what it does next, its tool, its
                       \* export, the polls it has left
  answer,    \* answer[c]: [is, id]
  told,      \* history: exports whose id an answer has told
  cut,       \* history: exports whose call ended with an error
  finished   \* history: exports that were ready

account == <<job, started, ready, imported>>
mine    == <<pc, tool, id, left, answer>>
vars    == <<account, mine, told, cut, finished>>

None == [is |-> "none", id |-> 0]

Init ==
  /\ job = 0 /\ started = 0 /\ ready = {} /\ imported = {}
  /\ pc = [c \in Call |-> "new"]
  /\ tool = [c \in Call |-> "get"]
  /\ id = [c \in Call |-> 0]
  /\ left = [c \in Call |-> 1]
  /\ answer = [c \in Call |-> None]
  /\ told = {} /\ cut = {} /\ finished = {}

-----------------------------------------------------------------------------
(* GetCourse *)

Prepared ==
  /\ job # 0
  /\ ready' = ready \cup {job}
  /\ finished' = finished \cup {job}
  /\ job' = 0
  /\ UNCHANGED <<started, imported, mine, told, cut>>

\* Exports are not kept for ever.
Dropped(e) ==
  /\ e \in ready
  /\ ready' = ready \ {e}
  /\ UNCHANGED <<job, started, imported, mine, told, cut, finished>>

-----------------------------------------------------------------------------
(* The tools *)

Goto(c, at) == pc' = [pc EXCEPT ![c] = at] /\ UNCHANGED answer

\* An answer that names export e, if e # 0.
Return(c, what, e) ==
  /\ pc' = [pc EXCEPT ![c] = "done"]
  /\ answer' = [answer EXCEPT ![c] = [is |-> what, id |-> e]]

\* _error: the export of the call, if it has one, is not named.
Raise(c, what, e) ==
  /\ Return(c, what, 0)
  /\ cut' = IF e = 0 THEN cut ELSE cut \cup {e}

\* _bounded_int
Bounded(n) == IF n < 1 THEN 1 ELSE IF n > MaxAttempts THEN MaxAttempts ELSE n

\* An export is started, and polled too by "start wait"; export e, whose id
\* was told, is read once or polled; or something is imported.
Begin(c, what, e, attempts) ==
  /\ pc[c] = "new"
  /\ tool' = [tool EXCEPT ![c] = what]
  /\ id' = [id EXCEPT ![c] = e]
  /\ left' = [left EXCEPT ![c] = IF what = "get" THEN 1 ELSE Bounded(attempts)]
  /\ Goto(c, CASE what \in {"start", "start wait"} -> "start"
               [] what \in {"get", "wait"} -> "poll"
               [] what = "import" -> "import")
  /\ UNCHANGED <<account, told, cut, finished>>

\* _require_filter, _require_confirm_write, normalize_path and the like refuse.
Refuse(c) ==
  /\ pc[c] = "new"
  /\ Return(c, "error", 0)
  /\ UNCHANGED <<account, tool, id, left, told, cut, finished>>

\* _start_export: GetCourse takes it, or is busy, or the limit is reached.
StartExport(c) ==
  /\ pc[c] = "start"
  /\ \/ /\ job = 0 /\ started < MaxExports
        /\ job' = started + 1 /\ started' = started + 1
        /\ \/ /\ tool[c] = "start"
              /\ Return(c, "started", started + 1)
              /\ told' = told \cup {started + 1}
              /\ UNCHANGED <<id, cut>>
           \/ /\ tool[c] = "start wait"
              /\ id' = [id EXCEPT ![c] = started + 1]
              /\ Goto(c, "poll")
              /\ UNCHANGED <<told, cut>>
           \/ Raise(c, "error", started + 1) /\ UNCHANGED <<id, told>>   \* the answer is lost
     \/ /\ job # 0 \/ started = MaxExports
        /\ Return(c, "transient", 0)
        /\ UNCHANGED <<job, started, id, told, cut>>
     \/ /\ Raise(c, "error", 0)
        /\ UNCHANGED <<job, started, id, told>>
  /\ UNCHANGED <<ready, imported, tool, left, finished>>

\* Mutant: the id is left out.
StillPending_Unnamed(c) == Return(c, "pending", 0) /\ UNCHANGED told

\* The last poll found the export not ready: its id is told.
StillPending(c) == Return(c, "pending", id[c]) /\ told' = told \cup {id[c]}

\* _read_export, within _wait_for_export
Poll(c) ==
  /\ pc[c] = "poll"
  /\ \/ /\ id[c] \in ready
        /\ Return(c, "data", id[c])
        /\ told' = told \cup {id[c]}
        /\ UNCHANGED left
     \/ /\ id[c] = job /\ left[c] > 1
        /\ left' = [left EXCEPT ![c] = @ - 1]
        /\ UNCHANGED <<pc, answer, told>>
     \/ /\ id[c] = job /\ left[c] = 1
        /\ StillPending(c)
        /\ UNCHANGED left
  /\ UNCHANGED <<account, tool, id, cut, finished>>

\* The export is not known (any more), GetCourse is busy (903, 905), or the
\* request or its answer is lost.
PollFails(c) ==
  /\ pc[c] = "poll"
  /\ Raise(c, IF id[c] = job \/ id[c] \in ready THEN "transient" ELSE "error", id[c])
  /\ UNCHANGED <<account, tool, id, left, told, finished>>

\* post_import
Import(c) ==
  /\ pc[c] = "import"
  /\ \/ imported' = imported \cup {c} /\ Return(c, "ok", 0)
     \/ imported' = imported \cup {c} /\ Return(c, "error", 0)   \* the answer is lost
     \/ UNCHANGED imported /\ Return(c, "error", 0)
  /\ UNCHANGED <<job, started, ready, tool, id, left, told, cut, finished>>

Step(c) ==
  \/ \E what \in {"start", "start wait", "import"}, n \in 0 .. MaxAttempts + 1 : Begin(c, what, 0, n)
  \/ \E what \in {"get", "wait"}, e \in told, n \in 0 .. MaxAttempts + 1 : Begin(c, what, e, n)
  \/ Refuse(c) \/ StartExport(c) \/ Poll(c) \/ PollFails(c) \/ Import(c)

Next ==
  \/ Prepared \/ \E e \in ready : Dropped(e)
  \/ \E c \in Call : Step(c)

Spec == Init /\ [][Next]_vars

-----------------------------------------------------------------------------
\* An export is not started in vain: its id is told to the caller or in the
\* hands of the call that started it, unless that call ended with an error.
\* What is answered as data was prepared, and what an answer calls pending or
\* data is named in it, so that the caller can come back.
ExportsAccounted ==
  /\ 1 .. started \subseteq told \cup cut \cup {id[c] : c \in {c \in Call : pc[c] = "poll"}}
  /\ \A c \in Call :
       /\ answer[c].is \in {"started", "pending", "data"} => answer[c].id \in told
       /\ answer[c].is = "data" => answer[c].id \in finished

-----------------------------------------------------------------------------
\* The invariant: GetCourse has the exports that were started, and what can be
\* read was prepared.
Types ==
  /\ started \in Nat
  /\ ready \subseteq finished
  /\ pc \in [Call -> {"new", "start", "poll", "import", "done"}]
  /\ tool \in [Call -> {"get", "wait", "start", "start wait", "import"}]
  /\ id \in [Call -> Nat]
  /\ answer \in [Call -> [is : {"none", "started", "pending", "data", "ok", "error", "transient"}, id : Nat]]
Safe == Types /\ told \subseteq Nat /\ ExportsAccounted
=============================================================================
